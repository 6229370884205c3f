------------------------------ MODULE AuditLog ------------------------------
(***************************************************************************)
(* What the audit trail promises: each tenant has a list of events that    *)
(* only grows at its end.  AuditChain implements it.                       *)
(***************************************************************************)
EXTENDS Sequences

CONSTANTS Tenant, Event

VARIABLE log

Init == log = [t \in Tenant |-> << >>]

Record(t, e) == log' = [log EXCEPT ![t] = Append(@, e)]

Next == \E t \in Tenant, e \in Event : Record(t, e)

Spec == Init /\ [][Next]_log
=============================================================================
