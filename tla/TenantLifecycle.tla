--------------------------- MODULE TenantLifecycle ---------------------------
(***************************************************************************)
(* The state a platform admin gives a tenant, suspended, read-only or to   *)
(* be deleted after a grace period (internal/core/handlers/admin.go), and  *)
(* how soon requests feel it: RequireTenant (auth.go) asks the cache of    *)
(* its process (tenantstate.go), which a notification on the bus (bus.go)  *)
(* empties, at most once and perhaps never, and which expires by itself.   *)
(*                                                                         *)
(* One tenant.  Time passes in ticks: an entry lives for Ttl of them, a    *)
(* request for Timeout (middleware.Timeout), a deletion waits for Grace.   *)
(* A request whose query is done stores the result before its deadline.    *)
(* Of a session only whether it has the tenant selected is kept, and the   *)
(* entries of the audit log are left out.  Home says which process handles *)
(* each request, and a request's method is chosen when it decides.         *)
(***************************************************************************)
EXTENDS Integers

CONSTANTS Process, Session, Request, Home, Admin, Ttl, Timeout, Grace, None

ASSUME RequestsHaveHomes == Home \in [Request -> Process]
ASSUME TimesArePositive == {Ttl, Timeout, Grace} \subseteq Nat \ {0}

VARIABLES
    tenant,   \* the row of tenants, or None once it is deleted
    selected, \* the sessions that have the tenant selected
    cache,    \* what each process remembers of the tenant, and for how long
    bus,      \* the processes a notification is on its way to
    pc,       \* what each request does next
    age,      \* for how long it has been at it
    seen,     \* what its query saw
    apc,      \* what each call of a platform admin does next
    job,      \* its process, and whether it closes the tenant
    settled   \* ghost: for how long each method has had the same verdict

requests == <<pc, age, seen>>
admins == <<apc, job>>
vars == <<tenant, selected, cache, bus, requests, admins, settled>>

Method == {"GET", "POST"}
Lag == Ttl + Timeout - 1

Flags == [suspended: BOOLEAN, readOnly: BOOLEAN]
Row == [flags: Flags, due: 0 .. Grace \cup {None}]
Op == [kind: {"state"}, to: Flags] \cup [kind: {"schedule", "cancel"}]
Job == [process: Process, closes: BOOLEAN]

ASSUME NoneIsNoRow == None \notin Row

TypeOK ==
    /\ tenant \in Row \cup {None}
    /\ selected \subseteq Session
    /\ tenant = None => selected = {}
    /\ cache \in [Process -> [flags: Flags, age: 0 .. Ttl - 1] \cup {None}]
    /\ bus \subseteq Process
    /\ pc \in [Request -> {"idle", "gate", "query", "store"} \cup Method]
    /\ age \in [Request -> 0 .. Timeout]
    /\ seen \in [Request -> Flags \cup {None}]
    /\ \A r \in Request :
        /\ pc[r] \in {"query", "store"} => age[r] < Timeout
        /\ pc[r] = "store" => seen[r] \in Flags
    /\ apc \in [Admin -> {"idle", "local", "publish", "revoke"}]
    /\ job \in [Admin -> Job \cup {None}]
    /\ \A a \in Admin : apc[a] # "idle" => job[a] \in Job
    /\ settled \in [Method -> 0 .. Lag]

Init ==
    /\ tenant = [flags |-> [suspended |-> FALSE, readOnly |-> FALSE], due |-> None]
    /\ selected = {}
    /\ cache = [p \in Process |-> None]
    /\ bus = {}
    /\ pc = [r \in Request |-> "idle"]
    /\ age = [r \in Request |-> 0]
    /\ seen = [r \in Request |-> None]
    /\ apc = [a \in Admin |-> "idle"]
    /\ job = [a \in Admin |-> None]
    /\ settled = [m \in Method |-> Lag]

-----------------------------------------------------------------------------
\* Whether a request with method m goes through, as RequireTenant decides it.
Allows(f, m) == ~f.suspended /\ (f.readOnly => m = "GET")

\* What the row says now: a tenant that is gone lets nothing through.
Open(t, m) == t # None /\ Allows(t.flags, m)

\* The row becomes t.
Write(t) ==
    /\ tenant' = t
    /\ settled' = [m \in Method |-> IF Open(t, m) = Open(tenant, m) THEN settled[m] ELSE 0]

Goto(r, label) == pc' = [pc EXCEPT ![r] = label]

\* The request is answered, or goes on to its handler, which pc[r] \in Method says.
Finish(r, label) ==
    /\ Goto(r, label)
    /\ age' = [age EXCEPT ![r] = 0]
    /\ seen' = [seen EXCEPT ![r] = None]

Decide(r, f) == \E m \in Method : Finish(r, IF Allows(f, m) THEN m ELSE "idle")

-----------------------------------------------------------------------------
(* A session selects the tenant: SelectTenant asks for a membership, not for
   the tenant's state.  It leaves by another selection, a logout or its end. *)
SelectTenant(s) ==
    /\ s \notin selected /\ tenant # None
    /\ selected' = selected \cup {s}
    /\ UNCHANGED <<tenant, cache, bus, requests, admins, settled>>

Leave(s) ==
    /\ s \in selected
    /\ selected' = selected \ {s}
    /\ UNCHANGED <<tenant, cache, bus, requests, admins, settled>>

-----------------------------------------------------------------------------
(* A request.  Resolve finds a session with its tenant ... *)
Arrive(r) ==
    /\ pc[r] = "idle" /\ selected # {}
    /\ Goto(r, "gate")
    /\ UNCHANGED <<tenant, selected, cache, bus, age, seen, admins, settled>>

\* Mutant: a hit renews the entry.
GetCachedAndRenew(r) ==
    /\ pc[r] = "gate" /\ cache[Home[r]] # None
    /\ Decide(r, cache[Home[r]].flags)
    /\ cache' = [cache EXCEPT ![Home[r]].age = 0]
    /\ UNCHANGED <<tenant, selected, bus, admins, settled>>

(* ... and Get an entry that has not expired, which decides. *)
GetCached(r) ==
    /\ pc[r] = "gate" /\ cache[Home[r]] # None
    /\ Decide(r, cache[Home[r]].flags)
    /\ UNCHANGED <<tenant, selected, cache, bus, admins, settled>>

(* Without one the lock is given back and the database asked. *)
GetMissed(r) ==
    /\ pc[r] = "gate" /\ cache[Home[r]] = None
    /\ IF age[r] < Timeout THEN Goto(r, "query") /\ UNCHANGED <<age, seen>>
       ELSE Finish(r, "idle")
    /\ UNCHANGED <<tenant, selected, cache, bus, admins, settled>>

\* tenant_state, which has no row for a tenant that is gone.
Query(r) ==
    /\ pc[r] = "query"
    /\ IF tenant # None
       THEN Goto(r, "store") /\ seen' = [seen EXCEPT ![r] = tenant.flags] /\ UNCHANGED age
       ELSE Finish(r, "idle")
    /\ UNCHANGED <<tenant, selected, cache, bus, admins, settled>>

(* The answer is remembered as of now, whatever has happened since the
   database gave it, and decides. *)
Store(r) ==
    /\ pc[r] = "store"
    /\ cache' = [cache EXCEPT ![Home[r]] = [flags |-> seen[r], age |-> 0]]
    /\ Decide(r, seen[r])
    /\ UNCHANGED <<tenant, selected, bus, admins, settled>>

Return(r) ==
    /\ pc[r] \in Method
    /\ Goto(r, "idle")
    /\ UNCHANGED <<tenant, selected, cache, bus, age, seen, admins, settled>>

-----------------------------------------------------------------------------
(* A platform admin's call, handled by process p. *)
Suspends(op) == op.kind = "schedule" \/ (op.kind = "state" /\ op.to.suspended)

(* SetTenantState writes the two flags and leaves the deletion as it is;
   ScheduleDeletion and CancelDeletion write the deletion and suspended_at. *)
Apply(op, t) ==
    CASE op.kind = "state" -> [t EXCEPT !.flags = op.to]
      [] op.kind = "schedule" -> [t EXCEPT !.flags.suspended = TRUE, !.due = Grace]
      [] op.kind = "cancel" -> [t EXCEPT !.flags.suspended = FALSE, !.due = None]

Step(a, label) ==
    /\ apc' = [apc EXCEPT ![a] = label]
    /\ job' = IF label = "idle" THEN [job EXCEPT ![a] = None] ELSE job

Update(a, p, op) ==
    /\ apc[a] = "idle" /\ tenant # None
    /\ apc' = [apc EXCEPT ![a] = "local"]
    /\ job' = [job EXCEPT ![a] = [process |-> p, closes |-> Suspends(op)]]
    /\ Write(Apply(op, tenant))
    /\ UNCHANGED <<selected, cache, bus, requests>>

InvalidateLocal(a) ==
    /\ apc[a] = "local"
    /\ cache' = [cache EXCEPT ![job[a].process] = None]
    /\ Step(a, "publish")
    /\ UNCHANGED <<tenant, selected, bus, requests, settled>>

(* Publish tells every process that serves the tenant; an error is logged. *)
Publish(a) ==
    /\ apc[a] = "publish"
    /\ bus' \in {bus, {Home[r] : r \in Request}}
    /\ Step(a, IF job[a].closes THEN "revoke" ELSE "idle")
    /\ UNCHANGED <<tenant, selected, cache, requests, settled>>

(* RevokeTenantSessions; an error is logged or dropped, and the call ends. *)
Revoke(a) ==
    /\ apc[a] = "revoke"
    /\ selected' = {}
    /\ Step(a, "idle")
    /\ UNCHANGED <<tenant, cache, bus, requests, settled>>

RevokeFails(a) ==
    /\ apc[a] = "revoke"
    /\ Step(a, "idle")
    /\ UNCHANGED <<tenant, selected, cache, bus, requests, settled>>

-----------------------------------------------------------------------------
Deliver(p) ==
    /\ p \in bus
    /\ bus' = bus \ {p}
    /\ cache' = [cache EXCEPT ![p] = None]
    /\ UNCHANGED <<tenant, selected, requests, admins, settled>>

\* The connection that listens is down.
Lose(p) ==
    /\ p \in bus
    /\ bus' = bus \ {p}
    /\ UNCHANGED <<tenant, selected, cache, requests, admins, settled>>

(* A process dies and starts again: what it was doing stays half done. *)
Restart(p) ==
    LET dead == {r \in Request : Home[r] = p}
        cut == {a \in Admin : apc[a] # "idle" /\ job[a].process = p}
    IN  /\ cache' = [cache EXCEPT ![p] = None]
        /\ bus' = bus \ {p}
        /\ pc' = [r \in Request |-> IF r \in dead THEN "idle" ELSE pc[r]]
        /\ age' = [r \in Request |-> IF r \in dead THEN 0 ELSE age[r]]
        /\ seen' = [r \in Request |-> IF r \in dead THEN None ELSE seen[r]]
        /\ apc' = [a \in Admin |-> IF a \in cut THEN "idle" ELSE apc[a]]
        /\ job' = [a \in Admin |-> IF a \in cut THEN None ELSE job[a]]
        /\ UNCHANGED <<tenant, selected, settled>>

\* Mutant: sessions.tenant_id keeps the id of the tenant that is gone.
SweepRowOnly ==
    /\ tenant # None /\ tenant.due = 0
    /\ Write(None)
    /\ UNCHANGED <<selected, cache, bus, requests, admins>>

\* Mutant: only tenants that are still suspended are deleted.
SweepSuspended ==
    /\ tenant # None /\ tenant.due = 0 /\ tenant.flags.suspended
    /\ Write(None)
    /\ selected' = {}
    /\ UNCHANGED <<cache, bus, requests, admins>>

(* SweepDeletions, with the cascades: sessions.tenant_id becomes NULL. *)
Sweep ==
    /\ tenant # None /\ tenant.due = 0
    /\ Write(None)
    /\ selected' = {}
    /\ UNCHANGED <<cache, bus, requests, admins>>

(* Time passes: entries expire, and a query that is not answered when its
   request's time is over is cancelled. *)
Tick ==
    LET late == {r \in Request : pc[r] \in {"query", "store"} /\ age[r] + 1 = Timeout}
    IN  /\ tenant' = IF tenant # None /\ tenant.due # None /\ tenant.due # 0
                     THEN [tenant EXCEPT !.due = @ - 1] ELSE tenant
        /\ cache' = [p \in Process |->
                        IF cache[p] = None \/ cache[p].age + 1 = Ttl THEN None
                        ELSE [cache[p] EXCEPT !.age = @ + 1]]
        /\ pc' = [r \in Request |-> IF r \in late THEN "idle" ELSE pc[r]]
        /\ age' = [r \in Request |->
                        IF r \in late \/ pc[r] \notin {"gate", "query", "store"} THEN 0
                        ELSE IF age[r] < Timeout THEN age[r] + 1 ELSE Timeout]
        /\ seen' = [r \in Request |-> IF r \in late THEN None ELSE seen[r]]
        /\ settled' = [m \in Method |-> IF settled[m] < Lag THEN settled[m] + 1 ELSE Lag]
        /\ UNCHANGED <<selected, bus, admins>>

Next ==
    \/ Tick \/ Sweep
    \/ \E s \in Session : SelectTenant(s) \/ Leave(s)
    \/ \E r \in Request :
        Arrive(r) \/ GetCached(r) \/ GetMissed(r) \/ Query(r) \/ Store(r) \/ Return(r)
    \/ \E a \in Admin :
        \/ \E p \in Process, op \in Op : Update(a, p, op)
        \/ InvalidateLocal(a) \/ Publish(a) \/ Revoke(a) \/ RevokeFails(a)
    \/ \E p \in Process : Deliver(p) \/ Lose(p) \/ Restart(p)

(* Time passes, and the hourly sweep, which tries again after an error, gets
   through sooner or later. *)
Spec == Init /\ [][Next]_vars /\ WF_vars(Tick) /\ WF_vars(Sweep)

-----------------------------------------------------------------------------
(* Properties *)

(* Notifications may be lost, and an answer of the database may be stored after
   the invalidation that should have removed it: still no request is let
   through on a state that the tenant left an entry's life and a request's time
   ago (bus.go:7-10, tenantstate.go:41). *)
LagBounded ==
    [][\A r \in Request, m \in Method :
          pc[r] # m /\ pc'[r] = m /\ settled[m] = Lag => Open(tenant, m)]_vars

(* A tenant that stays closed lets no request through any more, after a while,
   even if no notification ever arrives (bus.go:7-10). *)
ClosedTakesHold ==
    \A m \in Method :
        <>[](~Open(tenant, m)) => <>[][\A r \in Request : pc'[r] = m => pc[r] = m]_pc

(* A tenant whose deletion is scheduled is deleted when the time has come,
   unless the deletion is cancelled or scheduled anew (admin.go:274). *)
ScheduledIsDeleted ==
    (tenant # None /\ tenant.due \in 0 .. Grace - 1)
        ~> (tenant = None \/ tenant.due \in {None, Grace})

(* "Товлохдоо session-уудыг устгаж, түдгэлзүүлсэнтэй адил хаана" (admin.go:222):
   a tenant that is to be deleted is closed as if suspended. *)
ScheduledIsClosed == tenant # None /\ tenant.due # None => tenant.flags.suspended
=============================================================================
