----------------------------- MODULE AuditChain -----------------------------
(***************************************************************************)
(* The hash chain of the audit log: audit_append and audit_verify of       *)
(* 00005_hardening.sql and 00018_indexes_audit_verify.sql, called by       *)
(* Recorder.RecordAs (internal/core/audit/audit.go), one transaction per   *)
(* call.  Writers are calls in progress, on any number of connections and  *)
(* servers; each statement of the function is one action, because other    *)
(* transactions run between them.                                          *)
(*                                                                         *)
(* audit_append is VOLATILE and the isolation READ COMMITTED, so its SELECT *)
(* sees what was committed when the SELECT starts, after the lock.  Ids    *)
(* come from the table's identity sequence, which never takes one back.    *)
(* MaxId and MaxClock bound the sequence and the clock.                    *)
(***************************************************************************)
EXTENDS Integers, FiniteSets

CONSTANTS Tenant, Event, Writer, None, Genesis, MaxId, MaxClock

ASSUME BoundsAreNat == MaxId \in Nat /\ MaxClock \in Nat
ASSUME NoneIsNoWriter == None \notin Writer

VARIABLES
    rows,     \* what each id of audit_log says: never read before its insert
    visible,  \* the ids of committed rows
    nextId,   \* the identity sequence
    clock,    \* clock_timestamp()
    lock,     \* who holds the advisory lock of each tenant
    pc,       \* the next statement of each call
    job,      \* the row it is to append
    prev,     \* v_prev
    at,       \* v_at
    id        \* v_id

vars == <<rows, visible, nextId, clock, lock, pc, job, prev, at, id>>

Id == 1 .. MaxId
Locked == {"read", "clock", "insert", "commit"}

Init ==
    /\ rows = [i \in Id |-> None]
    /\ visible = {}
    /\ nextId = 1
    /\ clock = 0
    /\ lock = [t \in Tenant |-> None]
    /\ pc = [w \in Writer |-> "idle"]
    /\ job = [w \in Writer |-> None]
    /\ prev = [w \in Writer |-> Genesis]
    /\ at = [w \in Writer |-> 0]
    /\ id = [w \in Writer |-> 0]

TypeOK ==
    /\ visible \subseteq Id /\ nextId \in 1 .. MaxId + 1 /\ clock \in 0 .. MaxClock
    /\ DOMAIN rows = Id
    /\ lock \in [Tenant -> Writer \cup {None}]
    /\ pc \in [Writer -> {"idle", "lock"} \cup Locked]
    /\ DOMAIN job = Writer
    /\ \A w \in Writer : pc[w] # "idle" => job[w] \in [tenant: Tenant, event: Event]
    /\ DOMAIN prev = Writer
    /\ at \in [Writer -> 0 .. MaxClock]
    /\ id \in [Writer -> 0 .. MaxId]
    /\ \A w \in Writer : pc[w] = "commit" => id[w] \in Id

-----------------------------------------------------------------------------
\* Mutant: the event is left out of what is hashed.
RowHashBare(p, t, e, when) == <<p, t, when>>

\* SHA-256 of an unambiguous encoding: different rows have different hashes.
RowHash(p, t, e, when) == <<p, t, e, when>>

Row(t, e, when, p) ==
    [tenant |-> t, event |-> e, time |-> when, prev |-> p, hash |-> RowHash(p, t, e, when)]

Chain(t) == {i \in visible : rows[i].tenant = t}

IsLast(i, S) == i \in S /\ \A j \in S : j <= i

IsBefore(j, i, S) == IsLast(j, {k \in S : k < i})

(* audit_verify's loop over the rows of T with the ids S reports the first one,
   in id order, whose prev_hash is not the hash of the one before it or whose
   own hash does not fit. *)
Fits(T, i, S) ==
    /\ IF \A j \in S : i <= j
       THEN T[i].prev = Genesis
       ELSE \E j \in S : IsBefore(j, i, S) /\ T[i].prev = T[j].hash
    /\ T[i].hash = RowHash(T[i].prev, T[i].tenant, T[i].event, T[i].time)

-----------------------------------------------------------------------------
(* A call with the caller's own tenant; another one raises an exception
   before anything happens. *)
Call(w, t, e) ==
    /\ pc[w] = "idle"
    /\ pc' = [pc EXCEPT ![w] = "lock"]
    /\ job' = [job EXCEPT ![w] = [tenant |-> t, event |-> e]]
    /\ UNCHANGED <<rows, visible, nextId, clock, lock, prev, at, id>>

\* Mutant: pg_try_advisory_xact_lock, its answer ignored.
LockTried(w) ==
    /\ pc[w] = "lock"
    /\ lock' = [lock EXCEPT ![job[w].tenant] = w]
    /\ pc' = [pc EXCEPT ![w] = "read"]
    /\ UNCHANGED <<rows, visible, nextId, clock, job, prev, at, id>>

Lock(w) ==
    /\ pc[w] = "lock" /\ lock[job[w].tenant] = None
    /\ lock' = [lock EXCEPT ![job[w].tenant] = w]
    /\ pc' = [pc EXCEPT ![w] = "read"]
    /\ UNCHANGED <<rows, visible, nextId, clock, job, prev, at, id>>

ReadPrev(w) ==
    /\ pc[w] = "read"
    /\ \/ Chain(job[w].tenant) = {} /\ prev' = [prev EXCEPT ![w] = Genesis]
       \/ \E i \in Chain(job[w].tenant) :
            IsLast(i, Chain(job[w].tenant)) /\ prev' = [prev EXCEPT ![w] = rows[i].hash]
    /\ pc' = [pc EXCEPT ![w] = "clock"]
    /\ UNCHANGED <<rows, visible, nextId, clock, lock, job, at, id>>

\* Mutant: the lock is a session lock given back once the time is known.
ReadClockAndUnlock(w) ==
    /\ pc[w] = "clock"
    /\ at' = [at EXCEPT ![w] = clock]
    /\ lock' = [lock EXCEPT ![job[w].tenant] = None]
    /\ pc' = [pc EXCEPT ![w] = "insert"]
    /\ UNCHANGED <<rows, visible, nextId, clock, job, prev, id>>

ReadClock(w) ==
    /\ pc[w] = "clock"
    /\ at' = [at EXCEPT ![w] = clock]
    /\ pc' = [pc EXCEPT ![w] = "insert"]
    /\ UNCHANGED <<rows, visible, nextId, clock, lock, job, prev, id>>

\* Mutant: RETURNING id INTO v_id left out.
InsertUnnumbered(w) ==
    /\ pc[w] = "insert" /\ nextId <= MaxId
    /\ rows' = [rows EXCEPT ![nextId] = Row(job[w].tenant, job[w].event, at[w], prev[w])]
    /\ nextId' = nextId + 1
    /\ pc' = [pc EXCEPT ![w] = "commit"]
    /\ UNCHANGED <<visible, clock, lock, job, prev, at, id>>

Insert(w) ==
    /\ pc[w] = "insert" /\ nextId <= MaxId
    /\ rows' = [rows EXCEPT ![nextId] = Row(job[w].tenant, job[w].event, at[w], prev[w])]
    /\ id' = [id EXCEPT ![w] = nextId]
    /\ nextId' = nextId + 1
    /\ pc' = [pc EXCEPT ![w] = "commit"]
    /\ UNCHANGED <<visible, clock, lock, job, prev, at>>

End(w) ==
    /\ lock' = [t \in Tenant |-> IF lock[t] = w THEN None ELSE lock[t]]
    /\ pc' = [pc EXCEPT ![w] = "idle"]
    /\ job' = [job EXCEPT ![w] = None]
    /\ prev' = [prev EXCEPT ![w] = Genesis]
    /\ at' = [at EXCEPT ![w] = 0]
    /\ id' = [id EXCEPT ![w] = 0]

\* The row becomes visible, and then the lock is released: no one can tell.
Commit(w) ==
    /\ pc[w] = "commit"
    /\ visible' = visible \cup {id[w]}
    /\ End(w)
    /\ UNCHANGED <<rows, nextId, clock>>

(* The five seconds of RecordAs are over, or a server or the connection is
   gone: the transaction rolls back.  RecordAs logs it and returns. *)
Abort(w) ==
    /\ pc[w] # "idle"
    /\ rows' = [i \in Id |-> IF i = id[w] THEN None ELSE rows[i]]
    /\ End(w)
    /\ UNCHANGED <<visible, nextId, clock>>

Tick ==
    /\ clock < MaxClock
    /\ clock' = clock + 1
    /\ UNCHANGED <<rows, visible, nextId, lock, pc, job, prev, at, id>>

Audit(w) ==
    \/ \E t \in Tenant, e \in Event : Call(w, t, e)
    \/ Lock(w) \/ ReadPrev(w) \/ ReadClock(w) \/ Insert(w) \/ Commit(w) \/ Abort(w)

Next == Tick \/ \E w \in Writer : Audit(w)

Spec == Init /\ [][Next]_vars

-----------------------------------------------------------------------------
(* Properties *)

(* audit_verify reports nothing, at any moment, while calls append, fail and
   commit in any order: "эвдэрсэн эхний мөрийн id, бүрэн бол NULL"
   (00002_audit.sql:83). *)
ChainVerifies == \A t \in Tenant : \A i \in Chain(t) : Fits(rows, i, Chain(t))

(* The order of ids in a tenant's chain is the order of their times: what
   reading the clock inside the lock is for (docs/01-lessons.md, lesson 2). *)
TimeFollowsOrder ==
    \A i, j \in visible :
        rows[i].tenant = rows[j].tenant /\ i < j => rows[i].time <= rows[j].time

(* What the chain is for.  Of the committed rows of a tenant only S may still be
   there: audit_verify reports some row of S when one is missing before another,
   when a row has got another event or time, and even when that row's own hash
   was computed anew as well, if a row of S follows it.  That rows at the end
   are gone, it cannot see. *)
TamperEvident ==
    \A t \in Tenant : \A S \in SUBSET Chain(t) :
        LET Reported(T) == \E j \in S : ~Fits(T, j, S)
        IN  /\ (\E i \in Chain(t) \ S, j \in S : i < j) => Reported(rows)
            /\ \A i \in S, e \in Event, when \in 0 .. MaxClock :
                e # rows[i].event \/ when # rows[i].time =>
                    LET edited == [Row(t, e, when, rows[i].prev) EXCEPT !.hash = rows[i].hash]
                        rehashed == Row(t, e, when, rows[i].prev)
                    IN  /\ Reported([rows EXCEPT ![i] = edited])
                        /\ ~IsLast(i, S) => Reported([rows EXCEPT ![i] = rehashed])

-----------------------------------------------------------------------------
\* The n-th row of a tenant.
Nth(t, n) == CHOOSE i \in Chain(t) : Cardinality({j \in Chain(t) : j <= i}) = n

Log == INSTANCE AuditLog WITH
    log <- [t \in Tenant |-> [n \in 1 .. Cardinality(Chain(t)) |-> rows[Nth(t, n)].event]]

(* The table implements a list per tenant that only grows at its end. *)
RefinesLog == Log!Spec
=============================================================================
