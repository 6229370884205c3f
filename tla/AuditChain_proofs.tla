-------------------------- MODULE AuditChain_proofs --------------------------
(***************************************************************************)
(* The audit chain verifies at every moment and its times follow its ids,  *)
(* for any number of tenants and concurrent calls, and any bound.          *)
(***************************************************************************)
EXTENDS AuditChain, FiniteSetTheorems, SequenceTheorems, TLAPS

(* A call that is past the lock holds it, so no other call of the tenant is. *)
Held == \A w \in Writer : pc[w] \in Locked => lock[job[w].tenant] = w

(* What is in the table: rows with their own hash, from a past time, with ids
   the sequence has given out. *)
Written ==
    \A i \in visible :
        /\ i < nextId /\ rows[i].tenant \in Tenant
        /\ rows[i].time \in 0 .. clock
        /\ rows[i].hash = RowHash(rows[i].prev, rows[i].tenant, rows[i].event, rows[i].time)

(* The row a call has inserted follows all of its tenant's, and is its own. *)
Pending ==
    \A w \in Writer :
        /\ pc[w] # "commit" => id[w] = 0
        /\ pc[w] = "commit" =>
            /\ id[w] \in Id /\ id[w] < nextId /\ id[w] \notin visible
            /\ rows[id[w]] = Row(job[w].tenant, job[w].event, at[w], prev[w])
            /\ \A i \in Chain(job[w].tenant) : i < id[w]
            /\ \A v \in Writer : v # w => id[v] # id[w]

(* What a call has read is still so, because it holds the lock. *)
Tip(t, h) ==
    \/ Chain(t) = {} /\ h = Genesis
    \/ \E i \in Chain(t) : IsLast(i, Chain(t)) /\ h = rows[i].hash

TipRead ==
    \A w \in Writer :
        pc[w] \in {"clock", "insert", "commit"} => Tip(job[w].tenant, prev[w])

TimeRead ==
    \A w \in Writer : pc[w] \in {"insert", "commit"} =>
        /\ at[w] <= clock
        /\ \A i \in Chain(job[w].tenant) : rows[i].time <= at[w]

IInv ==
    /\ TypeOK /\ Held /\ Written /\ Pending /\ TipRead /\ TimeRead
    /\ ChainVerifies /\ TimeFollowsOrder

-----------------------------------------------------------------------------
LEMMA InitOK == Init => IInv
BY BoundsAreNat, NoneIsNoWriter
DEF Init, IInv, TypeOK, Held, Written, Pending, TipRead, TimeRead, ChainVerifies,
    TimeFollowsOrder, Chain, Id, Locked

LEMMA EndTyped ==
    ASSUME TypeOK, NEW w \in Writer, End(w)
    PROVE  /\ lock' \in [Tenant -> Writer \cup {None}]
           /\ pc' \in [Writer -> {"idle", "lock"} \cup Locked]
           /\ DOMAIN job' = Writer
           /\ \A v \in Writer : pc'[v] # "idle" => job'[v] \in [tenant: Tenant, event: Event]
           /\ DOMAIN prev' = Writer
           /\ at' \in [Writer -> 0 .. MaxClock]
           /\ id' \in [Writer -> 0 .. MaxId]
           /\ \A v \in Writer : pc'[v] = "commit" => id'[v] \in Id
BY BoundsAreNat DEF End, TypeOK

LEMMA StepTyped == TypeOK /\ [Next]_vars => TypeOK'
<1> SUFFICES ASSUME TypeOK, [Next]_vars PROVE TypeOK'
  OBVIOUS
<1> USE BoundsAreNat
<1>1. CASE Tick
  BY <1>1 DEF Tick, TypeOK
<1>2. ASSUME NEW w \in Writer, Audit(w) PROVE TypeOK'
  <2>1. ASSUME NEW t \in Tenant, NEW e \in Event, Call(w, t, e) PROVE TypeOK'
    BY <2>1 DEF Call, TypeOK
  <2>2. CASE Lock(w)
    BY <2>2 DEF Lock, TypeOK, Locked
  <2>3. CASE ReadPrev(w)
    BY <2>3 DEF ReadPrev, TypeOK, Locked
  <2>4. CASE ReadClock(w)
    BY <2>4 DEF ReadClock, TypeOK, Locked
  <2>5. CASE Insert(w)
    BY <2>5 DEF Insert, TypeOK, Locked, Id
  <2>6. CASE Commit(w)
    <3>1. id[w] \in Id
      BY <2>6 DEF Commit, TypeOK
    <3>2. QED
      BY <2>6, <3>1, EndTyped DEF Commit, TypeOK
  <2>7. CASE Abort(w)
    BY <2>7, EndTyped DEF Abort, TypeOK
  <2>8. QED
    BY <1>2, <2>1, <2>2, <2>3, <2>4, <2>5, <2>6, <2>7 DEF Audit
<1>3. CASE UNCHANGED vars
  BY <1>3 DEF vars, TypeOK
<1>4. QED
  BY <1>1, <1>2, <1>3 DEF Next

-----------------------------------------------------------------------------
(* A step that leaves the committed rows alone leaves the chains alone. *)
LEMMA Frame ==
    ASSUME visible' = visible, \A i \in visible : rows'[i] = rows[i]
    PROVE  /\ \A t : Chain(t)' = Chain(t)
           /\ ChainVerifies => ChainVerifies'
           /\ TimeFollowsOrder => TimeFollowsOrder'
           /\ \A t, h : Tip(t, h) => Tip(t, h)'
<1>1. \A t : Chain(t)' = Chain(t)
  BY DEF Chain
<1>2. \A t : \A i \in Chain(t) : i \in visible
  BY DEF Chain
<1>3. ChainVerifies => ChainVerifies'
  BY <1>1, <1>2 DEF ChainVerifies, Fits, IsBefore, IsLast, RowHash
<1>4. TimeFollowsOrder => TimeFollowsOrder'
  BY DEF TimeFollowsOrder
<1>5. \A t, h : Tip(t, h) => Tip(t, h)'
  BY <1>1, <1>2 DEF Tip, IsLast
<1>6. QED
  BY <1>1, <1>3, <1>4, <1>5

(* Ending a call keeps everyone else's lock. *)
LEMMA EndHeld ==
    ASSUME TypeOK, Held, NEW w \in Writer, End(w)
    PROVE  Held'
BY NoneIsNoWriter DEF End, Held, TypeOK, Locked

LEMMA OthersElsewhere ==
    ASSUME TypeOK, Held, NEW v \in Writer, NEW w \in Writer, v # w,
           pc[v] \in Locked, pc[w] \in Locked
    PROVE  job[v].tenant # job[w].tenant
BY DEF Held

(* One more row at the end of one chain. *)
LEMMA CommitChain ==
    ASSUME IInv, NEW w \in Writer, Commit(w), NEW t, NEW k, t = job[w].tenant, k = id[w]
    PROVE  /\ t \in Tenant /\ k \in Id
           /\ \A u : u # t => Chain(u)' = Chain(u)
           /\ Chain(t)' = Chain(t) \cup {k}
           /\ \A i \in Chain(t) : i < k
           /\ rows[k] = Row(t, job[w].event, at[w], prev[w])
           /\ rows' = rows /\ visible' = visible \cup {k}
<1>1. rows[k] = Row(t, job[w].event, at[w], prev[w])
  BY DEF IInv, Pending, Commit
<1>2. rows[k].tenant = t
  BY <1>1 DEF Row
<1>3. rows' = rows /\ visible' = visible \cup {k}
  BY DEF Commit
<1>4. \A i \in Chain(t) : i < k
  BY DEF IInv, Pending, Commit
<1>5. t \in Tenant /\ k \in Id
  BY DEF IInv, TypeOK, Commit
<1>6. QED
  BY <1>1, <1>2, <1>3, <1>4, <1>5 DEF Chain

LEMMA CommitVerifies ==
    ASSUME IInv, NEW w \in Writer, Commit(w)
    PROVE  ChainVerifies' /\ TimeFollowsOrder'
<1> PICK t : t = job[w].tenant
  OBVIOUS
<1> PICK k : k = id[w]
  OBVIOUS
<1>1. /\ t \in Tenant /\ k \in Id
      /\ \A u : u # t => Chain(u)' = Chain(u)
      /\ Chain(t)' = Chain(t) \cup {k} /\ \A i \in Chain(t) : i < k
      /\ rows[k] = Row(t, job[w].event, at[w], prev[w])
      /\ rows' = rows /\ visible' = visible \cup {k}
  BY CommitChain
<1>2. rows[k].tenant = t /\ rows[k].prev = prev[w] /\ rows[k].time = at[w]
      /\ rows[k].hash = RowHash(rows[k].prev, rows[k].tenant, rows[k].event, rows[k].time)
  BY <1>1 DEF Row
<1>3. k \in Int /\ \A i \in visible : i \in Int
  BY DEF IInv, TypeOK, Id, Commit
<1>4. \A u : \A i \in Chain(u) : i \in Int
  BY <1>3 DEF Chain
<1>5. ASSUME NEW u \in Tenant, NEW i \in Chain(u)' PROVE Fits(rows, i, Chain(u)')
  <2>1. CASE u # t
    BY <1>1, <1>5, <2>1 DEF IInv, ChainVerifies
  <2>2. CASE u = t /\ i \in Chain(t)
    <3>1. Fits(rows, i, Chain(t))
      BY <1>5, <2>2 DEF IInv, ChainVerifies
    <3>2. {j \in Chain(t)' : j < i} = {j \in Chain(t) : j < i}
      BY <1>1, <1>3, <1>4, <2>2
    <3>3. (\A j \in Chain(t)' : i <= j) <=> (\A j \in Chain(t) : i <= j)
      BY <1>1, <1>3, <1>4, <2>2
    <3>4. QED
      BY <1>1, <2>2, <3>1, <3>2, <3>3 DEF Fits, IsBefore
  <2>3. CASE u = t /\ i = k
    <3>1. Tip(t, prev[w])
      BY DEF IInv, TipRead, Commit
    <3>2. {j \in Chain(t)' : j < k} = Chain(t)
      BY <1>1, <1>3, <1>4
    <3>3. CASE Chain(t) = {} /\ prev[w] = Genesis
      <4>1. \A j \in Chain(t)' : k <= j
        BY <1>1, <1>3, <3>3
      <4>2. QED
        BY <1>2, <2>3, <3>3, <4>1 DEF Fits
    <3>4. ASSUME NEW j \in Chain(t), IsLast(j, Chain(t)), prev[w] = rows[j].hash
          PROVE  Fits(rows, i, Chain(u)')
      <4>1. j \in Chain(t)' /\ j < k /\ IsBefore(j, k, Chain(t)')
        BY <1>1, <3>2, <3>4 DEF IsBefore
      <4>2. ~ \A n \in Chain(t)' : k <= n
        BY <1>3, <1>4, <4>1
      <4>3. QED
        BY <1>2, <2>3, <3>4, <4>1, <4>2 DEF Fits
    <3>5. QED
      BY <3>1, <3>3, <3>4 DEF Tip
  <2>4. QED
    BY <1>1, <1>5, <2>1, <2>2, <2>3
<1>6. ChainVerifies'
  BY <1>1, <1>5 DEF ChainVerifies, Fits, IsBefore, IsLast, RowHash
<1>7. ASSUME NEW i \in visible', NEW j \in visible',
             rows[i].tenant = rows[j].tenant, i < j
      PROVE  rows[i].time <= rows[j].time
  <2>1. CASE i \in visible /\ j \in visible
    BY <1>7, <2>1 DEF IInv, TimeFollowsOrder
  <2>2. CASE j = k
    <3>1. i # k /\ i \in visible
      BY <1>1, <1>3, <1>7, <2>2
    <3>2. i \in Chain(t)
      BY <1>2, <1>7, <2>2, <3>1 DEF Chain
    <3>3. QED
      BY <1>2, <2>2, <3>2 DEF IInv, TimeRead, Commit
  <2>3. CASE i = k /\ j \in visible
    <3>1. j \in Chain(t)
      BY <1>2, <1>7, <2>3 DEF Chain
    <3>2. QED
      BY <1>1, <1>3, <1>7, <2>3, <3>1
  <2>4. QED
    BY <1>1, <1>7, <2>1, <2>2, <2>3
<1>8. TimeFollowsOrder'
  BY <1>1, <1>7 DEF TimeFollowsOrder
<1>9. QED
  BY <1>6, <1>8

LEMMA CommitStep ==
    ASSUME IInv, NEW w \in Writer, Commit(w)
    PROVE  Held' /\ Written' /\ Pending' /\ TipRead' /\ TimeRead'
<1>1. /\ \A u : u # job[w].tenant => Chain(u)' = Chain(u)
      /\ rows[id[w]] = Row(job[w].tenant, job[w].event, at[w], prev[w])
      /\ rows' = rows /\ visible' = visible \cup {id[w]}
  BY CommitChain
<1>2. Held'
  BY EndHeld DEF IInv, Commit
<1>3. Written'
  <2>1. /\ rows[id[w]].tenant \in Tenant /\ rows[id[w]].time \in 0 .. clock
        /\ rows[id[w]].hash = RowHash(rows[id[w]].prev, rows[id[w]].tenant,
                                      rows[id[w]].event, rows[id[w]].time)
    BY <1>1 DEF Row, IInv, TimeRead, TypeOK, Commit
  <2>2. id[w] < nextId
    BY DEF IInv, Pending, Commit
  <2>3. QED
    BY <1>1, <2>1, <2>2 DEF Written, IInv, Commit, RowHash
<1>4. ASSUME NEW v \in Writer, v # w
      PROVE  /\ pc'[v] = pc[v] /\ job'[v] = job[v] /\ prev'[v] = prev[v]
             /\ at'[v] = at[v] /\ id'[v] = id[v]
  BY <1>4 DEF Commit, End, IInv, TypeOK
<1>5. pc'[w] = "idle" /\ id'[w] = 0
  BY DEF Commit, End, IInv, TypeOK
<1>6. ASSUME NEW v \in Writer, v # w, pc[v] \in Locked, NEW u, u = job[v].tenant
      PROVE  Chain(u)' = Chain(u)
  <2>1. job[v].tenant # job[w].tenant
    BY <1>6, OthersElsewhere DEF IInv, Commit, Locked
  <2>2. QED
    BY <1>1, <1>6, <2>1
<1>7. Pending'
  <2>1. ASSUME NEW v \in Writer, v # w, pc[v] = "commit"
        PROVE  /\ id[v] \notin visible'
               /\ \A u : u = job[v].tenant => \A i \in Chain(u)' : i < id[v]
               /\ \A x \in Writer : x # v => id'[x] # id[v]
    BY <1>1, <1>4, <1>5, <1>6, <2>1 DEF IInv, Pending, Id, Locked
  <2>2. QED
    BY <1>1, <1>4, <1>5, <2>1 DEF IInv, Pending, Commit, Row
<1>8. TipRead'
  <2>1. ASSUME NEW v \in Writer, v # w, pc[v] \in {"clock", "insert", "commit"}
        PROVE  \A u, h : u = job[v].tenant /\ h = prev[v] => Tip(u, h)'
    BY <1>1, <1>4, <1>6, <2>1 DEF IInv, TipRead, Tip, IsLast, Locked
  <2>2. QED
    BY <1>4, <1>5, <2>1 DEF TipRead, Tip, IsLast, Chain
<1>9. TimeRead'
  BY <1>1, <1>4, <1>5, <1>6 DEF IInv, TimeRead, Commit, Locked
<1>10. QED
  BY <1>2, <1>3, <1>7, <1>8, <1>9

-----------------------------------------------------------------------------
(* The other steps.  Each leaves the committed rows alone. *)
Kept == Held' /\ Written' /\ Pending' /\ TipRead' /\ TimeRead'

LEMMA CallStep ==
    ASSUME IInv, NEW w \in Writer, NEW t \in Tenant, NEW e \in Event, Call(w, t, e)
    PROVE  Kept
<1> USE DEF IInv, TypeOK, Call, Locked
<1>1. Held'
  BY DEF Held
<1>2. Written'
  BY DEF Written, RowHash
<1>3. Pending'
  BY DEF Pending, Chain, Row, Id
<1>4. TipRead' /\ TimeRead'
  BY DEF TipRead, TimeRead, Tip, Chain, IsLast
<1>5. QED
  BY <1>1, <1>2, <1>3, <1>4 DEF Kept

LEMMA LockStep ==
    ASSUME IInv, NEW w \in Writer, Lock(w)
    PROVE  Kept
<1> USE DEF IInv, TypeOK, Lock, Locked
<1>1. Held'
  BY NoneIsNoWriter DEF Held
<1>2. Written'
  BY DEF Written, RowHash
<1>3. Pending'
  BY DEF Pending, Chain, Row, Id
<1>4. TipRead' /\ TimeRead'
  BY DEF TipRead, TimeRead, Tip, Chain, IsLast
<1>5. QED
  BY <1>1, <1>2, <1>3, <1>4 DEF Kept

LEMMA ReadPrevStep ==
    ASSUME IInv, NEW w \in Writer, ReadPrev(w)
    PROVE  Kept
<1> USE DEF IInv, TypeOK, ReadPrev, Locked
<1>1. Held'
  BY DEF Held
<1>2. Written'
  BY DEF Written, RowHash
<1>3. Pending'
  BY DEF Pending, Chain, Row, Id
<1>4. TipRead'
  BY DEF TipRead, Tip, Chain, IsLast
<1>5. TimeRead'
  BY DEF TimeRead, Chain
<1>6. QED
  BY <1>1, <1>2, <1>3, <1>4, <1>5 DEF Kept

LEMMA ReadClockStep ==
    ASSUME IInv, NEW w \in Writer, ReadClock(w)
    PROVE  Kept
<1> USE DEF IInv, TypeOK, ReadClock, Locked
<1>1. Held'
  BY DEF Held
<1>2. Written'
  BY DEF Written, RowHash
<1>3. Pending'
  BY DEF Pending, Chain, Row, Id
<1>4. TipRead'
  BY DEF TipRead, Tip, Chain, IsLast
<1>5. TimeRead'
  BY DEF TimeRead, Written, Chain
<1>6. QED
  BY <1>1, <1>2, <1>3, <1>4, <1>5 DEF Kept

LEMMA InsertStep ==
    ASSUME IInv, NEW w \in Writer, Insert(w)
    PROVE  Kept /\ \A i \in visible : rows'[i] = rows[i]
<1> USE DEF IInv, TypeOK, Insert, Locked
<1>1. nextId \in Id /\ \A i \in visible : i < nextId /\ rows'[i] = rows[i]
  BY BoundsAreNat DEF Written, Id
<1>2. Held'
  BY DEF Held
<1>3. Written'
  BY <1>1 DEF Written, RowHash, Id
<1>4. \A t : Chain(t)' = Chain(t)
  BY <1>1 DEF Chain
<1>5. Pending'
  <2>1. rows'[nextId] = Row(job[w].tenant, job[w].event, at[w], prev[w])
    BY <1>1
  <2>2. \A v \in Writer : v # w => id[v] # nextId /\ id[v] < nextId
    BY <1>1 DEF Pending, Id
  <2>3. nextId \notin visible /\ \A i \in Chain(job[w].tenant) : i < nextId
    BY <1>1 DEF Chain, Id
  <2>4. ASSUME NEW v \in Writer PROVE Pending!(v)'
    <3>1. CASE v = w
      BY <1>1, <1>4, <2>1, <2>2, <2>3, <3>1 DEF Row
    <3>2. CASE v # w
      BY <1>1, <1>4, <2>2, <3>2 DEF Pending, Row, Id
    <3>3. QED
      BY <3>1, <3>2
  <2>5. QED
    BY <2>4 DEF Pending
<1>6. TipRead'
  BY <1>1, <1>4 DEF TipRead, Tip, Chain, IsLast
<1>7. TimeRead'
  BY <1>1, <1>4 DEF TimeRead, Chain
<1>8. QED
  BY <1>1, <1>2, <1>3, <1>5, <1>6, <1>7 DEF Kept

LEMMA AbortStep ==
    ASSUME IInv, NEW w \in Writer, Abort(w)
    PROVE  Kept /\ \A i \in visible : rows'[i] = rows[i]
<1>1. visible' = visible /\ \A i \in visible : rows'[i] = rows[i]
  BY DEF IInv, TypeOK, Abort, Pending, Id
<1>2. Held'
  BY EndHeld DEF IInv, Abort
<1>3. Written'
  BY <1>1 DEF IInv, Written, Abort, RowHash
<1>4. /\ pc'[w] = "idle" /\ id'[w] = 0
      /\ \A v \in Writer : v # w =>
            /\ pc'[v] = pc[v] /\ job'[v] = job[v] /\ prev'[v] = prev[v]
            /\ at'[v] = at[v] /\ id'[v] = id[v]
  BY DEF IInv, TypeOK, Abort, End
<1>5. \A t : Chain(t)' = Chain(t)
  BY <1>1 DEF Chain
<1>6. Pending'
  <2>1. ASSUME NEW v \in Writer, v # w, pc[v] = "commit"
        PROVE  /\ rows'[id[v]] = rows[id[v]]
               /\ \A u \in Writer : u # v => id'[u] # id[v]
    BY <1>4, <2>1 DEF IInv, Pending, Abort, Id
  <2>2. nextId' = nextId
    BY DEF Abort
  <2>3. ASSUME NEW v \in Writer PROVE Pending!(v)'
    <3>1. CASE v = w
      BY <1>4, <3>1
    <3>2. CASE v # w
      BY <1>1, <1>4, <1>5, <2>1, <2>2, <3>2 DEF IInv, Pending, Row
    <3>3. QED
      BY <3>1, <3>2
  <2>4. QED
    BY <2>3 DEF Pending
<1>7. TipRead'
  <2>1. ASSUME NEW v \in Writer, pc'[v] \in {"clock", "insert", "commit"}
        PROVE  Tip(job[v].tenant, prev[v])'
    BY <1>1, <1>4, <2>1 DEF IInv, TipRead, Tip, Chain, IsLast
  <2>2. QED
    BY <2>1 DEF TipRead
<1>8. TimeRead'
  BY <1>1, <1>4 DEF IInv, TimeRead, Chain, Abort
<1>9. QED
  BY <1>1, <1>2, <1>3, <1>6, <1>7, <1>8 DEF Kept

LEMMA TickStep ==
    ASSUME IInv, Tick
    PROVE  Kept
<1> USE DEF IInv, Tick, TypeOK
<1>1. Held' /\ Written' /\ Pending'
  BY DEF Held, Written, Pending, Chain, Row, RowHash
<1>2. TipRead' /\ TimeRead'
  BY DEF TipRead, TimeRead, Tip, Chain, IsLast
<1>3. QED
  BY <1>1, <1>2 DEF Kept

LEMMA Inductive == Spec => []IInv
<1>1. ASSUME IInv, [Next]_vars PROVE IInv'
  <2>1. TypeOK'
    BY <1>1, StepTyped DEF IInv
  <2>2. ASSUME visible' = visible, \A i \in visible : rows'[i] = rows[i], Kept
        PROVE  IInv'
    BY <1>1, <2>1, <2>2, Frame DEF IInv, Kept
  <2>3. ASSUME NEW w \in Writer, Audit(w) PROVE IInv'
    <3>1. ASSUME NEW t \in Tenant, NEW e \in Event, Call(w, t, e) PROVE IInv'
      BY <1>1, <2>2, <3>1, CallStep DEF Call
    <3>2. CASE Lock(w)
      BY <1>1, <2>2, <3>2, LockStep DEF Lock
    <3>3. CASE ReadPrev(w)
      BY <1>1, <2>2, <3>3, ReadPrevStep DEF ReadPrev
    <3>4. CASE ReadClock(w)
      BY <1>1, <2>2, <3>4, ReadClockStep DEF ReadClock
    <3>5. CASE Insert(w)
      BY <1>1, <2>2, <3>5, InsertStep DEF Insert
    <3>6. CASE Commit(w)
      BY <1>1, <2>1, <3>6, CommitStep, CommitVerifies DEF IInv
    <3>7. CASE Abort(w)
      BY <1>1, <2>2, <3>7, AbortStep DEF Abort
    <3>8. QED
      BY <2>3, <3>1, <3>2, <3>3, <3>4, <3>5, <3>6, <3>7 DEF Audit
  <2>4. CASE Tick
    BY <1>1, <2>2, <2>4, TickStep DEF Tick
  <2>5. CASE UNCHANGED vars
    <3>1. Kept
      BY <1>1, <2>5
      DEF vars, IInv, Kept, Held, Written, Pending, TipRead, TimeRead, Tip, Chain, IsLast,
          Row, RowHash
    <3>2. QED
      BY <2>2, <2>5, <3>1 DEF vars
  <2>6. QED
    BY <1>1, <2>3, <2>4, <2>5 DEF Next
<1>2. QED
  BY InitOK, <1>1, PTL DEF Spec

(* At every moment audit_verify finds every tenant's chain whole, whatever
   calls are in progress, fail or commit. *)
THEOREM ChainAlwaysVerifies == Spec => []ChainVerifies
BY Inductive, PTL DEF IInv

(* Times never run against ids in a tenant's chain. *)
THEOREM TimeAlwaysFollowsOrder == Spec => []TimeFollowsOrder
BY Inductive, PTL DEF IInv

THEOREM AuditTypeCorrect == Spec => []TypeOK
BY Inductive, PTL DEF IInv

-----------------------------------------------------------------------------
(* Tampering shows.  It rests on two more facts of the committed rows: no   *)
(* two of a chain have the same hash, and any of them have a first one.     *)
(* The first needs what is true of a SHA-256 and of 64 zeros in practice:   *)
(* no row hashes to the value that stands before the first one.  The second *)
(* is true of any set of ids; it is carried along as an invariant, because  *)
(* a theorem about the natural numbers that takes a predicate cannot be     *)
(* instantiated by the provers.                                             *)

GenesisIsNoHash == \A p, t, e, when : RowHash(p, t, e, when) # Genesis

HasFirst ==
    \A S \in SUBSET visible : S # {} => \E m \in S : \A j \in S : m <= j

Distinct ==
    \A t \in Tenant : \A i, j \in Chain(t) : rows[i].hash = rows[j].hash => i = j

FInv == IInv /\ HasFirst /\ Distinct

LEMMA ChainInts == ASSUME TypeOK PROVE \A t : \A i \in Chain(t) : i \in Int /\ i \in Id
<1>1. Id \subseteq Int
  BY BoundsAreNat DEF Id
<1> QED BY <1>1 DEF TypeOK, Chain

LEMMA SameHash ==
    ASSUME NEW p, NEW t, NEW e, NEW x, NEW q, NEW u, NEW f, NEW y,
           RowHash(p, t, e, x) = RowHash(q, u, f, y)
    PROVE  p = q /\ t = u /\ e = f /\ x = y
BY DEF RowHash

LEMMA CommitHasFirst ==
    ASSUME FInv, NEW w \in Writer, Commit(w) PROVE HasFirst'
<1>1. id[w] \in Int /\ visible \subseteq Int /\ visible' = visible \cup {id[w]}
  BY BoundsAreNat DEF FInv, IInv, TypeOK, Commit, Id
<1>2. SUFFICES ASSUME NEW S \in SUBSET (visible \cup {id[w]}), S # {}
               PROVE  \E m \in S : \A j \in S : m <= j
  BY <1>1 DEF HasFirst
<1>3. CASE S \ {id[w]} = {}
  BY <1>1, <1>2, <1>3
<1>4. CASE S \ {id[w]} # {}
  <2>1. PICK m \in S \ {id[w]} : \A j \in S \ {id[w]} : m <= j
    BY <1>4 DEF FInv, HasFirst
  <2>2. m \in Int /\ \A j \in S : j \in Int
    BY <1>1
  <2>3. CASE m <= id[w]
    BY <2>1, <2>3
  <2>4. CASE ~(m <= id[w])
    <3>1. id[w] \in S => \A j \in S : id[w] <= j
      BY <1>1, <2>1, <2>2, <2>4
    <3> QED BY <2>1, <3>1
  <2> QED BY <2>3, <2>4
<1> QED BY <1>3, <1>4

LEMMA CommitDistinct ==
    ASSUME GenesisIsNoHash, FInv, NEW w \in Writer, Commit(w) PROVE Distinct'
<1> PICK t : t = job[w].tenant
  OBVIOUS
<1> PICK k : k = id[w]
  OBVIOUS
<1>1. /\ t \in Tenant /\ k \in Int
      /\ \A u : u # t => Chain(u)' = Chain(u)
      /\ Chain(t)' = Chain(t) \cup {k} /\ \A i \in Chain(t) : i < k /\ i \in Int
      /\ rows[k] = Row(t, job[w].event, at[w], prev[w]) /\ rows' = rows
  BY CommitChain, ChainInts DEF FInv, IInv, Id
<1>2. rows[k].hash = RowHash(prev[w], t, job[w].event, at[w])
  BY <1>1 DEF Row
<1>3. ASSUME NEW m \in Chain(t), rows[m].hash = rows[k].hash PROVE FALSE
  <2>1. Fits(rows, m, Chain(t))
    BY <1>1 DEF FInv, IInv, ChainVerifies
  <2>2. rows[m].prev = prev[w]
    <3>1. rows[m].hash = RowHash(rows[m].prev, rows[m].tenant, rows[m].event, rows[m].time)
      BY <2>1 DEF Fits
    <3>2. RowHash(rows[m].prev, rows[m].tenant, rows[m].event, rows[m].time)
            = RowHash(prev[w], t, job[w].event, at[w])
      BY <1>2, <1>3, <3>1
    <3> QED BY <3>2 DEF RowHash
  <2>3. PICK l \in Chain(t) : IsLast(l, Chain(t)) /\ prev[w] = rows[l].hash
    BY <1>1 DEF FInv, IInv, TipRead, Tip, Commit
  <2>4. Fits(rows, l, Chain(t))
    BY <1>1 DEF FInv, IInv, ChainVerifies
  <2>5. prev[w] # Genesis
    BY <2>3, <2>4 DEF Fits, GenesisIsNoHash
  <2>6. PICK j \in Chain(t) : IsBefore(j, m, Chain(t)) /\ rows[m].prev = rows[j].hash
    BY <2>1, <2>2, <2>5 DEF Fits
  <2>7. j = l
    BY <1>1, <2>2, <2>3, <2>6 DEF FInv, Distinct
  <2> QED BY <1>1, <2>3, <2>6, <2>7 DEF IsBefore, IsLast
<1> QED BY <1>1, <1>3 DEF FInv, Distinct

LEMMA Untouched ==
    ASSUME FInv, visible' = visible, \A i \in visible : rows'[i] = rows[i]
    PROVE  HasFirst' /\ Distinct'
<1>1. \A t : Chain(t)' = Chain(t)
  BY Frame
<1>2. \A t : \A i \in Chain(t) : i \in visible
  BY DEF Chain
<1> QED BY <1>1, <1>2 DEF FInv, HasFirst, Distinct

\* Only a commit changes the committed rows.
LEMMA RowsByCommit ==
    ASSUME IInv, [Next]_vars
    PROVE  \/ visible' = visible /\ \A i \in visible : rows'[i] = rows[i]
           \/ \E w \in Writer : Commit(w)
<1>1. ASSUME NEW w \in Writer, Insert(w) \/ Abort(w)
      PROVE  visible' = visible /\ \A i \in visible : rows'[i] = rows[i]
  BY <1>1, InsertStep, AbortStep DEF Insert, Abort
<1> QED BY <1>1 DEF Next, Audit, Call, Lock, ReadPrev, ReadClock, Tick, vars

LEMMA AlwaysNoHash == GenesisIsNoHash => []GenesisIsNoHash
<1> SUFFICES ASSUME GenesisIsNoHash PROVE []GenesisIsNoHash
  OBVIOUS
<1> QED BY PTL

LEMMA InductiveChain == GenesisIsNoHash /\ Spec => []FInv
<1>1. Init => HasFirst /\ Distinct
  BY DEF Init, HasFirst, Distinct, Chain
<1>2. GenesisIsNoHash /\ FInv /\ IInv' /\ [Next]_vars => FInv'
  <2> SUFFICES ASSUME GenesisIsNoHash, FInv, [Next]_vars PROVE HasFirst' /\ Distinct'
    BY DEF FInv
  <2>1. IInv
    BY DEF FInv
  <2> QED BY <2>1, RowsByCommit, Untouched, CommitHasFirst, CommitDistinct
<1> QED BY Inductive, AlwaysNoHash, <1>1, <1>2, PTL DEF Spec, FInv

\* The row before one that is not the first.
LEMMA Predecessor ==
    ASSUME FInv, NEW t \in Tenant, NEW i \in Chain(t), NEW j \in Chain(t), i < j
    PROVE  \E p \in Chain(t) : i <= p /\ p < j /\ rows[j].prev = rows[p].hash
<1>1. Fits(rows, j, Chain(t)) /\ \A n \in Chain(t) : n \in Int
  BY ChainInts DEF FInv, IInv, ChainVerifies
<1>2. ~ \A n \in Chain(t) : j <= n
  BY <1>1
<1>3. PICK p \in Chain(t) : IsBefore(p, j, Chain(t)) /\ rows[j].prev = rows[p].hash
  BY <1>1, <1>2 DEF Fits
<1> QED BY <1>3 DEF IsBefore, IsLast

\* Two rows of a chain do not follow the same one.
LEMMA OneSuccessor ==
    ASSUME GenesisIsNoHash, FInv, NEW t \in Tenant,
           NEW i \in Chain(t), NEW p \in Chain(t), i < p
    PROVE  rows[p].prev # rows[i].prev
<1>1. PICK q \in Chain(t) : i <= q /\ rows[p].prev = rows[q].hash
  BY Predecessor
<1>2. Fits(rows, i, Chain(t)) /\ Fits(rows, q, Chain(t)) /\ i \in Int /\ q \in Int
  BY ChainInts DEF FInv, IInv, ChainVerifies
<1>3. rows[q].hash # Genesis
  BY <1>2 DEF Fits, GenesisIsNoHash
<1>4. CASE \A n \in Chain(t) : i <= n
  BY <1>1, <1>2, <1>3, <1>4 DEF Fits
<1>5. CASE ~ \A n \in Chain(t) : i <= n
  <2>1. PICK r \in Chain(t) : IsBefore(r, i, Chain(t)) /\ rows[i].prev = rows[r].hash
    BY <1>2, <1>5 DEF Fits
  <2>2. r < i /\ r \in Int
    BY <2>1, ChainInts DEF IsBefore, IsLast, FInv, IInv
  <2>3. r # q
    BY <1>1, <1>2, <2>2
  <2> QED BY <1>1, <2>1, <2>3 DEF FInv, Distinct
<1> QED BY <1>4, <1>5

\* Of the rows of S, the one right after k.
LEMMA NextIn ==
    ASSUME FInv, NEW t \in Tenant, NEW S \in SUBSET Chain(t), NEW k, NEW n \in S, k < n
    PROVE  \E j \in S : k < j /\ \A m \in S : k < m => j <= m
<1>1. {m \in S : k < m} \in SUBSET visible /\ n \in {m \in S : k < m}
  BY DEF Chain
<1>2. PICK j \in {m \in S : k < m} : \A m \in {l \in S : k < l} : j <= m
  BY <1>1 DEF FInv, HasFirst
<1> QED BY <1>2

LEMMA RemovalFound ==
    ASSUME GenesisIsNoHash, FInv, NEW t \in Tenant, NEW S \in SUBSET Chain(t),
           NEW k \in Chain(t) \ S, NEW n \in S, k < n
    PROVE  \E j \in S : ~Fits(rows, j, S)
<1>1. \A m \in Chain(t) : Fits(rows, m, Chain(t)) /\ m \in Int
  BY ChainInts DEF FInv, IInv, ChainVerifies
<1>2. PICK j \in S : k < j /\ \A m \in S : k < m => j <= m
  BY NextIn
<1>3. PICK p \in Chain(t) : k <= p /\ p < j /\ rows[j].prev = rows[p].hash
  BY <1>2, Predecessor
<1>4. rows[p].hash # Genesis
  BY <1>1 DEF Fits, GenesisIsNoHash
<1>5. p \notin S
  <2>1. p # k => k < p
    BY <1>1, <1>3
  <2>2. ~(j <= p)
    BY <1>1, <1>3
  <2> QED BY <1>2, <2>1, <2>2
<1>6. \A m \in S : rows[m].hash # rows[j].prev
  BY <1>3, <1>5 DEF FInv, Distinct
<1>7. ~Fits(rows, j, S)
  BY <1>3, <1>4, <1>6 DEF Fits
<1> QED BY <1>7

LEMMA EditFound ==
    ASSUME FInv, NEW t \in Tenant, NEW S \in SUBSET Chain(t), NEW i \in S, NEW e, NEW when,
           e # rows[i].event \/ when # rows[i].time
    PROVE  ~Fits([rows EXCEPT ![i] = [Row(t, e, when, rows[i].prev) EXCEPT !.hash = rows[i].hash]],
                 i, S)
<1> DEFINE T == [rows EXCEPT ![i] = [Row(t, e, when, rows[i].prev) EXCEPT !.hash = rows[i].hash]]
<1>1. Fits(rows, i, Chain(t)) /\ i \in Id /\ rows[i].tenant = t
  BY ChainInts DEF FInv, IInv, ChainVerifies, Chain
<1>2. RowHash(rows[i].prev, t, e, when) # rows[i].hash
  BY <1>1, SameHash DEF Fits
<1>3. DOMAIN rows = Id
  BY DEF FInv, IInv, TypeOK
<1>4. /\ T[i].prev = rows[i].prev /\ T[i].tenant = t
      /\ T[i].event = e /\ T[i].time = when /\ T[i].hash = rows[i].hash
  BY <1>1, <1>3 DEF Row
<1> HIDE DEF T
<1>5. ~Fits(T, i, S)
  BY <1>2, <1>4 DEF Fits
<1> QED BY <1>5 DEF T

LEMMA RehashFound ==
    ASSUME GenesisIsNoHash, FInv, NEW t \in Tenant, NEW S \in SUBSET Chain(t),
           NEW i \in S, NEW n \in S, i < n, NEW e, NEW when,
           e # rows[i].event \/ when # rows[i].time
    PROVE  \E j \in S : ~Fits([rows EXCEPT ![i] = Row(t, e, when, rows[i].prev)], j, S)
<1> DEFINE T == [rows EXCEPT ![i] = Row(t, e, when, rows[i].prev)]
<1>1. \A m \in Chain(t) : /\ Fits(rows, m, Chain(t)) /\ m \in Int /\ m \in Id
                          /\ rows[m].tenant = t
  BY ChainInts DEF FInv, IInv, ChainVerifies, Chain
<1>2. PICK j \in S : i < j /\ \A m \in S : i < m => j <= m
  BY NextIn
<1>3. PICK p \in Chain(t) : i <= p /\ rows[j].prev = rows[p].hash
  BY <1>2, Predecessor
<1>4. DOMAIN rows = Id
  BY DEF FInv, IInv, TypeOK
<1>5. T[i].hash = RowHash(rows[i].prev, t, e, when) /\ T[j] = rows[j]
  BY <1>1, <1>2, <1>4 DEF Row
<1> HIDE DEF T
<1>6. RowHash(rows[i].prev, t, e, when) # rows[p].hash
  <2> SUFFICES ASSUME RowHash(rows[i].prev, t, e, when) = rows[p].hash PROVE FALSE
    OBVIOUS
  <2>1. rows[p].hash = RowHash(rows[p].prev, t, rows[p].event, rows[p].time)
    BY <1>1 DEF Fits
  <2>2. rows[p].prev = rows[i].prev /\ rows[p].event = e /\ rows[p].time = when
    BY <2>1, SameHash
  <2>3. p # i
    BY <2>2
  <2>4. i < p
    BY <1>1, <1>3, <2>3
  <2> QED BY <2>2, <2>4, OneSuccessor
<1>7. \A m \in S : IsBefore(m, j, S) => m = i
  <2> SUFFICES ASSUME NEW m \in S, IsBefore(m, j, S) PROVE m = i
    OBVIOUS
  <2>1. m < j /\ i <= m
    BY <1>2 DEF IsBefore, IsLast
  <2>2. ~(i < m)
    BY <1>1, <1>2, <2>1
  <2> QED BY <1>1, <2>1, <2>2
<1>8. ~ \A m \in S : j <= m
  BY <1>1, <1>2
<1>9. ~Fits(T, j, S)
  BY <1>3, <1>5, <1>6, <1>7, <1>8 DEF Fits
<1> QED BY <1>9 DEF T

LEMMA TamperFound == ASSUME GenesisIsNoHash, FInv PROVE TamperEvident
<1>1. ASSUME NEW t \in Tenant, NEW S \in SUBSET Chain(t), NEW i \in S, ~IsLast(i, S)
      PROVE  \E n \in S : i < n
  BY <1>1, ChainInts DEF IsLast, FInv, IInv
<1> QED BY <1>1, RemovalFound, EditFound, RehashFound DEF TamperEvident

(* If no row hashes to the value before the first one, then of whatever rows
   of a tenant are left at any moment, audit_verify reports one, unless only
   rows at the end are gone: also when one of those left says another event or
   time, and even if its own hash was computed anew, unless it is the last. *)
THEOREM TamperShows == GenesisIsNoHash /\ Spec => []TamperEvident
<1>1. GenesisIsNoHash /\ FInv => TamperEvident
  BY TamperFound
<1> QED BY <1>1, InductiveChain, AlwaysNoHash, PTL

-----------------------------------------------------------------------------
(* The refinement.  The n-th row of a chain is the one with n rows up to   *)
(* it; there is one for each n up to the length of the chain, and a commit *)
(* leaves it where it is.                                                  *)

UpTo(S, i) == {j \in S : j <= i}
Position(S, n) == CHOOSE i \in S : Cardinality(UpTo(S, i)) = n

LEMMA UpToSmaller ==
    ASSUME NEW S, S \subseteq Int, NEW i \in S, NEW k \in S, k < i
    PROVE  UpTo(S, k) \subseteq UpTo(S, i) /\ i \notin UpTo(S, k) /\ i \in UpTo(S, i)
<1>1. i \in Int /\ k \in Int
  OBVIOUS
<1>2. \A j \in S : j <= k => j <= i
  BY <1>1
<1>3. i <= i /\ ~(i <= k)
  BY <1>1
<1> QED BY <1>2, <1>3 DEF UpTo

LEMMA PositionIs ==
    ASSUME NEW S, IsFiniteSet(S), S \subseteq Int, NEW n, NEW i \in S,
           Cardinality(UpTo(S, i)) = n
    PROVE  Position(S, n) = i
<1>1. PICK k \in S : k = Position(S, n) /\ Cardinality(UpTo(S, k)) = n
  BY DEF Position
<1>2. IsFiniteSet(UpTo(S, i)) /\ IsFiniteSet(UpTo(S, k))
  BY FS_Subset DEF UpTo
<1>3. CASE k < i
  BY <1>1, <1>2, <1>3, UpToSmaller, FS_Subset
<1>4. CASE i < k
  BY <1>1, <1>2, <1>4, UpToSmaller, FS_Subset
<1> QED BY <1>1, <1>3, <1>4

\* Every position up to the length is taken.
Full(S) == \A n \in 1 .. Cardinality(S) : \E i \in S : Cardinality(UpTo(S, i)) = n

\* One more element at the end takes the next position and moves no other.
LEMMA PositionsKept ==
    ASSUME NEW S, IsFiniteSet(S), S \subseteq Int, Full(S), NEW k \in Int, \A i \in S : i < k
    PROVE  /\ Full(S \cup {k})
           /\ Cardinality(S \cup {k}) = Cardinality(S) + 1
           /\ Position(S \cup {k}, Cardinality(S) + 1) = k
           /\ \A n \in 1 .. Cardinality(S) : /\ Position(S \cup {k}, n) = Position(S, n)
                                             /\ Position(S, n) \in S
<1> DEFINE T == S \cup {k}
<1>1. k \notin S
  OBVIOUS
<1>2. IsFiniteSet(T) /\ Cardinality(T) = Cardinality(S) + 1 /\ T \subseteq Int
  BY <1>1, FS_AddElement
<1>3. UpTo(T, k) = T
  <2>1. \A j \in T : j <= k
    BY <1>2
  <2> QED BY <2>1 DEF UpTo
<1>4. \A i \in S : UpTo(T, i) = UpTo(S, i)
  BY DEF UpTo
<1>5. Cardinality(S) \in Nat
  BY FS_CardinalityType
<1>6. Position(T, Cardinality(S) + 1) = k
  BY <1>2, <1>3, PositionIs
<1>7. ASSUME NEW n \in 1 .. Cardinality(S)
      PROVE  Position(T, n) = Position(S, n) /\ Position(S, n) \in S
  <2>1. PICK i \in S : Cardinality(UpTo(S, i)) = n
    BY DEF Full
  <2>2. Position(S, n) = i
    BY <2>1, PositionIs
  <2>3. Position(T, n) = i
    BY <1>2, <1>4, <2>1, PositionIs
  <2> QED BY <2>2, <2>3
<1>8. Full(T)
  <2> SUFFICES ASSUME NEW n \in 1 .. Cardinality(T)
               PROVE  \E i \in T : Cardinality(UpTo(T, i)) = n
    BY DEF Full
  <2>1. CASE n \in 1 .. Cardinality(S)
    BY <1>4, <2>1 DEF Full
  <2>2. CASE n = Cardinality(S) + 1
    BY <1>2, <1>3, <2>2
  <2> QED BY <1>2, <1>5, <2>1, <2>2
<1> QED BY <1>2, <1>6, <1>7, <1>8

LEMMA NthIsPosition == \A t, n : Nth(t, n) = Position(Chain(t), n)
BY DEF Nth, Position, UpTo

Numbered == \A t \in Tenant : Full(Chain(t))

\* The list a tenant's rows stand for.
Trail(t) == [n \in 1 .. Cardinality(Chain(t)) |-> rows[Nth(t, n)].event]

LEMMA ChainFinite ==
    ASSUME TypeOK, NEW t
    PROVE  IsFiniteSet(Chain(t)) /\ Chain(t) \subseteq Int /\ Cardinality(Chain(t)) \in Nat
<1>1. IsFiniteSet(Id) /\ Chain(t) \in SUBSET Id
  BY BoundsAreNat, FS_Interval, ChainInts DEF Id
<1> QED BY <1>1, ChainInts, FS_Subset, FS_CardinalityType

LEMMA NthInChain ==
    ASSUME TypeOK, NEW t, Full(Chain(t)), NEW n \in 1 .. Cardinality(Chain(t))
    PROVE  Nth(t, n) \in Chain(t)
<1>1. PICK i \in Chain(t) : Cardinality(UpTo(Chain(t), i)) = n
  BY DEF Full
<1> QED BY <1>1, ChainFinite, PositionIs, NthIsPosition

LEMMA AppendIs ==
    ASSUME NEW V, NEW c \in Nat, NEW s \in [1 .. c -> V], NEW e \in V,
           NEW r \in [1 .. c + 1 -> V], \A n \in 1 .. c : r[n] = s[n], r[c + 1] = e
    PROVE  r = Append(s, e)
<1>1. s \in Seq(V) /\ Len(s) = c
  BY IsASeq, LenProperties
<1>2. /\ Append(s, e) \in Seq(V) /\ Len(Append(s, e)) = c + 1
      /\ \A n \in 1 .. c : Append(s, e)[n] = s[n]
      /\ Append(s, e)[c + 1] = e
  BY <1>1, AppendProperties
<1>3. Append(s, e) \in [1 .. c + 1 -> V]
  BY <1>2, LenProperties
<1>4. \A n \in 1 .. c + 1 : Append(s, e)[n] = r[n]
  BY <1>2
<1> QED BY <1>3, <1>4

\* A step that changes no committed row changes no list.
LEMMA QuietLog ==
    ASSUME IInv, Numbered, visible' = visible, \A i \in visible : rows'[i] = rows[i]
    PROVE  Numbered' /\ \A t \in Tenant : Trail(t)' = Trail(t)
<1>1. \A t : Chain(t)' = Chain(t)
  BY Frame
<1>2. \A t, n : Nth(t, n)' = Nth(t, n)
  <2>1. \A t, n : Nth(t, n)' = Position(Chain(t)', n)
    BY DEF Nth, Position, UpTo
  <2> QED BY <1>1, <2>1, NthIsPosition
<1>3. Numbered'
  BY <1>1 DEF Numbered
<1>4. ASSUME NEW t \in Tenant PROVE Trail(t)' = Trail(t)
  <2>1. \A n \in 1 .. Cardinality(Chain(t)) : Nth(t, n) \in visible
    BY NthInChain DEF Numbered, IInv, Chain
  <2> QED BY <1>1, <1>2, <2>1 DEF Trail
<1> QED BY <1>3, <1>4

LEMMA CommitLog ==
    ASSUME IInv, Numbered, NEW w \in Writer, Commit(w)
    PROVE  /\ Numbered'
           /\ \A u \in Tenant :
                Trail(u)' = IF u = job[w].tenant THEN Append(Trail(u), job[w].event)
                            ELSE Trail(u)
           /\ job[w].tenant \in Tenant /\ job[w].event \in Event
<1>1. PICK t, k, c, S : t = job[w].tenant /\ k = id[w] /\ S = Chain(t) /\ c = Cardinality(S)
  OBVIOUS
<1>2. /\ t \in Tenant /\ k \in Int
      /\ \A u : u # t => Chain(u)' = Chain(u)
      /\ Chain(t)' = S \cup {k} /\ \A i \in S : i < k
      /\ rows[k] = Row(t, job[w].event, at[w], prev[w]) /\ rows' = rows
  BY <1>1, CommitChain DEF IInv, Id
<1>3. job[w].event \in Event /\ rows[k].event = job[w].event
  BY <1>2 DEF IInv, TypeOK, Commit, Row
<1>4. IsFiniteSet(S) /\ S \subseteq Int /\ c \in Nat /\ Full(S)
  BY <1>1, <1>2, ChainFinite DEF IInv, Numbered
<1>5. /\ Full(S \cup {k}) /\ Cardinality(S \cup {k}) = c + 1
      /\ Position(S \cup {k}, c + 1) = k
      /\ \A n \in 1 .. c : Position(S \cup {k}, n) = Position(S, n) /\ Position(S, n) \in S
  <2>1. /\ Full(S \cup {k}) /\ Cardinality(S \cup {k}) = Cardinality(S) + 1
        /\ Position(S \cup {k}, Cardinality(S) + 1) = k
        /\ \A n \in 1 .. Cardinality(S) : /\ Position(S \cup {k}, n) = Position(S, n)
                                          /\ Position(S, n) \in S
    BY <1>2, <1>4, PositionsKept
  <2> QED BY <1>1, <2>1
<1>6. \A u, n : Nth(u, n) = Position(Chain(u), n) /\ Nth(u, n)' = Position(Chain(u)', n)
  BY DEF Nth, Position, UpTo
<1>7. Numbered'
  BY <1>1, <1>2, <1>5 DEF Numbered
<1>8. \A u \in Tenant \ {t} : Trail(u)' = Trail(u)
  BY <1>2, <1>6 DEF Trail
<1>9. Trail(t)' = Append(Trail(t), job[w].event)
  <2>1. PICK s : s = [n \in 1 .. c |-> rows[Position(S, n)].event]
    OBVIOUS
  <2>2. PICK r : r = [n \in 1 .. c + 1 |-> rows[Position(S \cup {k}, n)].event]
    OBVIOUS
  <2>3. Trail(t) = s /\ Trail(t)' = r
    BY <1>1, <1>2, <1>5, <1>6, <2>1, <2>2 DEF Trail
  <2>4. \A n \in 1 .. c : n \in 1 .. c + 1
    BY <1>4
  <2>5. \A n \in 1 .. c : r[n] = s[n]
    BY <1>5, <2>1, <2>2, <2>4
  <2>6. c + 1 \in 1 .. c + 1
    BY <1>4
  <2>7. r[c + 1] = job[w].event
    BY <1>3, <1>5, <2>2, <2>6
  <2>8. PICK V : V = {r[n] : n \in 1 .. c + 1}
    OBVIOUS
  <2>9. \A n \in 1 .. c + 1 : r[n] \in V
    BY <2>8
  <2>10. r \in [1 .. c + 1 -> V] /\ s \in [1 .. c -> V] /\ job[w].event \in V
    <3>1. \A n \in 1 .. c : s[n] \in V
      BY <2>4, <2>5, <2>9
    <3>2. s \in [1 .. c -> V]
      BY <2>1, <3>1
    <3>3. r \in [1 .. c + 1 -> V]
      BY <2>2, <2>9
    <3> QED BY <2>6, <2>7, <2>9, <3>2, <3>3
  <2>11. r = Append(s, job[w].event)
    BY <1>4, <2>5, <2>7, <2>10, AppendIs
  <2> QED BY <2>3, <2>11
<1> QED BY <1>1, <1>2, <1>3, <1>7, <1>8, <1>9

LEMMA InitNumbered == Init => Numbered
<1> SUFFICES ASSUME Init PROVE Numbered
  OBVIOUS
<1>1. \A t : Chain(t) = {}
  BY DEF Init, Chain
<1>2. \A t : 1 .. Cardinality(Chain(t)) = {}
  BY <1>1, FS_EmptySet
<1> QED BY <1>2 DEF Numbered, Full

LEMMA StepNumbered == IInv /\ Numbered /\ [Next]_vars => Numbered'
BY QuietLog, CommitLog, RowsByCommit

\* The table of chained rows implements a list per tenant that only grows at
\* its end: a commit appends its event, and every other step changes nothing.
THEOREM Implements == Spec => RefinesLog
<1> DEFINE L == [t \in Tenant |-> [n \in 1 .. Cardinality(Chain(t)) |-> rows[Nth(t, n)].event]]
<1>1. Init => Log!Init /\ Numbered
  <2> SUFFICES ASSUME Init PROVE Log!Init /\ Numbered
    OBVIOUS
  <2>1. \A t : Chain(t) = {}
    BY DEF Init, Chain
  <2>2. \A t : 1 .. Cardinality(Chain(t)) = {}
    BY <2>1, FS_EmptySet
  <2>3. Numbered
    BY InitNumbered
  <2>4. Log!Init
    BY <2>2 DEF Log!Init
  <2> QED BY <2>3, <2>4
<1>2. IInv /\ Numbered /\ [Next]_vars => Numbered' /\ [Log!Next]_L
  <2> SUFFICES ASSUME IInv, Numbered, [Next]_vars PROVE Numbered' /\ (Log!Next \/ L' = L)
    OBVIOUS
  <2>0. L = [t \in Tenant |-> Trail(t)] /\ L' = [t \in Tenant |-> Trail(t)']
    BY DEF Trail
  <2>1. CASE visible' = visible /\ \A i \in visible : rows'[i] = rows[i]
    BY <2>0, <2>1, QuietLog
  <2>2. ASSUME NEW w \in Writer, Commit(w) PROVE Numbered' /\ Log!Next
    <3>1. PICK t \in Tenant : t = job[w].tenant
      BY <2>2, CommitLog
    <3>2. \A u \in Tenant : L[u] = Trail(u) /\ L'[u] = Trail(u)'
      BY <2>0
    <3>3. \A u \in Tenant : L'[u] = IF u = t THEN Append(L[u], job[w].event) ELSE L[u]
      <4> HIDE DEF L
      <4> QED BY <2>2, <3>1, <3>2, CommitLog
    <3>4. L' = [L EXCEPT ![t] = Append(L[t], job[w].event)]
      <4>1. DOMAIN L = Tenant /\ L' = [u \in Tenant |-> L'[u]]
        OBVIOUS
      <4> HIDE DEF L
      <4> QED BY <3>1, <3>3, <4>1
    <3>5. job[w].event \in Event
      BY <2>2, CommitLog
    <3>6. Log!Record(t, job[w].event)
      BY <3>4 DEF Log!Record
    <3> QED BY <2>2, <3>1, <3>5, <3>6, CommitLog DEF Log!Next
  <2> QED BY <2>1, <2>2, RowsByCommit
<1> QED BY Inductive, <1>1, <1>2, PTL DEF Spec, RefinesLog, Log!Spec

\* What a step does to the lists: nothing, or one more event at one's end.
LEMMA TrailStep ==
    ASSUME IInv, Numbered, [Next]_vars, NEW t \in Tenant, NEW n \in DOMAIN Trail(t)
    PROVE  n \in DOMAIN Trail(t)' /\ Trail(t)'[n] = Trail(t)[n]
<1>1. CASE Trail(t)' = Trail(t)
  BY <1>1
<1>2. ASSUME NEW w \in Writer, Commit(w), Trail(t)' # Trail(t)
      PROVE  n \in DOMAIN Trail(t)' /\ Trail(t)'[n] = Trail(t)[n]
  <2>1. PICK e, c, s : /\ e = job[w].event /\ c = Cardinality(Chain(t))
                       /\ s = Trail(t) /\ Trail(t)' = Append(s, e)
    BY <1>2, CommitLog
  <2>2. c \in Nat
    BY <2>1, ChainFinite DEF IInv
  <2>3. s = [k \in 1 .. c |-> rows[Nth(t, k)].event] /\ n \in 1 .. c
    BY <2>1 DEF Trail
  <2>4. PICK V : V = {s[k] : k \in 1 .. c} \cup {e}
    OBVIOUS
  <2>5. s \in [1 .. c -> V] /\ e \in V
    BY <2>3, <2>4
  <2>6. s \in Seq(V) /\ Len(s) = c
    BY <2>2, <2>5, IsASeq, LenProperties
  <2>7. /\ Append(s, e) \in Seq(V) /\ Len(Append(s, e)) = c + 1
        /\ \A k \in 1 .. c : Append(s, e)[k] = s[k]
    BY <2>5, <2>6, AppendProperties
  <2>8. DOMAIN Append(s, e) = 1 .. c + 1
    BY <2>7, LenProperties
  <2> QED BY <2>1, <2>2, <2>3, <2>7, <2>8
<1> QED BY <1>1, <1>2, QuietLog, RowsByCommit

\* What a tenant's trail says is never taken back, changed or moved: its n-th
\* event stays its n-th event, whatever commits, aborts or waits.
THEOREM TrailOnlyGrows ==
    Spec => [][\A t \in Tenant : \A n \in DOMAIN Trail(t) :
                   n \in DOMAIN Trail(t)' /\ Trail(t)'[n] = Trail(t)[n]]_vars
<1>1. IInv /\ Numbered /\ [Next]_vars
        => [\A t \in Tenant : \A n \in DOMAIN Trail(t) :
                n \in DOMAIN Trail(t)' /\ Trail(t)'[n] = Trail(t)[n]]_vars
  BY TrailStep
<1> QED BY Inductive, InitNumbered, StepNumbered, <1>1, PTL DEF Spec
=============================================================================
