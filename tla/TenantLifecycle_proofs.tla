----------------------- MODULE TenantLifecycle_proofs -----------------------
(***************************************************************************)
(* A request is let through by a state that the tenant has left at most    *)
(* Ttl + Timeout - 1 ticks before, for any number of processes, requests   *)
(* and platform admins and any lengths of time.                            *)
(***************************************************************************)
EXTENDS TenantLifecycle, TLAPS

(* The parts of TypeOK, each of which few actions change. *)
TenantTyped ==
    /\ tenant \in Row \cup {None}
    /\ selected \subseteq Session
    /\ tenant = None => selected = {}
    /\ settled \in [Method -> 0 .. Lag]

CacheTyped ==
    /\ cache \in [Process -> [flags: Flags, age: 0 .. Ttl - 1] \cup {None}]
    /\ bus \subseteq Process

RequestsTyped ==
    /\ pc \in [Request -> {"idle", "gate", "query", "store"} \cup Method]
    /\ age \in [Request -> 0 .. Timeout]
    /\ seen \in [Request -> Flags \cup {None}]
    /\ \A r \in Request :
        /\ pc[r] \in {"query", "store"} => age[r] < Timeout
        /\ pc[r] = "store" => seen[r] \in Flags

AdminsTyped ==
    /\ apc \in [Admin -> {"idle", "local", "publish", "revoke"}]
    /\ job \in [Admin -> Job \cup {None}]
    /\ \A a \in Admin : apc[a] # "idle" => job[a] \in Job

LEMMA TypeParts == TypeOK <=> TenantTyped /\ CacheTyped /\ RequestsTyped /\ AdminsTyped
BY DEF TypeOK, TenantTyped, CacheTyped, RequestsTyped, AdminsTyped

(* An entry that lets through what the tenant no longer does was read before
   the tenant closed: the tenant has been closed for less than the entry's age
   and the time a request has. *)
CacheLag ==
    \A p \in Process, m \in Method :
        cache[p] # None /\ Allows(cache[p].flags, m) /\ ~Open(tenant, m)
            => settled[m] < cache[p].age + Timeout

(* The same of what a query saw: no longer than the request has lasted. *)
SeenLag ==
    \A r \in Request, m \in Method :
        pc[r] = "store" /\ Allows(seen[r], m) /\ ~Open(tenant, m) => settled[m] <= age[r]

IInv == TypeOK /\ CacheLag /\ SeenLag

-----------------------------------------------------------------------------
LEMMA InitOK == Init => IInv
BY TimesArePositive
DEF Init, IInv, TypeOK, CacheLag, SeenLag, Flags, Row, Method, Lag, Open, Allows

(* Writing the row restarts the clock of every method whose verdict changes,
   and leaves the others. *)
LEMMA WriteTyped ==
    ASSUME TenantTyped, NEW t \in Row \cup {None},
           Write(t)
    PROVE  /\ tenant' \in Row \cup {None}
           /\ settled' \in [Method -> 0 .. Lag]
BY TimesArePositive DEF TenantTyped, Write, Lag

LEMMA WriteLag ==
    ASSUME TypeOK, CacheLag, SeenLag, NEW t, Write(t), UNCHANGED <<cache, requests>>
    PROVE  CacheLag' /\ SeenLag'
<1>1. \A m \in Method : ~Open(t, m) => settled'[m] = IF ~Open(tenant, m) THEN settled[m] ELSE 0
  BY DEF Write, Open
<1>2. tenant' = t
  BY DEF Write
<1>3. \A m \in Method : ~Open(tenant', m) =>
          settled'[m] = IF ~Open(tenant, m) THEN settled[m] ELSE 0
  BY <1>1, <1>2
<1>4. CacheLag'
  <2> SUFFICES ASSUME NEW p \in Process, NEW m \in Method,
                      cache[p] # None, Allows(cache[p].flags, m), ~Open(tenant', m)
               PROVE  settled'[m] < cache[p].age + Timeout
    BY DEF CacheLag, Open, Allows
  <2>1. cache[p].age \in 0 .. Ttl - 1
    BY DEF TypeOK
  <2> QED
    BY <1>3, <2>1, TimesArePositive DEF CacheLag
<1>5. SeenLag'
  <2> SUFFICES ASSUME NEW r \in Request, NEW m \in Method,
                      pc[r] = "store", Allows(seen[r], m), ~Open(tenant', m)
               PROVE  settled'[m] <= age[r]
    BY DEF SeenLag, Open, Allows, requests
  <2>1. age[r] \in 0 .. Timeout
    BY DEF TypeOK
  <2> QED
    BY <1>3, <2>1, TimesArePositive DEF SeenLag
<1> QED BY <1>4, <1>5

LEMMA ApplyTyped ==
    ASSUME NEW op \in Op, NEW t \in Row
    PROVE  Apply(op, t) \in Row
<1>1. Grace \in 0 .. Grace
  BY TimesArePositive
<1>2. CASE op.kind = "state"
  BY <1>2 DEF Apply, Op, Flags, Row
<1>3. CASE op.kind = "schedule"
  BY <1>1, <1>3 DEF Apply, Op, Flags, Row
<1>4. CASE op.kind = "cancel"
  BY <1>4 DEF Apply, Op, Flags, Row
<1> QED BY <1>2, <1>3, <1>4 DEF Op

LEMMA FinishTyped ==
    ASSUME RequestsTyped, NEW r \in Request, NEW l \in {"idle"} \cup Method, Finish(r, l)
    PROVE  RequestsTyped'
BY TimesArePositive DEF RequestsTyped, Finish, Goto, Method

LEMMA DecideTyped ==
    ASSUME RequestsTyped, NEW r \in Request, NEW f, Decide(r, f)
    PROVE  RequestsTyped'
BY FinishTyped DEF Decide

LEMMA StepTyped ==
    ASSUME AdminsTyped, NEW a \in Admin, NEW l \in {"idle", "publish", "revoke"},
           apc[a] # "idle", Step(a, l)
    PROVE  AdminsTyped'
BY DEF AdminsTyped, Step

-----------------------------------------------------------------------------
LEMMA TickTyped == TypeOK /\ Tick => TypeOK'
<1> SUFFICES ASSUME TypeOK, Tick PROVE TypeOK'
  OBVIOUS
<1> USE TimesArePositive
<1>1. TenantTyped /\ CacheTyped /\ RequestsTyped /\ AdminsTyped
  BY TypeParts
<1>2. TenantTyped'
  <2>1. settled' \in [Method -> 0 .. Lag]
    BY <1>1 DEF Tick, TenantTyped, Lag
  <2>2. CASE tenant # None /\ tenant.due # None /\ tenant.due # 0
    <3>1. tenant \in Row /\ tenant.due \in 1 .. Grace
      BY <1>1, <2>2 DEF TenantTyped, Row
    <3>2. tenant' = [tenant EXCEPT !.due = tenant.due - 1]
      BY <2>2 DEF Tick
    <3>3. tenant' \in Row
      BY <3>1, <3>2 DEF Row
    <3> QED BY <1>1, <2>1, <2>2, <3>3, NoneIsNoRow DEF TenantTyped, Tick
  <2>3. CASE ~(tenant # None /\ tenant.due # None /\ tenant.due # 0)
    BY <1>1, <2>1, <2>3 DEF Tick, TenantTyped
  <2> QED BY <2>2, <2>3
<1>3. CacheTyped'
  <2> SUFFICES ASSUME NEW p \in Process
               PROVE  (IF cache[p] = None \/ cache[p].age + 1 = Ttl THEN None
                       ELSE [cache[p] EXCEPT !.age = cache[p].age + 1])
                          \in [flags: Flags, age: 0 .. Ttl - 1] \cup {None}
    BY <1>1 DEF CacheTyped, Tick
  <2>1. CASE cache[p] # None /\ cache[p].age + 1 # Ttl
    <3>1. cache[p] \in [flags: Flags, age: 0 .. Ttl - 1]
      BY <1>1, <2>1 DEF CacheTyped
    <3>2. cache[p].age + 1 \in 0 .. Ttl - 1
      BY <2>1, <3>1
    <3> QED BY <2>1, <3>1, <3>2
  <2> QED BY <2>1
<1>4. RequestsTyped'
  BY <1>1 DEF RequestsTyped, Tick, Method
<1>5. AdminsTyped'
  BY <1>1 DEF AdminsTyped, Tick, admins
<1> QED BY <1>2, <1>3, <1>4, <1>5, TypeParts DEF TypeOK, TenantTyped, CacheTyped, RequestsTyped, AdminsTyped

LEMMA TickLag == IInv /\ Tick => CacheLag' /\ SeenLag'
<1> SUFFICES ASSUME IInv, Tick PROVE CacheLag' /\ SeenLag'
  OBVIOUS
<1> USE TimesArePositive
<1>1. TypeOK /\ CacheLag /\ SeenLag
  BY DEF IInv
<1>2. \A m \in Method : Open(tenant', m) = Open(tenant, m)
  <2>1. CASE tenant # None /\ tenant.due # None /\ tenant.due # 0
    <3>1. tenant \in Row
      BY <1>1, <2>1 DEF TypeOK
    <3>2. tenant' = [tenant EXCEPT !.due = tenant.due - 1]
      BY <2>1 DEF Tick
    <3>3. tenant.due - 1 \in 0 .. Grace
      BY <2>1, <3>1 DEF Row
    <3>4. tenant' \in Row /\ tenant'.flags = tenant.flags
      BY <3>1, <3>2, <3>3 DEF Row
    <3> QED BY <2>1, <3>4, NoneIsNoRow DEF Open
  <2>2. CASE ~(tenant # None /\ tenant.due # None /\ tenant.due # 0)
    BY <2>2 DEF Tick
  <2> QED BY <2>1, <2>2
<1>3. \A m \in Method : settled'[m] <= settled[m] + 1 /\ settled[m] \in 0 .. Lag
  BY <1>1 DEF Tick, TypeOK, Lag
<1>4. CacheLag'
  <2> SUFFICES ASSUME NEW p \in Process, NEW m \in Method,
                      cache'[p] # None, Allows(cache'[p].flags, m), ~Open(tenant', m)
               PROVE  settled'[m] < cache'[p].age + Timeout
    BY DEF CacheLag, Open, Allows
  <2>1. cache[p] # None /\ cache'[p] = [cache[p] EXCEPT !.age = cache[p].age + 1]
    BY DEF Tick
  <2>2. cache[p] \in [flags: Flags, age: 0 .. Ttl - 1]
    BY <1>1, <2>1 DEF TypeOK
  <2>3. cache'[p].flags = cache[p].flags /\ cache'[p].age = cache[p].age + 1
    BY <2>1, <2>2
  <2>4. settled[m] < cache[p].age + Timeout
    BY <1>1, <1>2, <2>1, <2>3 DEF CacheLag
  <2>5. settled'[m] \in Int /\ settled[m] \in Int
    BY <1>1 DEF Tick, TypeOK, Lag
  <2> QED BY <1>3, <2>2, <2>3, <2>4, <2>5
<1>5. SeenLag'
  <2> SUFFICES ASSUME NEW r \in Request, NEW m \in Method,
                      pc'[r] = "store", Allows(seen'[r], m), ~Open(tenant', m)
               PROVE  settled'[m] <= age'[r]
    BY DEF SeenLag, Open, Allows
  <2>1. /\ pc[r] = "store" /\ seen'[r] = seen[r] /\ age[r] < Timeout
        /\ age'[r] = age[r] + 1 /\ age[r] \in Nat
    BY <1>1 DEF Tick, TypeOK
  <2>2. settled[m] <= age[r]
    BY <1>1, <1>2, <2>1 DEF SeenLag
  <2>3. settled'[m] \in Int /\ settled[m] \in Int
    BY <1>1 DEF Tick, TypeOK, Lag
  <2> QED BY <1>3, <2>1, <2>2, <2>3
<1> QED BY <1>4, <1>5

(* A step that leaves the tenant and the ages alone keeps the bounds when each
   entry and each query's answer was there before, or is as good as one. *)
LEMMA LagFrame ==
    ASSUME CacheLag, SeenLag, UNCHANGED <<tenant, settled>>,
           \A p \in Process : cache'[p] \in {cache[p], None},
           \A r \in Request :
               pc'[r] = "store" => pc[r] = "store" /\ seen'[r] = seen[r] /\ age'[r] = age[r]
    PROVE  CacheLag' /\ SeenLag'
<1>1. CacheLag'
  BY DEF CacheLag, Open, Allows
<1>2. SeenLag'
  BY DEF SeenLag, Open, Allows
<1> QED BY <1>1, <1>2

LEMMA StoreLag ==
    ASSUME TypeOK, CacheLag, SeenLag, NEW r \in Request, Store(r)
    PROVE  CacheLag' /\ SeenLag'
<1> USE TimesArePositive, RequestsHaveHomes
<1>1. CacheLag'
  <2> SUFFICES ASSUME NEW p \in Process, NEW m \in Method,
                      cache'[p] # None, Allows(cache'[p].flags, m), ~Open(tenant, m)
               PROVE  settled[m] < cache'[p].age + Timeout
    BY DEF CacheLag, Store, Open, Allows
  <2>1. CASE p = Home[r]
    <3>1. cache'[p] = [flags |-> seen[r], age |-> 0]
      BY <2>1 DEF Store, TypeOK
    <3>2. settled[m] <= age[r]
      BY <3>1 DEF SeenLag, Store
    <3>3. age[r] \in Nat /\ age[r] < Timeout /\ settled[m] \in Nat
      BY DEF TypeOK, Store, Lag
    <3> QED BY <3>1, <3>2, <3>3
  <2>2. CASE p # Home[r]
    BY <2>2 DEF Store, CacheLag, TypeOK
  <2> QED BY <2>1, <2>2
<1>2. \A q \in Request :
          pc'[q] = "store" => pc[q] = "store" /\ seen'[q] = seen[q] /\ age'[q] = age[q]
  BY DEF Store, Decide, Finish, Goto, TypeOK, Method
<1>3. UNCHANGED <<tenant, settled>>
  BY DEF Store
<1>4. SeenLag'
  BY <1>2, <1>3 DEF SeenLag, Open, Allows
<1> QED BY <1>1, <1>4

LEMMA QueryLag ==
    ASSUME TypeOK, CacheLag, SeenLag, NEW r \in Request, Query(r)
    PROVE  CacheLag' /\ SeenLag'
<1>1. CacheLag'
  BY DEF CacheLag, Query, Open, Allows
<1>2. SeenLag'
  <2> SUFFICES ASSUME NEW q \in Request, NEW m \in Method,
                      pc'[q] = "store", Allows(seen'[q], m), ~Open(tenant, m)
               PROVE  settled[m] <= age'[q]
    BY DEF SeenLag, Query, Open, Allows
  <2>1. q # r
    BY DEF Query, Open, Finish, Goto, TypeOK
  <2>2. pc[q] = "store" /\ seen'[q] = seen[q] /\ age'[q] = age[q]
    BY <2>1 DEF Query, Finish, Goto, TypeOK
  <2> QED BY <2>2 DEF SeenLag
<1> QED BY <1>1, <1>2

-----------------------------------------------------------------------------
LEMMA InductiveStep == IInv /\ [Next]_vars => IInv'
<1> SUFFICES ASSUME IInv, [Next]_vars PROVE IInv'
  OBVIOUS
<1> USE TimesArePositive, RequestsHaveHomes
<1>0. /\ TypeOK /\ CacheLag /\ SeenLag
      /\ TenantTyped /\ CacheTyped /\ RequestsTyped /\ AdminsTyped
  BY TypeParts DEF IInv
<1> DEFINE Same == UNCHANGED <<tenant, settled>>
           Emptied == \A p \in Process : cache'[p] \in {cache[p], None}
           Kept == \A r \in Request :
               pc'[r] = "store" => pc[r] = "store" /\ seen'[r] = seen[r] /\ age'[r] = age[r]
<1>1. ASSUME TenantTyped', CacheTyped', RequestsTyped', AdminsTyped' PROVE TypeOK'
  BY <1>1 DEF TypeOK, TenantTyped, CacheTyped, RequestsTyped, AdminsTyped
<1>2. ASSUME TypeOK', Same, Emptied, Kept PROVE IInv'
  BY <1>0, <1>2, LagFrame DEF IInv
<1>3. CASE Tick
  BY <1>0, <1>3, TickTyped, TickLag DEF IInv
<1>4. CASE Sweep
  <2>1. TenantTyped'
    BY <1>0, <1>4, WriteTyped DEF Sweep, TenantTyped
  <2>2. CacheTyped' /\ RequestsTyped' /\ AdminsTyped'
    BY <1>0, <1>4 DEF Sweep, CacheTyped, RequestsTyped, AdminsTyped, requests, admins
  <2>3. CacheLag' /\ SeenLag'
    BY <1>0, <1>4, WriteLag DEF Sweep
  <2> QED BY <1>1, <2>1, <2>2, <2>3 DEF IInv
<1>5. ASSUME NEW s \in Session, SelectTenant(s) \/ Leave(s) PROVE IInv'
  <2>1. TenantTyped'
    BY <1>0, <1>5 DEF SelectTenant, Leave, TenantTyped
  <2>2. CacheTyped' /\ RequestsTyped' /\ AdminsTyped'
    BY <1>0, <1>5 DEF SelectTenant, Leave, CacheTyped, RequestsTyped, AdminsTyped, requests, admins
  <2>3. Same /\ Emptied /\ Kept
    BY <1>5 DEF SelectTenant, Leave, requests
  <2> QED BY <1>1, <1>2, <2>1, <2>2, <2>3
<1>6. ASSUME NEW r \in Request, Arrive(r) PROVE IInv'
  <2>1. TenantTyped' /\ CacheTyped' /\ AdminsTyped'
    BY <1>0, <1>6 DEF Arrive, TenantTyped, CacheTyped, AdminsTyped, admins
  <2>2. RequestsTyped'
    BY <1>0, <1>6 DEF Arrive, Goto, RequestsTyped
  <2>3. Same /\ Emptied /\ Kept
    BY <1>0, <1>6 DEF Arrive, Goto, RequestsTyped
  <2> QED BY <1>1, <1>2, <2>1, <2>2, <2>3
<1>7. ASSUME NEW r \in Request, GetCached(r) PROVE IInv'
  <2>1. TenantTyped' /\ CacheTyped' /\ AdminsTyped'
    BY <1>0, <1>7 DEF GetCached, TenantTyped, CacheTyped, AdminsTyped, admins
  <2>2. RequestsTyped'
    BY <1>0, <1>7, DecideTyped DEF GetCached
  <2>3. Same /\ Emptied /\ Kept
    BY <1>0, <1>7 DEF GetCached, Decide, Finish, Goto, RequestsTyped, Method
  <2> QED BY <1>1, <1>2, <2>1, <2>2, <2>3
<1>8. ASSUME NEW r \in Request, GetMissed(r) PROVE IInv'
  <2>1. TenantTyped' /\ CacheTyped' /\ AdminsTyped'
    BY <1>0, <1>8 DEF GetMissed, TenantTyped, CacheTyped, AdminsTyped, admins
  <2>2. RequestsTyped' /\ Kept
    <3>1. CASE Finish(r, "idle")
      BY <1>0, <3>1, FinishTyped DEF Finish, Goto, RequestsTyped
    <3>2. CASE age[r] < Timeout /\ Goto(r, "query") /\ UNCHANGED <<age, seen>>
      BY <1>0, <3>2 DEF Goto, RequestsTyped
    <3> QED BY <1>8, <3>1, <3>2 DEF GetMissed
  <2>3. Same /\ Emptied
    BY <1>8 DEF GetMissed
  <2> QED BY <1>1, <1>2, <2>1, <2>2, <2>3
<1>9. ASSUME NEW r \in Request, Query(r) PROVE IInv'
  <2>1. TenantTyped' /\ CacheTyped' /\ AdminsTyped'
    BY <1>0, <1>9 DEF Query, TenantTyped, CacheTyped, AdminsTyped, admins
  <2>2. RequestsTyped'
    <3>1. CASE tenant = None
      BY <1>0, <1>9, <3>1, FinishTyped DEF Query
    <3>2. CASE tenant # None
      <4>1. tenant.flags \in Flags
        BY <1>0, <3>2 DEF TenantTyped, Row
      <4> QED BY <1>0, <1>9, <3>2, <4>1 DEF Query, Goto, RequestsTyped
    <3> QED BY <3>1, <3>2
  <2>3. CacheLag' /\ SeenLag'
    BY <1>0, <1>9, QueryLag
  <2> QED BY <1>1, <2>1, <2>2, <2>3 DEF IInv
<1>10. ASSUME NEW r \in Request, Store(r) PROVE IInv'
  <2>1. TenantTyped' /\ AdminsTyped'
    BY <1>0, <1>10 DEF Store, TenantTyped, AdminsTyped, admins
  <2>2. CacheTyped'
    <3>1. [flags |-> seen[r], age |-> 0] \in [flags: Flags, age: 0 .. Ttl - 1]
      BY <1>0, <1>10 DEF Store, RequestsTyped
    <3> QED BY <1>0, <1>10, <3>1 DEF Store, CacheTyped
  <2>3. RequestsTyped'
    BY <1>0, <1>10, DecideTyped DEF Store
  <2>4. CacheLag' /\ SeenLag'
    BY <1>0, <1>10, StoreLag
  <2> QED BY <1>1, <2>1, <2>2, <2>3, <2>4 DEF IInv
<1>11. ASSUME NEW r \in Request, Return(r) PROVE IInv'
  <2>1. TenantTyped' /\ CacheTyped' /\ AdminsTyped'
    BY <1>0, <1>11 DEF Return, TenantTyped, CacheTyped, AdminsTyped, admins
  <2>2. RequestsTyped' /\ Kept
    BY <1>0, <1>11 DEF Return, Goto, RequestsTyped
  <2>3. Same /\ Emptied
    BY <1>11 DEF Return
  <2> QED BY <1>1, <1>2, <2>1, <2>2, <2>3
<1>12. ASSUME NEW a \in Admin, NEW p \in Process, NEW op \in Op, Update(a, p, op) PROVE IInv'
  <2>1. Apply(op, tenant) \in Row
    BY <1>0, <1>12, ApplyTyped DEF Update, TenantTyped
  <2>2. TenantTyped'
    <3>1. Write(Apply(op, tenant))
      BY <1>12 DEF Update
    <3>2. tenant' \in Row \cup {None} /\ settled' \in [Method -> 0 .. Lag]
      BY <1>0, <2>1, <3>1, WriteTyped
    <3>3. tenant' # None
      BY <2>1, <3>1, NoneIsNoRow DEF Write
    <3> QED BY <1>0, <1>12, <3>2, <3>3 DEF Update, TenantTyped
  <2>3. CacheTyped' /\ RequestsTyped'
    BY <1>0, <1>12 DEF Update, CacheTyped, RequestsTyped, requests
  <2>4. AdminsTyped'
    <3>1. [process |-> p, closes |-> Suspends(op)] \in Job
      BY DEF Job, Suspends, Op, Flags
    <3> QED BY <1>0, <1>12, <3>1 DEF Update, AdminsTyped
  <2>5. CacheLag' /\ SeenLag'
    BY <1>0, <1>12, WriteLag DEF Update
  <2> QED BY <1>1, <2>2, <2>3, <2>4, <2>5 DEF IInv
<1>13. ASSUME NEW a \in Admin,
              InvalidateLocal(a) \/ Publish(a) \/ Revoke(a) \/ RevokeFails(a)
       PROVE IInv'
  <2>1. TenantTyped' /\ RequestsTyped'
    BY <1>0, <1>13
    DEF InvalidateLocal, Publish, Revoke, RevokeFails, TenantTyped, RequestsTyped, requests
  <2>2. CacheTyped' /\ Emptied
    BY <1>0, <1>13 DEF InvalidateLocal, Publish, Revoke, RevokeFails, CacheTyped
  <2>3. AdminsTyped'
    BY <1>0, <1>13, StepTyped DEF InvalidateLocal, Publish, Revoke, RevokeFails
  <2>4. Same /\ Kept
    BY <1>13 DEF InvalidateLocal, Publish, Revoke, RevokeFails, requests
  <2> QED BY <1>1, <1>2, <2>1, <2>2, <2>3, <2>4
<1>14. ASSUME NEW p \in Process, Deliver(p) \/ Lose(p) PROVE IInv'
  <2>1. TenantTyped' /\ RequestsTyped' /\ AdminsTyped'
    BY <1>0, <1>14 DEF Deliver, Lose, TenantTyped, RequestsTyped, AdminsTyped, requests, admins
  <2>2. CacheTyped' /\ Emptied
    BY <1>0, <1>14 DEF Deliver, Lose, CacheTyped
  <2>3. Same /\ Kept
    BY <1>14 DEF Deliver, Lose, requests
  <2> QED BY <1>1, <1>2, <2>1, <2>2, <2>3
<1>15. ASSUME NEW p \in Process, Restart(p) PROVE IInv'
  <2>1. TenantTyped'
    BY <1>0, <1>15 DEF Restart, TenantTyped
  <2>2. CacheTyped' /\ Emptied
    BY <1>0, <1>15 DEF Restart, CacheTyped
  <2>3. RequestsTyped' /\ Kept
    BY <1>0, <1>15 DEF Restart, RequestsTyped
  <2>4. AdminsTyped'
    BY <1>0, <1>15 DEF Restart, AdminsTyped
  <2>5. Same
    BY <1>15 DEF Restart
  <2> QED BY <1>1, <1>2, <2>1, <2>2, <2>3, <2>4, <2>5
<1>16. CASE UNCHANGED vars
  BY <1>0, <1>16
  DEF vars, requests, admins, IInv, TypeOK, CacheLag, SeenLag, Open, Allows
<1> QED
  BY <1>3, <1>4, <1>5, <1>6, <1>7, <1>8, <1>9, <1>10, <1>11, <1>12, <1>13, <1>14, <1>15, <1>16
  DEF Next

(* What decides is an entry that has not expired or a query in time. *)
LEMMA LagStep ==
    ASSUME IInv, [Next]_vars, NEW r \in Request, NEW m \in Method,
           pc[r] # m, pc'[r] = m, settled[m] = Lag
    PROVE  Open(tenant, m)
<1> USE TimesArePositive, RequestsHaveHomes
<1>1. TypeOK /\ CacheLag /\ SeenLag
  BY DEF IInv
<1>2. GetCached(r) \/ Store(r)
  <2>1. pc'[r] \in Method /\ pc'[r] # pc[r]
    OBVIOUS
  <2>2. ~UNCHANGED pc
    BY <2>1
  <2>3. ~(Tick \/ Sweep) /\ ~(\E p \in Process : Restart(p))
    BY <1>1, <2>1 DEF Tick, Sweep, Restart, requests, TypeOK, Method
  <2>4. ~(\E s \in Session : SelectTenant(s) \/ Leave(s))
    BY <2>2 DEF SelectTenant, Leave, requests
  <2>5. ~(\E p \in Process : Deliver(p) \/ Lose(p))
    BY <2>2 DEF Deliver, Lose, requests
  <2>6. ~(\E a \in Admin : \/ \E p \in Process, op \in Op : Update(a, p, op)
                           \/ InvalidateLocal(a) \/ Publish(a) \/ Revoke(a) \/ RevokeFails(a))
    BY <2>2 DEF Update, InvalidateLocal, Publish, Revoke, RevokeFails, requests
  <2>7. \A q \in Request : ~(Arrive(q) \/ GetMissed(q) \/ Query(q) \/ Return(q))
    BY <1>1, <2>1 DEF Arrive, GetMissed, Query, Return, Finish, Goto, TypeOK, Method
  <2>8. \A q \in Request : GetCached(q) \/ Store(q) => q = r
    BY <1>1, <2>1 DEF GetCached, Store, Decide, Finish, Goto, TypeOK, Method
  <2> QED
    BY <2>2, <2>3, <2>4, <2>5, <2>6, <2>7, <2>8 DEF Next, vars, requests
<1>3. CASE GetCached(r)
  <2>1. cache[Home[r]].age \in 0 .. Ttl - 1
    BY <1>1, <1>3 DEF GetCached, TypeOK
  <2>2. Allows(cache[Home[r]].flags, m)
    BY <1>1, <1>3 DEF GetCached, Decide, Finish, Goto, TypeOK, Method
  <2> QED BY <1>1, <1>3, <2>1, <2>2 DEF GetCached, CacheLag, Lag
<1>4. CASE Store(r)
  <2>1. age[r] \in Nat /\ age[r] < Timeout
    BY <1>1, <1>4 DEF Store, TypeOK
  <2>2. Allows(seen[r], m)
    BY <1>1, <1>4 DEF Store, Decide, Finish, Goto, TypeOK, Method
  <2> QED BY <1>1, <1>4, <2>1, <2>2 DEF Store, SeenLag, Lag
<1> QED BY <1>2, <1>3, <1>4

-----------------------------------------------------------------------------
THEOREM Invariant == Spec => []IInv
BY InitOK, InductiveStep, PTL DEF Spec

(* Every reachable state of the tenant, the caches and the requests is typed. *)
THEOREM TenantTypeCorrect == Spec => []TypeOK
<1>1. IInv => TypeOK
  BY DEF IInv
<1> QED BY Invariant, <1>1, PTL

(* No request is let through by what the tenant stopped allowing longer ago
   than an entry lives and a request lasts (RequireTenant, tenantstate.Get). *)
THEOREM LagAlwaysBounded == Spec => LagBounded
<1>1. IInv /\ [Next]_vars =>
        [\A r \in Request, m \in Method :
          pc[r] # m /\ pc'[r] = m /\ settled[m] = Lag => Open(tenant, m)]_vars
  BY LagStep
<1> QED BY Invariant, <1>1, PTL DEF Spec, LagBounded

-----------------------------------------------------------------------------
\* Only a platform admin's call writes the flags of a row that stays, and only
\* Update schedules a deletion; the sweep removes the row and time only counts.
LEMMA RowSteps ==
    ASSUME [Next]_vars
    PROVE  \/ tenant' = tenant \/ tenant' = None
           \/ Tick
           \/ \E a \in Admin, p \in Process, op \in Op : Update(a, p, op)
<1>1. CASE Sweep
  BY <1>1 DEF Sweep, Write
<1>2. ASSUME NEW s \in Session, SelectTenant(s) \/ Leave(s) PROVE tenant' = tenant
  BY <1>2 DEF SelectTenant, Leave
<1>3. ASSUME NEW r \in Request,
             Arrive(r) \/ GetCached(r) \/ GetMissed(r) \/ Query(r) \/ Store(r) \/ Return(r)
      PROVE  tenant' = tenant
  BY <1>3 DEF Arrive, GetCached, GetMissed, Query, Store, Return
<1>4. ASSUME NEW a \in Admin,
             InvalidateLocal(a) \/ Publish(a) \/ Revoke(a) \/ RevokeFails(a)
      PROVE  tenant' = tenant
  BY <1>4 DEF InvalidateLocal, Publish, Revoke, RevokeFails
<1>5. ASSUME NEW p \in Process, Deliver(p) \/ Lose(p) \/ Restart(p) PROVE tenant' = tenant
  BY <1>5 DEF Deliver, Lose, Restart
<1>6. CASE UNCHANGED vars
  BY <1>6 DEF vars
<1> QED BY <1>1, <1>2, <1>3, <1>4, <1>5, <1>6 DEF Next

(* The deletion's promise, "closed as if suspended" (admin.go:222), is broken
   in one way only: SetTenantState lifts the suspension and leaves the deletion
   as it is. *)
THEOREM ReopenedBySetState ==
    Spec => [][ScheduledIsClosed /\ ~ScheduledIsClosed' =>
                  \E a \in Admin, p \in Process, op \in Op :
                      op.kind = "state" /\ ~op.to.suspended /\ Update(a, p, op)]_vars
<1> DEFINE Reopened == \E a \in Admin, p \in Process, op \in Op :
                           op.kind = "state" /\ ~op.to.suspended /\ Update(a, p, op)
<1>1. ASSUME TypeOK, [Next]_vars, ScheduledIsClosed, ~ScheduledIsClosed'
      PROVE  Reopened
  <2>1. tenant' # tenant /\ tenant' # None
    BY <1>1 DEF ScheduledIsClosed
  <2>2. ~Tick
    <3> SUFFICES ASSUME Tick PROVE FALSE
      OBVIOUS
    <3>1. tenant # None /\ tenant.due # None /\ tenant.due # 0 /\ tenant \in Row
      BY <1>1, <2>1 DEF Tick, TypeOK
    <3>2. tenant' = [tenant EXCEPT !.due = tenant.due - 1]
      BY <3>1 DEF Tick
    <3>3. tenant'.flags = tenant.flags
      BY <3>1, <3>2 DEF Row
    <3> QED BY <1>1, <3>1, <3>3 DEF ScheduledIsClosed
  <2>3. PICK a \in Admin, p \in Process, op \in Op : Update(a, p, op)
    BY <1>1, <2>1, <2>2, RowSteps
  <2>4. tenant \in Row /\ tenant' = Apply(op, tenant)
    BY <1>1, <2>3 DEF Update, Write, TypeOK
  <2>5. op.kind \in {"state", "schedule", "cancel"}
    BY DEF Op
  <2>6. op.kind # "schedule"
    <3> SUFFICES ASSUME op.kind = "schedule" PROVE FALSE
      OBVIOUS
    <3>1. tenant' = [tenant EXCEPT !.flags.suspended = TRUE, !.due = Grace]
      BY <2>4 DEF Apply
    <3>2. tenant'.flags.suspended
      BY <2>4, <3>1 DEF Row, Flags
    <3> QED BY <1>1, <3>2 DEF ScheduledIsClosed
  <2>7. op.kind # "cancel"
    <3> SUFFICES ASSUME op.kind = "cancel" PROVE FALSE
      OBVIOUS
    <3>1. tenant' = [tenant EXCEPT !.flags.suspended = FALSE, !.due = None]
      BY <2>4 DEF Apply
    <3>2. tenant'.due = None
      BY <2>4, <3>1 DEF Row
    <3> QED BY <1>1, <3>2 DEF ScheduledIsClosed
  <2>8. op.kind = "state"
    BY <2>5, <2>6, <2>7
  <2>9. tenant' = [tenant EXCEPT !.flags = op.to] /\ op.to \in Flags
    BY <2>4, <2>8 DEF Apply, Op
  <2>10. tenant'.flags = op.to
    BY <2>4, <2>9 DEF Row
  <2>11. ~op.to.suspended
    BY <1>1, <2>10 DEF ScheduledIsClosed
  <2> QED BY <2>3, <2>8, <2>11
<1>2. IInv /\ [Next]_vars => [ScheduledIsClosed /\ ~ScheduledIsClosed' => Reopened]_vars
  BY <1>1 DEF IInv
<1> QED BY Invariant, <1>2, PTL DEF Spec
=============================================================================
