--------------------------- MODULE AppStore_proofs ---------------------------
(***************************************************************************)
(* What Sync and Install promise, for any number of processes, tenants,    *)
(* apps, permissions and releases.                                         *)
(***************************************************************************)
EXTENDS AppStore, TLAPS

TablesTyped ==
    /\ known \subseteq Perm
    /\ tenants \subseteq Tenant
    /\ inst \in [Tenant -> [App -> Installation \cup {None}]]
    /\ admin \in [Tenant -> SUBSET Perm]
    /\ manager \in [Tenant -> [Perm -> Scope]]

SyncTyped ==
    /\ rel \in [Process -> Release \cup {None}]
    /\ pc \in [Process -> {"down", "next", "select", "grant", "serving"}]
    /\ done \in [Process -> SUBSET (Perm \cup App)]
    /\ adding \in [Process -> Perm \cup {None}]
    /\ found \in [Process -> SUBSET Tenant]
    /\ \A q \in Process :
        /\ pc[q] # "down" => rel[q] \in Release
        /\ pc[q] \in {"select", "grant"} => adding[q] \in Perm \ known
    /\ \A q, x \in Process : adding[q] = adding[x] => q = x \/ adding[q] = None

GhostsTyped ==
    /\ newest \in 0 .. MaxRelease
    /\ steady \subseteq Tenant \X (App \cup {Core})
    /\ hand \in [Tenant -> [Perm -> Scope \cup {None}]]

LEMMA TypeParts == TypeOK <=> TablesTyped /\ SyncTyped /\ GhostsTyped
BY DEF TypeOK, TablesTyped, SyncTyped, GhostsTyped

LEMMA TypePartsNext == TablesTyped' /\ SyncTyped' /\ GhostsTyped' => TypeOK'
BY DEF TypeOK, TablesTyped, SyncTyped, GhostsTyped

(* No process runs a release that has not started, and what its Sync is done
   with, or inserting, is part of that release. *)
Progress ==
    \A q \in Process :
        /\ pc[q] # "down" => rel[q] <= newest
        /\ done[q] \cap Perm \subseteq known
        /\ pc[q] \in {"select", "grant"} => Since[adding[q]] <= rel[q]
        /\ pc[q] = "serving" => \A p \in Perm : Since[p] <= rel[q] => p \in known

KnownIsOld == \A p \in known : Since[p] <= newest

(* What is steady is enabled, and a Sync that inserts a permission of it has
   found its tenant. *)
SteadyIsFound ==
    /\ \A s \in steady : Enabled(s[1], s[2])
    /\ \A q \in Process : pc[q] = "grant" =>
           \A t \in Tenant : <<t, Owner[adding[q]]>> \in steady => t \in found[q]

HandIsKnown ==
    \A t \in Tenant, p \in Perm : hand[t][p] # None => t \in tenants /\ p \in known

IInv ==
    /\ TypeOK /\ Progress /\ KnownIsOld /\ SteadyIsFound /\ HandIsKnown
    /\ SteadyIsGranted /\ HandEditsKept /\ VersionIsKnown

-----------------------------------------------------------------------------
LEMMA WidenedTyped ==
    ASSUME NEW x \in Scope, NEW y \in Scope
    PROVE  Widened(x, y) \in Scope /\ Widened(Widened(x, y), y) = Widened(x, y)
BY DEF Widened, Scope

LEMMA GrantTyped ==
    ASSUME TablesTyped, NEW T, NEW P \in SUBSET Perm, GrantOnInstall(T, P)
    PROVE  /\ admin' \in [Tenant -> SUBSET Perm]
           /\ manager' \in [Tenant -> [Perm -> Scope]]
BY WidenedTyped, DefaultsAreScopes DEF TablesTyped, GrantOnInstall

LEMMA InitOK == Init => IInv
BY ReleasesAreNumbers, DefaultsAreScopes
DEF Init, IInv, TypeOK, Progress, KnownIsOld, SteadyIsFound, HandIsKnown, SteadyIsGranted,
    HandEditsKept, VersionIsKnown, Scope, Enabled

-----------------------------------------------------------------------------
(* Type correctness, by the actions that touch each part. *)

LEMMA SyncSteps ==
    ASSUME TypeOK, NEW q \in Process, Boot(q)
    PROVE  SyncTyped'
<1> USE TypeParts DEF SyncTyped
<1>1. ASSUME NEW n \in Release, Start(q, n) PROVE SyncTyped'
  BY <1>1 DEF Start, database
<1>2. ASSUME NEW p \in Perm, SyncInsert(q, p) PROVE SyncTyped'
  BY <1>2, NoneIsNoPerm DEF SyncInsert, database
<1>3. CASE SyncSelect(q)
  BY <1>3 DEF SyncSelect, database, TablesTyped
<1>4. CASE SyncCommit(q)
  BY <1>4, NoneIsNoPerm DEF SyncCommit
<1>5. ASSUME NEW a \in App, SyncUpgrade(q, a) PROVE SyncTyped'
  BY <1>5 DEF SyncUpgrade
<1>6. CASE Serve(q)
  BY <1>6 DEF Serve, database
<1>7. CASE Stop(q)
  BY <1>7 DEF Stop, database
<1> QED BY <1>1, <1>2, <1>3, <1>4, <1>5, <1>6, <1>7 DEF Boot

LEMMA TableSteps ==
    ASSUME TypeOK, NEW q \in Process, Boot(q)
    PROVE  TablesTyped' /\ GhostsTyped'
<1> USE TypeParts DEF TablesTyped, GhostsTyped
<1>1. ASSUME NEW n \in Release, Start(q, n) PROVE TablesTyped' /\ GhostsTyped'
  BY <1>1, ReleasesAreNumbers DEF Start, database, Release
<1>2. ASSUME NEW p \in Perm, SyncInsert(q, p) PROVE TablesTyped' /\ GhostsTyped'
  BY <1>2 DEF SyncInsert, database, ghosts
<1>3. CASE SyncSelect(q)
  BY <1>3 DEF SyncSelect, database, ghosts
<1>4. CASE SyncCommit(q)
  <2>1. adding[q] \in Perm
    BY <1>4 DEF SyncCommit, SyncTyped
  <2>2. GrantOnInstall(found[q], {adding[q]})
    BY <1>4 DEF SyncCommit
  <2>3. admin' \in [Tenant -> SUBSET Perm] /\ manager' \in [Tenant -> [Perm -> Scope]]
    BY <2>1, <2>2, GrantTyped
  <2> QED
    BY <1>4, <2>1, <2>3 DEF SyncCommit, ghosts
<1>5. ASSUME NEW a \in App, SyncUpgrade(q, a) PROVE TablesTyped' /\ GhostsTyped'
  <2>1. rel[q] \in Release
    BY <1>5 DEF SyncUpgrade, SyncTyped
  <2>2. Upgraded(a, rel[q]) \in [Tenant -> [App -> Installation \cup {None}]]
    BY <2>1, <1>5 DEF Upgraded, Installation
  <2> QED
    BY <1>5, <2>2 DEF SyncUpgrade, ghosts
<1>6. CASE Serve(q)
  BY <1>6 DEF Serve, database, ghosts
<1>7. CASE Stop(q)
  BY <1>7 DEF Stop, database, ghosts
<1> QED BY <1>1, <1>2, <1>3, <1>4, <1>5, <1>6, <1>7 DEF Boot

LEMMA RequestSteps ==
    ASSUME TypeOK, Request
    PROVE  TypeOK'
<1> USE TypeParts, TypePartsNext DEF TablesTyped, GhostsTyped
<1> PICK t \in Tenant :
        \/ \E q \in Process : CreateTenant(q, t) \/ \E a \in App : Install(q, t, a)
        \/ \E a \in App, s \in {"enabled", "disabled"} : SetStatus(t, a, s)
        \/ \E p \in Perm, s \in Scope : SetGrant(t, p, s)
  BY DEF Request
<1>1. ASSUME NEW q \in Process, CreateTenant(q, t) PROVE TypeOK'
  <2>1. GrantOnInstall({t}, PermsOf(Core, rel[q])) /\ PermsOf(Core, rel[q]) \in SUBSET Perm
    BY <1>1 DEF CreateTenant, PermsOf
  <2>2. admin' \in [Tenant -> SUBSET Perm] /\ manager' \in [Tenant -> [Perm -> Scope]]
    BY <2>1, GrantTyped
  <2>3. SyncTyped'
    BY <1>1 DEF CreateTenant, SyncTyped, sync
  <2> QED
    BY <1>1, <2>2, <2>3 DEF CreateTenant, SteadyNow
<1>2. ASSUME NEW q \in Process, NEW a \in App, Install(q, t, a) PROVE TypeOK'
  <2> DEFINE granted == UNION {PermsOf(b, rel[q]) : b \in Order[a]}
  <2>1. GrantOnInstall({t}, granted) /\ granted \in SUBSET Perm
    BY <1>2 DEF Install, PermsOf
  <2>2. admin' \in [Tenant -> SUBSET Perm] /\ manager' \in [Tenant -> [Perm -> Scope]]
    BY <2>1, GrantTyped
  <2>3. SyncTyped'
    BY <1>2 DEF Install, SyncTyped, sync
  <2>4. rel[q] \in Release
    BY <1>2 DEF Install, SyncTyped
  <2>5. inst' \in [Tenant -> [App -> Installation \cup {None}]]
    BY <1>2, <2>4 DEF Install, Installation
  <2>6. hand' \in [Tenant -> [Perm -> Scope \cup {None}]]
    BY <1>2 DEF Install
  <2>7. steady' \subseteq Tenant \X (App \cup {Core})
    BY <1>2, OrderEndsWithApp DEF Install, SteadyNow
  <2>8. UNCHANGED <<known, tenants, newest>>
    BY <1>2 DEF Install
  <2> QED
    BY <2>2, <2>3, <2>5, <2>6, <2>7, <2>8
<1>3. ASSUME NEW a \in App, NEW s \in {"enabled", "disabled"}, SetStatus(t, a, s) PROVE TypeOK'
  <2>1. SyncTyped'
    BY <1>3 DEF SetStatus, SyncTyped, sync
  <2> QED
    BY <1>3, <2>1 DEF SetStatus, Installation
<1>4. ASSUME NEW p \in Perm, NEW s \in Scope, SetGrant(t, p, s) PROVE TypeOK'
  <2>1. SyncTyped'
    BY <1>4 DEF SetGrant, SyncTyped, sync
  <2> QED
    BY <1>4, <2>1 DEF SetGrant
<1> QED BY <1>1, <1>2, <1>3, <1>4

LEMMA TypeStep == TypeOK /\ [Next]_vars => TypeOK'
<1>1. ASSUME TypeOK, NEW q \in Process, Boot(q) PROVE TypeOK'
  BY <1>1, SyncSteps, TableSteps, TypePartsNext
<1>2. ASSUME TypeOK, UNCHANGED vars PROVE TypeOK'
  BY <1>2 DEF TypeOK, vars, database, sync, ghosts
<1> QED BY <1>1, <1>2, RequestSteps DEF Next

-----------------------------------------------------------------------------
(* The steps of a Sync. *)

Rest == Progress /\ KnownIsOld /\ SteadyIsFound /\ HandIsKnown /\ SteadyIsGranted
            /\ HandEditsKept /\ VersionIsKnown

LEMMA StartStep ==
    ASSUME IInv, NEW q \in Process, NEW n \in Release, Start(q, n)
    PROVE  Rest'
<1> USE DEF IInv, Start, database
<1>1. newest' \in Int /\ newest \in Int /\ newest <= newest' /\ n <= newest' /\ n \in Int
  BY ReleasesAreNumbers DEF TypeOK, Release
<1>2. Progress'
  BY <1>1 DEF Progress, TypeOK, Release
<1>3. KnownIsOld'
  BY <1>1, SinceReleases DEF KnownIsOld, TypeOK, Release
<1>4. SteadyIsFound' /\ HandIsKnown'
  BY DEF SteadyIsFound, HandIsKnown, Enabled, TypeOK
<1>5. SteadyIsGranted' /\ HandEditsKept' /\ VersionIsKnown'
  BY DEF SteadyIsGranted, HandEditsKept, VersionIsKnown, PermsOf
<1> QED BY <1>2, <1>3, <1>4, <1>5 DEF Rest

LEMMA SyncInsertStep ==
    ASSUME IInv, NEW q \in Process, NEW p \in Perm, SyncInsert(q, p)
    PROVE  Rest'
<1> USE DEF IInv, SyncInsert, database, ghosts
<1>1. Progress'
  BY DEF Progress, TypeOK, IsNext, Pending
<1>2. SteadyIsFound' /\ HandIsKnown'
  BY DEF SteadyIsFound, HandIsKnown, Enabled, TypeOK
<1>3. KnownIsOld' /\ SteadyIsGranted' /\ HandEditsKept' /\ VersionIsKnown'
  BY DEF KnownIsOld, SteadyIsGranted, HandEditsKept, VersionIsKnown, PermsOf
<1> QED BY <1>1, <1>2, <1>3 DEF Rest

LEMMA SyncSelectStep ==
    ASSUME IInv, NEW q \in Process, SyncSelect(q)
    PROVE  Rest'
<1> USE DEF IInv, SyncSelect, database, ghosts
<1>1. Progress'
  BY DEF Progress, TypeOK
<1>2. SteadyIsFound' /\ HandIsKnown'
  BY DEF SteadyIsFound, HandIsKnown, Enabled, TypeOK
<1>3. KnownIsOld' /\ SteadyIsGranted' /\ HandEditsKept' /\ VersionIsKnown'
  BY DEF KnownIsOld, SteadyIsGranted, HandEditsKept, VersionIsKnown, PermsOf
<1> QED BY <1>1, <1>2, <1>3 DEF Rest

LEMMA SyncCommitStep ==
    ASSUME IInv, NEW q \in Process, SyncCommit(q)
    PROVE  Rest'
<1> USE DEF IInv, SyncCommit, ghosts
<1> DEFINE p == adding[q]
<1>1. p \in Perm \ known /\ Since[p] <= rel[q] /\ rel[q] <= newest
  BY DEF TypeOK, Progress
<1>2. Since[p] <= newest
  BY <1>1, SinceReleases DEF TypeOK, Release
<1>3. /\ known' = known \cup {p}
      /\ \A t \in Tenant : admin[t] \subseteq admin'[t]
      /\ \A t \in found[q] : p \in admin'[t]
      /\ \A t \in Tenant, x \in Perm : x # p => manager'[t][x] = manager[t][x]
      /\ \A t \in found[q] : manager'[t][p] = Widened(manager[t][p], Default[p])
  BY <1>1 DEF GrantOnInstall, TypeOK
<1>4. Progress'
  BY <1>1 DEF Progress, TypeOK
<1>5. KnownIsOld'
  BY <1>2, <1>3 DEF KnownIsOld
<1>6. SteadyIsFound' /\ HandIsKnown'
  BY DEF SteadyIsFound, HandIsKnown, Enabled, TypeOK
<1>7. HandEditsKept'
  BY <1>1, <1>3 DEF HandEditsKept, HandIsKnown
<1>8. VersionIsKnown'
  BY <1>3 DEF VersionIsKnown
<1>9. SteadyIsGranted'
  <2> SUFFICES ASSUME NEW s \in steady, NEW x \in known', Owner[x] = s[2]
               PROVE  /\ x \in admin'[s[1]]
                      /\ hand[s[1]][x] = None =>
                            Widened(manager'[s[1]][x], Default[x]) = manager'[s[1]][x]
    BY DEF SteadyIsGranted
  <2>1. s[1] \in Tenant /\ s = <<s[1], s[2]>>
    BY DEF TypeOK
  <2>2. CASE x = p
    <3>1. s[1] \in found[q]
      BY <2>1, <2>2 DEF SteadyIsFound
    <3>2. manager[s[1]][x] \in Scope /\ Default[x] \in Scope
      BY <1>1, <2>1, <2>2, DefaultsAreScopes DEF TypeOK
    <3>3. Widened(Widened(manager[s[1]][x], Default[x]), Default[x])
              = Widened(manager[s[1]][x], Default[x])
      BY <3>2, WidenedTyped
    <3>4. manager'[s[1]][x] = Widened(manager[s[1]][x], Default[x])
      BY <1>3, <2>2, <3>1
    <3>5. x \in admin'[s[1]]
      BY <1>3, <2>2, <3>1
    <3>6. Widened(manager'[s[1]][x], Default[x]) = manager'[s[1]][x]
      BY <3>3, <3>4
    <3> QED
      BY <3>5, <3>6
  <2>3. CASE x # p
    <3>1. x \in known /\ x \in Perm
      BY <1>3, <2>3 DEF TypeOK
    <3>2. /\ x \in admin[s[1]]
          /\ hand[s[1]][x] = None => Widened(manager[s[1]][x], Default[x]) = manager[s[1]][x]
      BY <3>1 DEF SteadyIsGranted
    <3>3. manager'[s[1]][x] = manager[s[1]][x] /\ admin[s[1]] \subseteq admin'[s[1]]
      BY <1>3, <2>1, <2>3, <3>1
    <3> QED
      BY <3>2, <3>3
  <2> QED BY <2>2, <2>3
<1> QED BY <1>4, <1>5, <1>6, <1>7, <1>8, <1>9 DEF Rest

LEMMA SyncUpgradeStep ==
    ASSUME IInv, NEW q \in Process, NEW a \in App, SyncUpgrade(q, a)
    PROVE  Rest'
<1> USE DEF IInv, SyncUpgrade, ghosts
<1>1. rel[q] \in Release
  BY DEF TypeOK
<1>2. PermsOf(a, rel[q]) \subseteq known
  BY DEF PermsOf, Pending, Progress
<1>3. ASSUME NEW t \in Tenant
      PROVE  IF inst[t][a] = None THEN inst'[t] = inst[t]
             ELSE inst'[t] = [inst[t] EXCEPT ![a].version = rel[q]]
  BY DEF Upgraded
<1>4. ASSUME NEW t \in Tenant, NEW b \in App
      PROVE  /\ inst'[t][b] = None <=> inst[t][b] = None
             /\ inst[t][b] # None => inst'[t][b].status = inst[t][b].status
             /\ inst[t][b] # None /\ b # a => inst'[t][b].version = inst[t][b].version
             /\ inst[t][a] # None => inst'[t][a].version = rel[q]
  <2>1. inst[t] \in [App -> Installation \cup {None}]
    BY DEF TypeOK
  <2>2. CASE inst[t][a] = None
    BY <1>3, <2>2
  <2>3. CASE inst[t][a] # None
    <3>1. inst'[t] = [inst[t] EXCEPT ![a] = [inst[t][a] EXCEPT !.version = rel[q]]]
      BY <1>3, <2>3
    <3>2. inst[t][a] \in Installation
      BY <2>1, <2>3
    <3>3. [inst[t][a] EXCEPT !.version = rel[q]]
              = [status |-> inst[t][a].status, version |-> rel[q]]
      BY <3>2 DEF Installation
    <3>4. [status |-> inst[t][a].status, version |-> rel[q]] \in Installation
      BY <1>1, <3>2 DEF Installation
    <3>5. inst'[t][a] = [status |-> inst[t][a].status, version |-> rel[q]]
      BY <2>1, <3>1, <3>3
    <3>6. b # a => inst'[t][b] = inst[t][b]
      BY <2>1, <3>1
    <3> QED
      BY <2>3, <3>4, <3>5, <3>6, NoneIsNoInstallation
  <2> QED BY <2>2, <2>3
<1>5. Progress' /\ KnownIsOld'
  <2>1. \A x \in Process : done'[x] \cap Perm = done[x] \cap Perm
    BY PermsAreNoApps DEF TypeOK
  <2> QED
    BY <2>1 DEF Progress, KnownIsOld
<1>6. SteadyIsFound'
  <2>1. ASSUME NEW s \in steady PROVE Enabled(s[1], s[2])'
    <3>1. s[1] \in Tenant /\ s[2] \in App \cup {Core} /\ Enabled(s[1], s[2])
      BY DEF TypeOK, SteadyIsFound
    <3>2. CASE s[2] = Core
      BY <3>1, <3>2 DEF Enabled
    <3>3. CASE s[2] \in App
      BY <1>4, <3>1, <3>3 DEF Enabled
    <3> QED BY <3>1, <3>2, <3>3
  <2> QED BY <2>1 DEF SteadyIsFound, Enabled
<1>7. HandIsKnown' /\ SteadyIsGranted' /\ HandEditsKept'
  BY DEF HandIsKnown, SteadyIsGranted, HandEditsKept
<1>8. VersionIsKnown'
  BY <1>2, <1>4 DEF VersionIsKnown, PermsOf
<1> QED BY <1>5, <1>6, <1>7, <1>8 DEF Rest

LEMMA ServeStep ==
    ASSUME IInv, NEW q \in Process, Serve(q)
    PROVE  Rest'
<1> USE DEF IInv, Serve, database, ghosts
<1>1. Progress'
  BY DEF Progress, TypeOK, Pending
<1>2. SteadyIsFound' /\ HandIsKnown'
  BY DEF SteadyIsFound, HandIsKnown, Enabled, TypeOK
<1>3. KnownIsOld' /\ SteadyIsGranted' /\ HandEditsKept' /\ VersionIsKnown'
  BY DEF KnownIsOld, SteadyIsGranted, HandEditsKept, VersionIsKnown, PermsOf
<1> QED BY <1>1, <1>2, <1>3 DEF Rest

LEMMA StopStep ==
    ASSUME IInv, NEW q \in Process, Stop(q)
    PROVE  Rest'
<1> USE DEF IInv, Stop, database, ghosts
<1>1. Progress'
  BY DEF Progress, TypeOK
<1>2. SteadyIsFound' /\ HandIsKnown'
  BY DEF SteadyIsFound, HandIsKnown, Enabled, TypeOK
<1>3. KnownIsOld' /\ SteadyIsGranted' /\ HandEditsKept' /\ VersionIsKnown'
  BY DEF KnownIsOld, SteadyIsGranted, HandEditsKept, VersionIsKnown, PermsOf
<1> QED BY <1>1, <1>2, <1>3 DEF Rest

-----------------------------------------------------------------------------
(* Requests.  A process that serves and has the newest release knows every
   permission there is, and none is being inserted. *)

LEMMA NewestKnowsAll ==
    ASSUME TypeOK, Progress, KnownIsOld, NEW q \in Process, pc[q] = "serving",
           rel[q] >= newest
    PROVE  /\ \A p \in known : Since[p] <= rel[q]
           /\ \A x \in Process : pc[x] \notin {"select", "grant"}
<1>1. rel[q] \in Int /\ newest \in Int
  BY ReleasesAreNumbers DEF TypeOK, Release
<1>2. \A p \in Perm : Since[p] \in Int
  BY SinceReleases DEF Release
<1>3. \A p \in known : Since[p] <= rel[q]
  BY <1>1, <1>2 DEF KnownIsOld, TypeOK
<1>4. ASSUME NEW x \in Process, pc[x] \in {"select", "grant"} PROVE FALSE
  <2>1. adding[x] \in Perm \ known /\ rel[x] \in Int
    BY <1>4 DEF TypeOK, Release
  <2>2. Since[adding[x]] <= rel[x] /\ rel[x] <= newest
    BY <1>4 DEF Progress
  <2>3. Since[adding[x]] <= rel[q]
    BY <1>1, <1>2, <2>1, <2>2
  <2> QED
    BY <2>1, <2>3 DEF Progress
<1> QED BY <1>3, <1>4

(* So what becomes steady is not what a Sync is about to grant. *)
LEMMA SteadyNowFound ==
    ASSUME TypeOK, Progress, KnownIsOld, SteadyIsFound, NEW q \in Process, NEW S,
           pc[q] = "serving", steady' = SteadyNow(q, S), UNCHANGED sync
    PROVE  \A x \in Process : pc'[x] = "grant" =>
               \A t \in Tenant : <<t, Owner[adding'[x]]>> \in steady' => t \in found'[x]
<1>1. CASE rel[q] >= newest
  BY <1>1, NewestKnowsAll DEF sync
<1>2. CASE ~(rel[q] >= newest)
  BY <1>2 DEF SteadyNow, SteadyIsFound, sync
<1> QED BY <1>1, <1>2

LEMMA CreateTenantStep ==
    ASSUME IInv, NEW q \in Process, NEW t \in Tenant, CreateTenant(q, t)
    PROVE  Rest'
<1> USE DEF IInv, CreateTenant
<1> DEFINE P == PermsOf(Core, rel[q])
<1>1. /\ \A u \in Tenant : u # t => admin'[u] = admin[u] /\ manager'[u] = manager[u]
      /\ P \subseteq admin'[t]
      /\ \A p \in P : manager'[t][p] = Widened(manager[t][p], Default[p])
  BY DEF GrantOnInstall, TypeOK, PermsOf
<1>2. Progress' /\ KnownIsOld'
  BY DEF Progress, KnownIsOld, sync
<1>3. SteadyIsFound'
  <2>1. \A s \in steady' : Enabled(s[1], s[2])'
    BY DEF SteadyNow, SteadyIsFound, Enabled
  <2> QED
    BY <2>1, SteadyNowFound DEF SteadyIsFound
<1>4. HandIsKnown'
  BY DEF HandIsKnown
<1>5. \A p \in Perm : hand[t][p] = None
  BY DEF HandIsKnown
<1>6. HandEditsKept'
  BY <1>1, <1>5 DEF HandEditsKept
<1>7. VersionIsKnown'
  BY DEF VersionIsKnown
<1>8. SteadyIsGranted'
  <2> SUFFICES ASSUME NEW s \in steady', NEW x \in known, Owner[x] = s[2]
               PROVE  /\ x \in admin'[s[1]]
                      /\ hand[s[1]][x] = None =>
                            Widened(manager'[s[1]][x], Default[x]) = manager'[s[1]][x]
    BY DEF SteadyIsGranted
  <2>1. x \in Perm
    BY DEF TypeOK
  <2>2. CASE s \in steady
    <3>1. s[1] \in tenants /\ s[1] # t /\ s[1] \in Tenant
      BY <2>2 DEF SteadyIsFound, Enabled, TypeOK
    <3>2. /\ x \in admin[s[1]]
          /\ hand[s[1]][x] = None => Widened(manager[s[1]][x], Default[x]) = manager[s[1]][x]
      BY <2>2 DEF SteadyIsGranted
    <3> QED
      BY <1>1, <3>1, <3>2
  <2>3. CASE s \notin steady
    <3>1. s[1] = t /\ s[2] = Core /\ rel[q] >= newest
      BY <2>3 DEF SteadyNow
    <3>2. x \in P
      BY <2>1, <3>1, NewestKnowsAll DEF PermsOf
    <3>3. manager[t][x] \in Scope /\ Default[x] \in Scope
      BY <2>1, DefaultsAreScopes DEF TypeOK
    <3>4. Widened(manager'[t][x], Default[x]) = manager'[t][x]
      BY <1>1, <3>2, <3>3, WidenedTyped
    <3> QED
      BY <1>1, <3>1, <3>2, <3>4
  <2> QED BY <2>2, <2>3
<1> QED BY <1>2, <1>3, <1>4, <1>6, <1>7, <1>8 DEF Rest

LEMMA InstallStep ==
    ASSUME IInv, NEW q \in Process, NEW t \in Tenant, NEW a \in App, Install(q, t, a)
    PROVE  Rest'
<1> USE DEF IInv
<1> DEFINE P == UNION {PermsOf(b, rel[q]) : b \in Order[a]}
<1>0. /\ pc[q] = "serving" /\ t \in tenants
      /\ UNCHANGED <<known, tenants, sync, newest>>
      /\ steady' = SteadyNow(q, {t} \X Order[a])
      /\ rel[q] \in Release
  BY DEF Install, TypeOK
<1>1. /\ \A u \in Tenant : u # t => /\ admin'[u] = admin[u] /\ manager'[u] = manager[u]
                                     /\ hand'[u] = hand[u] /\ inst'[u] = inst[u]
      /\ P \subseteq admin'[t] /\ admin[t] \subseteq admin'[t]
      /\ \A p \in P : manager'[t][p] = Widened(manager[t][p], Default[p])
      /\ \A p \in Perm : p \notin P => manager'[t][p] = manager[t][p]
  BY DEF Install, GrantOnInstall, TypeOK, PermsOf
<1>2. \A p \in Perm : hand'[t][p] = IF p \in P /\ hand[t][p] # "all" THEN None ELSE hand[t][p]
  BY DEF Install, TypeOK
<1>3. \A b \in App : inst'[t][b] = IF b \in Order[a] THEN [status |-> "enabled", version |-> rel[q]]
                                   ELSE inst[t][b]
  BY DEF Install, TypeOK
<1>4. \A b \in Order[a] : inst'[t][b] # None /\ b \in App
  BY <1>0, <1>3, OrderEndsWithApp, NoneIsNoInstallation DEF Installation
<1> HIDE DEF P
<1>5. Progress' /\ KnownIsOld'
  BY <1>0 DEF Progress, KnownIsOld, sync
<1>6. SteadyIsFound'
  <2>1. ASSUME NEW s \in steady' PROVE Enabled(s[1], s[2])'
    <3>1. CASE s \in steady
      <4>1. s[1] \in Tenant /\ s[2] \in App \cup {Core} /\ Enabled(s[1], s[2])
        BY <3>1 DEF SteadyIsFound, TypeOK
      <4>2. CASE s[1] = t /\ s[2] \in App
        BY <1>0, <1>3, <1>4, <4>1, <4>2, CoreIsNoApp DEF Enabled
      <4>3. CASE s[1] # t \/ s[2] = Core
        BY <1>0, <1>1, <4>1, <4>3 DEF Enabled
      <4> QED BY <4>1, <4>2, <4>3
    <3>2. CASE s \notin steady
      <4>1. s[1] = t /\ s[2] \in Order[a]
        BY <1>0, <3>2 DEF SteadyNow
      <4> QED
        BY <1>0, <1>3, <1>4, <4>1 DEF Enabled
    <3> QED BY <3>1, <3>2
  <2> QED
    BY <1>0, <2>1, SteadyNowFound DEF SteadyIsFound
<1>7. HandIsKnown'
  BY <1>0, <1>1, <1>2 DEF HandIsKnown, TypeOK
<1>8. HandEditsKept'
  <2> SUFFICES ASSUME NEW u \in Tenant, NEW p \in Perm, hand'[u][p] # None
               PROVE  manager'[u][p] = hand'[u][p]
    BY DEF HandEditsKept
  <2>1. CASE u # t
    BY <1>1, <2>1 DEF HandEditsKept
  <2>2. CASE u = t /\ p \notin P
    BY <1>1, <1>2, <2>2 DEF HandEditsKept
  <2>3. CASE u = t /\ p \in P
    <3>1. hand[t][p] = "all" /\ hand'[t][p] = "all" /\ manager[t][p] = "all"
      BY <1>2, <2>3, NoneIsNoPerm DEF HandEditsKept, Scope
    <3> QED
      BY <1>1, <2>3, <3>1 DEF Widened
  <2> QED BY <2>1, <2>2, <2>3
<1>9. VersionIsKnown'
  <2> SUFFICES ASSUME NEW u \in Tenant, NEW b \in App, inst'[u][b] # None
               PROVE  PermsOf(b, inst'[u][b].version) \subseteq known
    BY <1>0 DEF VersionIsKnown
  <2>1. CASE u # t \/ b \notin Order[a]
    BY <1>1, <1>3, <2>1 DEF VersionIsKnown
  <2>2. CASE u = t /\ b \in Order[a]
    <3>1. inst'[u][b].version = rel[q]
      BY <1>3, <2>2
    <3> QED
      BY <1>0, <3>1 DEF PermsOf, Progress
  <2> QED BY <2>1, <2>2
<1>10. SteadyIsGranted'
  <2> SUFFICES ASSUME NEW s \in steady', NEW x \in known, Owner[x] = s[2]
               PROVE  /\ x \in admin'[s[1]]
                      /\ hand'[s[1]][x] = None =>
                            Widened(manager'[s[1]][x], Default[x]) = manager'[s[1]][x]
    BY <1>0 DEF SteadyIsGranted
  <2>1. x \in Perm /\ s[1] \in Tenant
    BY <1>0 DEF TypeOK, SteadyNow
  <2>2. manager[t][x] \in Scope /\ Default[x] \in Scope
    BY <2>1, DefaultsAreScopes DEF TypeOK
  <2>3. CASE s[1] = t /\ x \in P
    <3>1. Widened(manager'[t][x], Default[x]) = manager'[t][x] /\ x \in admin'[t]
      BY <1>1, <2>2, <2>3, WidenedTyped
    <3> QED BY <2>3, <3>1
  <2>4. CASE s \in steady /\ ~(s[1] = t /\ x \in P)
    <3>1. /\ x \in admin[s[1]]
          /\ hand[s[1]][x] = None => Widened(manager[s[1]][x], Default[x]) = manager[s[1]][x]
      BY <2>4 DEF SteadyIsGranted
    <3>2. manager'[s[1]][x] = manager[s[1]][x] /\ hand'[s[1]][x] = hand[s[1]][x]
              /\ admin[s[1]] \subseteq admin'[s[1]]
      BY <1>1, <1>2, <2>1, <2>4
    <3> QED BY <3>1, <3>2
  <2>5. CASE s \notin steady
    <3>1. s[1] = t /\ s[2] \in Order[a] /\ rel[q] >= newest
      BY <1>0, <2>5 DEF SteadyNow
    <3>2. x \in PermsOf(s[2], rel[q])
      BY <1>0, <2>1, <3>1, NewestKnowsAll DEF PermsOf
    <3>3. x \in P
      BY <3>1, <3>2 DEF P
    <3> QED BY <2>3, <3>1, <3>3
  <2> QED BY <2>3, <2>4, <2>5
<1> QED BY <1>5, <1>6, <1>7, <1>8, <1>9, <1>10 DEF Rest
LEMMA SetStatusStep ==
    ASSUME IInv, NEW t \in Tenant, NEW a \in App, NEW s \in {"enabled", "disabled"},
           SetStatus(t, a, s)
    PROVE  Rest'
<1> USE DEF IInv, SetStatus
<1>1. ASSUME NEW u \in Tenant, NEW b \in App
      PROVE  /\ <<u, b>> # <<t, a>> => inst'[u][b] = inst[u][b]
             /\ inst'[t][a] = [status |-> s, version |-> inst[t][a].version]
             /\ inst'[t][a] # None
  <2>1. inst[t][a] \in Installation
    BY DEF TypeOK
  <2>2. [inst[t][a] EXCEPT !.status = s] = [status |-> s, version |-> inst[t][a].version]
    BY <2>1 DEF Installation
  <2>3. [status |-> s, version |-> inst[t][a].version] \in Installation
    BY <2>1 DEF Installation
  <2>4. inst' = [inst EXCEPT ![t] = [inst[t] EXCEPT ![a] = [inst[t][a] EXCEPT !.status = s]]]
    OBVIOUS
  <2>5. inst'[t][a] = [status |-> s, version |-> inst[t][a].version]
    BY <2>2, <2>4 DEF TypeOK
  <2>6. <<u, b>> # <<t, a>> => inst'[u][b] = inst[u][b]
    BY <2>4 DEF TypeOK
  <2> QED BY <2>3, <2>5, <2>6, NoneIsNoInstallation
<1>2. Progress' /\ KnownIsOld' /\ HandIsKnown' /\ HandEditsKept'
  BY DEF Progress, KnownIsOld, HandIsKnown, HandEditsKept, sync
<1>3. steady' \subseteq steady /\ (s = "disabled" => <<t, a>> \notin steady')
  OBVIOUS
<1>4. SteadyIsFound'
  <2>1. ASSUME NEW x \in steady' PROVE Enabled(x[1], x[2])'
    <3>1. /\ x[1] \in Tenant /\ x[2] \in App \cup {Core} /\ x = <<x[1], x[2]>>
          /\ Enabled(x[1], x[2])
      BY <1>3 DEF SteadyIsFound, TypeOK
    <3>2. CASE x = <<t, a>>
      BY <1>1, <1>3, <3>1, <3>2 DEF Enabled
    <3>3. CASE x # <<t, a>> /\ x[2] \in App
      BY <1>1, <3>1, <3>3 DEF Enabled
    <3>4. CASE x[2] = Core
      BY <3>1, <3>4 DEF Enabled
    <3> QED BY <3>1, <3>2, <3>3, <3>4
  <2> QED BY <1>3, <2>1 DEF SteadyIsFound, sync
<1>5. SteadyIsGranted'
  BY <1>3 DEF SteadyIsGranted
<1>6. VersionIsKnown'
  <2> SUFFICES ASSUME NEW u \in Tenant, NEW b \in App, inst'[u][b] # None
               PROVE  PermsOf(b, inst'[u][b].version) \subseteq known
    BY DEF VersionIsKnown
  <2>1. CASE <<u, b>> # <<t, a>>
    BY <1>1, <2>1 DEF VersionIsKnown
  <2>2. CASE u = t /\ b = a
    <3>1. inst'[u][b].version = inst[t][a].version
      BY <1>1, <2>2
    <3> QED
      BY <2>2, <3>1 DEF VersionIsKnown
  <2> QED BY <2>1, <2>2
<1> QED BY <1>2, <1>4, <1>5, <1>6 DEF Rest

LEMMA SetGrantStep ==
    ASSUME IInv, NEW t \in Tenant, NEW p \in Perm, NEW s \in Scope, SetGrant(t, p, s)
    PROVE  Rest'
<1> USE DEF IInv, SetGrant
<1>1. \A u \in Tenant, x \in Perm :
          /\ <<u, x>> # <<t, p>> => manager'[u][x] = manager[u][x] /\ hand'[u][x] = hand[u][x]
          /\ manager'[t][p] = s /\ hand'[t][p] = s
  BY DEF TypeOK
<1>2. s # None
  BY NoneIsNoPerm
<1>3. Progress' /\ KnownIsOld' /\ SteadyIsFound' /\ VersionIsKnown'
  BY DEF Progress, KnownIsOld, SteadyIsFound, VersionIsKnown, Enabled, sync
<1>4. HandIsKnown' /\ HandEditsKept'
  BY <1>1 DEF HandIsKnown, HandEditsKept
<1>5. SteadyIsGranted'
  <2> SUFFICES ASSUME NEW x \in steady, NEW y \in known, Owner[y] = x[2]
               PROVE  /\ y \in admin[x[1]]
                      /\ hand'[x[1]][y] = None =>
                            Widened(manager'[x[1]][y], Default[y]) = manager'[x[1]][y]
    BY DEF SteadyIsGranted
  <2>1. x[1] \in Tenant /\ y \in Perm
    BY DEF TypeOK
  <2> QED
    BY <1>1, <1>2, <2>1 DEF SteadyIsGranted
<1> QED BY <1>3, <1>4, <1>5 DEF Rest

-----------------------------------------------------------------------------
LEMMA BootStep ==
    ASSUME IInv, NEW q \in Process, Boot(q)
    PROVE  Rest'
BY StartStep, SyncInsertStep, SyncSelectStep, SyncCommitStep, SyncUpgradeStep, ServeStep, StopStep
DEF Boot

LEMMA RequestStep ==
    ASSUME IInv, Request
    PROVE  Rest'
BY CreateTenantStep, InstallStep, SetStatusStep, SetGrantStep DEF Request

LEMMA StutterStep ==
    ASSUME IInv, UNCHANGED vars
    PROVE  Rest'
<1> USE DEF IInv, vars, database, sync, ghosts
<1>1. Progress' /\ KnownIsOld'
  BY DEF Progress, KnownIsOld
<1>2. SteadyIsFound' /\ HandIsKnown'
  BY DEF SteadyIsFound, HandIsKnown, Enabled
<1>3. SteadyIsGranted' /\ HandEditsKept' /\ VersionIsKnown'
  BY DEF SteadyIsGranted, HandEditsKept, VersionIsKnown, PermsOf
<1> QED BY <1>1, <1>2, <1>3 DEF Rest

LEMMA IInvStep == IInv /\ [Next]_vars => IInv'
<1>1. IInv /\ [Next]_vars => Rest'
  BY BootStep, RequestStep, StutterStep DEF Next
<1>2. IInv /\ [Next]_vars => TypeOK'
  BY TypeStep DEF IInv
<1>3. TypeOK' /\ Rest' => IInv'
  BY DEF IInv, Rest
<1> QED BY <1>1, <1>2, <1>3

(* The inductive invariant: what a Sync has found, what the catalogue holds
   and what the tenants were granted agree in every state (appstore.go). *)
THEOREM Invariant == Spec => []IInv
BY InitOK, IInvStep, PTL DEF Spec

(* Every variable keeps its type; no code is inserted by two processes, and a
   process inserts only what is not in the catalogue (syncPerm). *)
THEOREM TypeCorrect == Spec => []TypeOK
<1>1. IInv => TypeOK
  BY DEF IInv
<1> QED BY <1>1, Invariant, PTL

(* Whatever processes of whatever releases start, fail and race with the
   tenants' installs, a tenant that the newest release installed an app for has
   every permission of it that the catalogue holds (syncPerm, Install). *)
THEOREM SteadyGranted == Spec => []SteadyIsGranted
<1>1. IInv => SteadyIsGranted
  BY DEF IInv
<1> QED BY <1>1, Invariant, PTL

(* No Sync of any process touches a grant that was given or taken by hand
   (syncPerm grants a permission only when it inserts it). *)
THEOREM HandKept == Spec => []HandEditsKept
<1>1. IInv => HandEditsKept
  BY DEF IInv
<1> QED BY <1>1, Invariant, PTL

(* An installation's version never runs ahead of the catalogue, wherever the
   Sync that upgrades it fails (Sync's order: permissions, then versions). *)
THEOREM VersionKnown == Spec => []VersionIsKnown
<1>1. IInv => VersionIsKnown
  BY DEF IInv
<1> QED BY <1>1, Invariant, PTL

-----------------------------------------------------------------------------
(* How a tenant comes to miss a permission of an app it has enabled. *)

LEMMA GrantGrows ==
    ASSUME TablesTyped, NEW T, NEW P, GrantOnInstall(T, P), NEW t \in Tenant
    PROVE  admin[t] \subseteq admin'[t] /\ (t \in T => P \subseteq admin'[t])
BY DEF TablesTyped, GrantOnInstall

\* No step takes a permission from the admin role.
LEMMA AdminGrows ==
    ASSUME TypeOK, [Next]_vars, NEW t \in Tenant PROVE admin[t] \subseteq admin'[t]
<1> USE DEF database, sync, ghosts
<1>1. TablesTyped
  BY TypeParts
<1>2. ASSUME NEW q \in Process, Boot(q) PROVE admin[t] \subseteq admin'[t]
  <2>1. CASE SyncCommit(q)
    BY <1>1, <2>1, GrantGrows DEF SyncCommit
  <2> QED BY <1>2, <2>1
          DEF Boot, Start, SyncInsert, SyncSelect, SyncUpgrade, Serve, Stop
<1>3. ASSUME NEW u \in Tenant, NEW q \in Process, CreateTenant(q, u)
      PROVE  admin[t] \subseteq admin'[t]
  BY <1>1, <1>3, GrantGrows DEF CreateTenant
<1>4. ASSUME NEW u \in Tenant, NEW q \in Process, NEW a \in App, Install(q, u, a)
      PROVE  admin[t] \subseteq admin'[t]
  BY <1>1, <1>4, GrantGrows DEF Install
<1>5. ASSUME NEW u \in Tenant, NEW a \in App, NEW s, SetStatus(u, a, s)
      PROVE  admin[t] \subseteq admin'[t]
  BY <1>5 DEF SetStatus
<1>6. ASSUME NEW u \in Tenant, NEW p \in Perm, NEW s, SetGrant(u, p, s)
      PROVE  admin[t] \subseteq admin'[t]
  BY <1>6 DEF SetGrant
<1>7. CASE UNCHANGED vars
  BY <1>7 DEF vars
<1> QED BY <1>2, <1>3, <1>4, <1>5, <1>6, <1>7 DEF Next, Request

\* The steps that write an installation.
LEMMA InstSteps ==
    ASSUME [Next]_vars
    PROVE  \/ inst' = inst
           \/ \E q \in Process, a \in App : SyncUpgrade(q, a)
           \/ \E q \in Process, t \in Tenant, a \in App : Install(q, t, a)
           \/ \E t \in Tenant, a \in App, s \in {"enabled", "disabled"} : SetStatus(t, a, s)
<1> USE DEF database, sync, ghosts
<1>1. ASSUME NEW q \in Process, Boot(q)
      PROVE  inst' = inst \/ \E a \in App : SyncUpgrade(q, a)
  BY <1>1 DEF Boot, Start, SyncInsert, SyncSelect, SyncCommit, Serve, Stop
<1>2. ASSUME NEW q \in Process, NEW t \in Tenant, CreateTenant(q, t) PROVE inst' = inst
  BY <1>2 DEF CreateTenant
<1>3. ASSUME NEW t \in Tenant, NEW p \in Perm, NEW s, SetGrant(t, p, s) PROVE inst' = inst
  BY <1>3 DEF SetGrant
<1>4. CASE UNCHANGED vars
  BY <1>4 DEF vars
<1> QED BY <1>1, <1>2, <1>3, <1>4 DEF Next, Request

\* The promise for one installation.
Covered(t, a) ==
    inst[t][a] # None /\ inst[t][a].status = "enabled"
        => PermsOf(a, inst[t][a].version) \subseteq admin[t]

LEMMA InstallCovers ==
    ASSUME TypeOK, NEW q \in Process, NEW u \in Tenant, NEW b \in App, Install(q, u, b),
           NEW t \in Tenant, NEW a \in App, Covered(t, a)
    PROVE  Covered(t, a)'
<1> DEFINE granted == UNION {PermsOf(x, rel[q]) : x \in Order[b]}
<1>1. TablesTyped
  BY TypeParts
<1>2. GrantOnInstall({u}, granted)
  BY DEF Install
<1>3. admin[t] \subseteq admin'[t] /\ (t = u => granted \subseteq admin'[t])
  BY <1>1, <1>2, GrantGrows
<1>4. CASE t = u /\ a \in Order[b]
  <2>1. inst'[t][a] = [status |-> "enabled", version |-> rel[q]]
    BY <1>1, <1>4 DEF Install, TablesTyped
  <2>2. PermsOf(a, rel[q]) \subseteq granted
    BY <1>4
  <2>3. PermsOf(a, rel[q]) \subseteq admin'[t]
    BY <1>3, <1>4, <2>2
  <2> QED BY <2>1, <2>3 DEF Covered, PermsOf
<1>5. CASE ~(t = u /\ a \in Order[b])
  <2>1. inst'[t][a] = inst[t][a]
    BY <1>1, <1>5 DEF Install, TablesTyped
  <2> QED BY <1>3, <2>1 DEF Covered, PermsOf
<1> QED BY <1>4, <1>5

LEMMA DisabledCovers ==
    ASSUME TypeOK, NEW u \in Tenant, NEW b \in App, SetStatus(u, b, "disabled"),
           NEW t \in Tenant, NEW a \in App, Covered(t, a)
    PROVE  Covered(t, a)'
<1>1. inst' = [inst EXCEPT ![u][b].status = "disabled"] /\ inst[u][b] # None /\ admin' = admin
  BY DEF SetStatus
<1>2. inst[u][b] \in Installation
  BY <1>1 DEF TypeOK
<1>3. CASE t = u /\ a = b
  <2>1. inst'[t][a] = [inst[t][a] EXCEPT !.status = "disabled"]
    BY <1>1, <1>3 DEF TypeOK
  <2>2. inst'[t][a].status = "disabled"
    BY <1>2, <1>3, <2>1 DEF Installation
  <2> QED BY <2>2 DEF Covered
<1>4. CASE ~(t = u /\ a = b)
  <2>1. inst'[t][a] = inst[t][a]
    BY <1>1, <1>4 DEF TypeOK
  <2> QED BY <1>1, <2>1 DEF Covered, PermsOf
<1> QED BY <1>3, <1>4

(* A tenant comes to miss a permission of an app it has enabled in two ways
   only: Sync raises the version of an installation that its grants had not
   reached, or an app that was disabled meanwhile is enabled again.  No install,
   no failure and no start of any process in any other order causes it. *)
THEOREM MissedByUpgradeOrEnable ==
    Spec => [][EnabledIsGranted /\ ~EnabledIsGranted' =>
                  \E a \in App :
                      \/ \E q \in Process : SyncUpgrade(q, a)
                      \/ \E t \in Tenant : SetStatus(t, a, "enabled")]_vars
<1> DEFINE Missed == \E a \in App :
                         \/ \E q \in Process : SyncUpgrade(q, a)
                         \/ \E t \in Tenant : SetStatus(t, a, "enabled")
<1>1. ASSUME TypeOK, [Next]_vars, EnabledIsGranted, ~Missed PROVE EnabledIsGranted'
  <2> SUFFICES ASSUME NEW t \in Tenant, NEW a \in App PROVE Covered(t, a)'
    BY DEF EnabledIsGranted, Covered
  <2>1. Covered(t, a)
    BY <1>1 DEF EnabledIsGranted, Covered
  <2>2. CASE inst' = inst
    BY <1>1, <2>1, <2>2, AdminGrows DEF Covered, PermsOf
  <2>3. CASE \E q \in Process, u \in Tenant, b \in App : Install(q, u, b)
    BY <1>1, <2>1, <2>3, InstallCovers
  <2>4. CASE \E u \in Tenant, b \in App : SetStatus(u, b, "disabled")
    BY <1>1, <2>1, <2>4, DisabledCovers
  <2> QED BY <1>1, <2>2, <2>3, <2>4, InstSteps
<1>2. IInv /\ [Next]_vars => [EnabledIsGranted /\ ~EnabledIsGranted' => Missed]_vars
  BY <1>1 DEF IInv
<1> QED BY Invariant, <1>2, PTL DEF Spec
=============================================================================
