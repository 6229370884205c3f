------------------------------- MODULE AppStore -------------------------------
(***************************************************************************)
(* Apps, the permissions they bring and the tenants that install them:     *)
(* the Sync of every process that starts (internal/core/appstore), Install *)
(* and SetStatus, and the default grants (internal/core/rbac/seed.go),     *)
(* with processes of several releases at once, as a deployment has them,   *)
(* that fail or are killed anywhere in their Sync.                         *)
(*                                                                         *)
(* Every release has every app, and release n has the permissions p with   *)
(* Since[p] <= n; Owner[p] is p's app, or Core.  Order[a] are the apps     *)
(* that ResolveOrder puts before a, and a.  Default[p] is the scope that p *)
(* declares for the manager role, which stands for all roles but admin.    *)
(* Left out: the texts of the catalogue, the index of apps that are not    *)
(* compiled in, and the tables of releases and events that only History    *)
(* reads.                                                                  *)
(***************************************************************************)
EXTENDS Integers

CONSTANTS Process, Tenant, App, Core, Perm, Owner, Since, Default, Order,
          MaxRelease, None

Release == 1 .. MaxRelease
Scope == {"none", "own", "all"}

ASSUME ReleasesAreNumbers == MaxRelease \in Nat
ASSUME CoreIsNoApp == Core \notin App
ASSUME OwnersAreApps == Owner \in [Perm -> App \cup {Core}]
ASSUME SinceReleases == Since \in [Perm -> Release]
ASSUME DefaultsAreScopes == Default \in [Perm -> Scope]
ASSUME OrderEndsWithApp == \A a \in App : Order[a] \subseteq App /\ a \in Order[a]
ASSUME PermsAreNoApps == Perm \cap App = {}
ASSUME NoneIsNoPerm == None \notin Perm /\ None \notin Scope /\ None \notin Release

Installation == [status: {"enabled", "disabled"}, version: Release]
ASSUME NoneIsNoInstallation == None \notin Installation

VARIABLES
    known,    \* rows of permissions
    tenants,  \* rows of tenants
    inst,     \* rows of app_installations
    admin,    \* role_permissions of the admin role, all of scope "all"
    manager,  \* role_permissions of the manager role
    rel,      \* the release each process runs, None while it is down
    pc,       \* and what it does next
    done,     \* the permissions and apps its Sync is done with
    adding,   \* the permission its transaction inserts
    found,    \* the tenants it has read for that one
    newest,   \* ghost: the newest release that has started
    steady,   \* ghost: what is enabled since an install by the newest one
    hand      \* ghost: what the manager role was last given by hand

database == <<known, tenants, inst, admin, manager>>
sync == <<rel, pc, done, adding, found>>
ghosts == <<newest, steady, hand>>
vars == <<database, sync, ghosts>>

PermsOf(a, n) == {p \in Perm : Owner[p] = a /\ Since[p] <= n}

(* An INSERT that is not committed is of a code nobody else has inserted. *)
TypeOK ==
    /\ known \subseteq Perm
    /\ tenants \subseteq Tenant
    /\ inst \in [Tenant -> [App -> Installation \cup {None}]]
    /\ admin \in [Tenant -> SUBSET Perm]
    /\ manager \in [Tenant -> [Perm -> Scope]]
    /\ rel \in [Process -> Release \cup {None}]
    /\ pc \in [Process -> {"down", "next", "select", "grant", "serving"}]
    /\ done \in [Process -> SUBSET (Perm \cup App)]
    /\ adding \in [Process -> Perm \cup {None}]
    /\ found \in [Process -> SUBSET Tenant]
    /\ newest \in 0 .. MaxRelease
    /\ steady \subseteq Tenant \X (App \cup {Core})
    /\ hand \in [Tenant -> [Perm -> Scope \cup {None}]]
    /\ \A q \in Process :
        /\ pc[q] # "down" => rel[q] \in Release
        /\ pc[q] \in {"select", "grant"} => adding[q] \in Perm \ known
    /\ \A q, x \in Process : adding[q] = adding[x] => q = x \/ adding[q] = None

Init ==
    /\ known = {}
    /\ tenants = {}
    /\ inst = [t \in Tenant |-> [a \in App |-> None]]
    /\ admin = [t \in Tenant |-> {}]
    /\ manager = [t \in Tenant |-> [p \in Perm |-> "none"]]
    /\ rel = [q \in Process |-> None]
    /\ pc = [q \in Process |-> "down"]
    /\ done = [q \in Process |-> {}]
    /\ adding = [q \in Process |-> None]
    /\ found = [q \in Process |-> {}]
    /\ newest = 0
    /\ steady = {}
    /\ hand = [t \in Tenant |-> [p \in Perm |-> None]]

-----------------------------------------------------------------------------
(* Grants *)

\* Mutant: ON CONFLICT DO UPDATE SET scope = excluded.scope.
Overwritten(old, new) == IF new = "none" THEN old ELSE new

\* ON CONFLICT: "all" stays "all".
Widened(old, new) == IF new = "none" \/ old = "all" THEN old ELSE new

\* GrantOnInstall of the permissions P for the tenants T.
GrantOnInstall(T, P) ==
    /\ admin' = [t \in Tenant |-> IF t \in T THEN admin[t] \cup P ELSE admin[t]]
    /\ manager' = [t \in Tenant |-> [p \in Perm |->
                      IF t \in T /\ p \in P THEN Widened(manager[t][p], Default[p])
                      ELSE manager[t][p]]]

-----------------------------------------------------------------------------
(* A process *)

Start(q, n) ==
    /\ pc[q] = "down"
    /\ rel' = [rel EXCEPT ![q] = n]
    /\ pc' = [pc EXCEPT ![q] = "next"]
    /\ newest' = IF n > newest THEN n ELSE newest
    /\ UNCHANGED <<database, done, adding, found, steady, hand>>

(* The core permissions come first, then each app with its own. *)
Pending(q) == {p \in Perm : Since[p] <= rel[q]} \ done[q]

IsNext(q, p) ==
    /\ p \in Pending(q)
    /\ Owner[p] # Core => \A x \in Pending(q) : Owner[x] # Core

\* Mutant: the defaults are granted for a code that was there, too.
SyncInsertAlways(q, p) ==
    /\ pc[q] = "next" /\ IsNext(q, p)
    /\ \A x \in Process : adding[x] # p
    /\ IF p \in known
       THEN /\ done' = [done EXCEPT ![q] = @ \cup {p}]
            /\ GrantOnInstall({t \in tenants : Owner[p] = Core
                   \/ (Owner[p] \in App /\ inst[t][Owner[p]] # None
                       /\ inst[t][Owner[p]].status = "enabled")}, {p})
            /\ UNCHANGED <<pc, adding>>
       ELSE /\ pc' = [pc EXCEPT ![q] = "select"]
            /\ adding' = [adding EXCEPT ![q] = p]
            /\ UNCHANGED <<done, admin, manager>>
    /\ UNCHANGED <<known, tenants, inst, rel, found, ghosts>>

\* Mutant: a SELECT before the INSERT, which does not wait for the other one.
SyncInsertUnlocked(q, p) ==
    /\ pc[q] = "next" /\ IsNext(q, p)
    /\ IF p \in known
       THEN done' = [done EXCEPT ![q] = @ \cup {p}] /\ UNCHANGED <<pc, adding>>
       ELSE /\ pc' = [pc EXCEPT ![q] = "select"]
            /\ adding' = [adding EXCEPT ![q] = p]
            /\ UNCHANGED done
    /\ UNCHANGED <<database, rel, found, ghosts>>

(* syncPerm: INSERT .. ON CONFLICT waits for a transaction that is inserting
   the same code; for a code that is there only its texts change. *)
SyncInsert(q, p) ==
    /\ pc[q] = "next" /\ IsNext(q, p)
    /\ \A x \in Process : adding[x] # p
    /\ IF p \in known
       THEN done' = [done EXCEPT ![q] = @ \cup {p}] /\ UNCHANGED <<pc, adding>>
       ELSE /\ pc' = [pc EXCEPT ![q] = "select"]
            /\ adding' = [adding EXCEPT ![q] = p]
            /\ UNCHANGED done
    /\ UNCHANGED <<database, rel, found, ghosts>>

(* The tenants to grant it to: where the app is enabled, or all of them. *)
Enabled(t, a) == t \in tenants /\ (a = Core \/ (inst[t][a] # None /\ inst[t][a].status = "enabled"))

\* Mutant: each statement of syncPerm commits alone.
SyncSelectCommitted(q) ==
    /\ pc[q] = "select"
    /\ found' = [found EXCEPT ![q] = {t \in Tenant : Enabled(t, Owner[adding[q]])}]
    /\ known' = known \cup {adding[q]}
    /\ pc' = [pc EXCEPT ![q] = "grant"]
    /\ UNCHANGED <<tenants, inst, admin, manager, rel, done, adding, ghosts>>

SyncSelect(q) ==
    /\ pc[q] = "select"
    /\ found' = [found EXCEPT ![q] = {t \in Tenant : Enabled(t, Owner[adding[q]])}]
    /\ pc' = [pc EXCEPT ![q] = "grant"]
    /\ UNCHANGED <<database, rel, done, adding, ghosts>>

\* The grants, none of which can be seen before the commit.
SyncCommit(q) ==
    /\ pc[q] = "grant"
    /\ known' = known \cup {adding[q]}
    /\ GrantOnInstall(found[q], {adding[q]})
    /\ done' = [done EXCEPT ![q] = @ \cup {adding[q]}]
    /\ pc' = [pc EXCEPT ![q] = "next"]
    /\ adding' = [adding EXCEPT ![q] = None]
    /\ found' = [found EXCEPT ![q] = {}]
    /\ UNCHANGED <<tenants, inst, rel, ghosts>>

Upgraded(a, n) ==
    [t \in Tenant |-> IF inst[t][a] = None THEN inst[t]
                      ELSE [inst[t] EXCEPT ![a].version = n]]

\* Mutant: the versions first, the permissions afterwards.
SyncUpgradeFirst(q, a) ==
    /\ pc[q] = "next" /\ a \notin done[q]
    /\ inst' = Upgraded(a, rel[q])
    /\ done' = [done EXCEPT ![q] = @ \cup {a}]
    /\ UNCHANGED <<known, tenants, admin, manager, rel, pc, adding, found, ghosts>>

(* When an app's permissions are there its installations get the version of
   this release, the disabled ones too. *)
SyncUpgrade(q, a) ==
    /\ pc[q] = "next" /\ a \notin done[q]
    /\ \A p \in Pending(q) : Owner[p] \notin {Core, a}
    /\ inst' = Upgraded(a, rel[q])
    /\ done' = [done EXCEPT ![q] = @ \cup {a}]
    /\ UNCHANGED <<known, tenants, admin, manager, rel, pc, adding, found, ghosts>>

Serve(q) ==
    /\ pc[q] = "next" /\ Pending(q) = {} /\ App \subseteq done[q]
    /\ pc' = [pc EXCEPT ![q] = "serving"]
    /\ UNCHANGED <<database, rel, done, adding, found, ghosts>>

(* A statement of Sync fails and the process ends, or it is stopped or killed:
   its transaction is rolled back.  It starts again, of any release. *)
Stop(q) ==
    /\ pc[q] # "down"
    /\ pc' = [pc EXCEPT ![q] = "down"]
    /\ rel' = [rel EXCEPT ![q] = None]
    /\ done' = [done EXCEPT ![q] = {}]
    /\ adding' = [adding EXCEPT ![q] = None]
    /\ found' = [found EXCEPT ![q] = {}]
    /\ UNCHANGED <<database, ghosts>>

-----------------------------------------------------------------------------
(* Requests, which a process serves once its Sync is over *)

SteadyNow(q, S) == IF rel[q] >= newest THEN steady \cup S ELSE steady

\* createTenantTx grants the core permissions the process knows.
CreateTenant(q, t) ==
    /\ pc[q] = "serving" /\ t \notin tenants
    /\ tenants' = tenants \cup {t}
    /\ GrantOnInstall({t}, PermsOf(Core, rel[q]))
    /\ steady' = SteadyNow(q, {<<t, Core>>})
    /\ UNCHANGED <<known, inst, sync, newest, hand>>

(* Install is one transaction over the app and the apps it depends on. *)
Install(q, t, a) ==
    LET granted == UNION {PermsOf(b, rel[q]) : b \in Order[a]}
    IN  /\ pc[q] = "serving" /\ t \in tenants
        /\ inst' = [inst EXCEPT ![t] = [b \in App |->
               IF b \in Order[a] THEN [status |-> "enabled", version |-> rel[q]] ELSE @[b]]]
        /\ GrantOnInstall({t}, granted)
        /\ steady' = SteadyNow(q, {t} \X Order[a])
        /\ hand' = [hand EXCEPT ![t] = [p \in Perm |->
               IF p \in granted /\ @[p] # "all" THEN None ELSE @[p]]]
        /\ UNCHANGED <<known, tenants, sync, newest>>

SetStatus(t, a, status) ==
    /\ \E q \in Process : pc[q] = "serving"
    /\ t \in tenants /\ inst[t][a] # None
    /\ inst' = [inst EXCEPT ![t][a].status = status]
    /\ steady' = IF status = "disabled" THEN steady \ {<<t, a>>} ELSE steady
    /\ UNCHANGED <<known, tenants, admin, manager, sync, newest, hand>>

(* SetGrants, one permission at a time: it is given with another scope or
   taken.  The admin role's are not to be edited by hand. *)
SetGrant(t, p, s) ==
    /\ \E q \in Process : pc[q] = "serving"
    /\ t \in tenants /\ p \in known
    /\ manager' = [manager EXCEPT ![t][p] = s]
    /\ hand' = [hand EXCEPT ![t][p] = s]
    /\ UNCHANGED <<known, tenants, inst, admin, sync, newest, steady>>

Boot(q) ==
    \/ \E n \in Release : Start(q, n)
    \/ \E p \in Perm : SyncInsert(q, p)
    \/ SyncSelect(q) \/ SyncCommit(q)
    \/ \E a \in App : SyncUpgrade(q, a)
    \/ Serve(q) \/ Stop(q)

Request ==
    \E t \in Tenant :
        \/ \E q \in Process : CreateTenant(q, t) \/ \E a \in App : Install(q, t, a)
        \/ \E a \in App, s \in {"enabled", "disabled"} : SetStatus(t, a, s)
        \/ \E p \in Perm, s \in Scope : SetGrant(t, p, s)

Next == Request \/ \E q \in Process : Boot(q)

Spec == Init /\ [][Next]_vars

-----------------------------------------------------------------------------
(* Properties *)

(* A tenant that has had an app enabled ever since the newest release
   installed it has every permission of the app that is in the catalogue, for
   admin and by default for the other role, wherever a process that brings a
   new one fails, and whatever other processes start (appstore.go:72-76,
   128-131). *)
SteadyIsGranted ==
    \A s \in steady : \A p \in known :
        Owner[p] = s[2] =>
            /\ p \in admin[s[1]]
            /\ hand[s[1]][p] = None => Widened(manager[s[1]][p], Default[p]) = manager[s[1]][p]

(* What was given or taken by hand stays, however often processes start: only
   an Install may widen it (appstore.go:75, 02-rbac.md:101). *)
HandEditsKept ==
    \A t \in Tenant, p \in Perm : hand[t][p] # None => manager[t][p] = hand[t][p]

(* No installation claims a version of which a permission is missing in the
   catalogue, wherever the Sync that upgrades it fails. *)
VersionIsKnown ==
    \A t \in Tenant, a \in App :
        inst[t][a] # None => PermsOf(a, inst[t][a].version) \subseteq known

(* "тухайн модулийг суулгасан tenant бүрт" (02-rbac.md:101): every tenant that
   has the app gets the permissions of a new version, and so whoever works with
   that version can be granted them. *)
EnabledIsGranted ==
    \A t \in Tenant, a \in App :
        inst[t][a] # None /\ inst[t][a].status = "enabled"
            => PermsOf(a, inst[t][a].version) \subseteq admin[t]
=============================================================================
