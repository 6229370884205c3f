------------------------------- MODULE Portal -------------------------------
(***************************************************************************)
(* The shells of the two front ends: what the tabs of one browser show of  *)
(* a session that they share and that the server may end, move to another  *)
(* tenant, or give to another user at any time.                            *)
(*                                                                         *)
(* The tabs hold one cookie.  A tab is a document with one screen; the     *)
(* shell of the portal loads in up to three requests (who am I, select a   *)
(* tenant, the menu) and sets what it learned from the first only after    *)
(* the last.  Each request is one step: the server answers and the tab     *)
(* does what the code does with the answer; between two requests of a      *)
(* load anything may happen.  The panel's shell makes one request.         *)
(***************************************************************************)
EXTENDS Naturals, FiniteSets

CONSTANTS
    User,
    Tenant,      \* numbers, in the order of the tenants' names
    Tab,
    Sites,       \* the front ends a run opens: of {"portal", "panel"}
    Homes,       \* the memberships a run begins with
    Temps,       \* the sets of users whose password may be temporary at first
    Staff,       \* the administrators of the platform, once it is set up
    None,
    MaxLoads,    \* loads of one tab's shell in flight at once
    MaxTurns     \* acts of the user and of others, together

ASSUME NoneAssumption == None \notin User \cup Tenant
ASSUME TenantAssumption == Tenant \subseteq Nat
ASSUME StartAssumption ==
    /\ Sites \subseteq {"portal", "panel"}
    /\ Homes \subseteq [User -> SUBSET Tenant]
    /\ Temps \subseteq SUBSET User
    /\ Staff \subseteq User
ASSUME BoundsAssumption == MaxLoads \in Nat \ {0} /\ MaxTurns \in Nat

VARIABLES
    site,        \* the front end the tabs are on
    session,     \* the session of the browser's cookie
    member,      \* the tenants each user is a member of
    suspended,   \* the tenants that are closed
    temp,        \* the users whose password is temporary
    admins,      \* the administrators of the platform
    bare,        \* the installation has not been set up
    tabs,
    stale,       \* tabs whose session was changed from elsewhere since their
                 \* shell last asked for it
    turns        \* acts still to come

vars == <<site, session, member, suspended, temp, admins, bare, tabs, stale, turns>>
world == <<site, member, suspended, temp, admins, bare>>

Slot == 1 .. MaxLoads
Me == [user : User \cup {None}, tenant : Tenant \cup {None}, tenants : SUBSET Tenant]
Nobody == [user |-> None, tenant |-> None, tenants |-> {}]

\* "none": no cookie.  "dead": a cookie whose session is over.  by: the
\* administrator's session in the name of the user.
Session == [state : {"none", "live", "dead"}, user : User \cup {None},
            tenant : Tenant \cup {None}, by : BOOLEAN]
NoSession == [state |-> "none", user |-> None, tenant |-> None, by |-> FALSE]

\* cause: why the server refused the menu, which the shell is not told.
Data == [kind : {"nothing", "gate", "blocked", "ok", "denied"}, me : Me, by : BOOLEAN,
         cause : {"none", "suspended", "left", "temporary", "another"}]
Nothing == [kind |-> "nothing", me |-> Nobody, by |-> FALSE, cause |-> "none"]

Load == [pc : {"idle", "me", "select", "menu"}, me : Me, by : BOOLEAN]
Idle == [pc |-> "idle", me |-> Nobody, by |-> FALSE]
Asking == [Idle EXCEPT !.pc = "me"]

\* asks: the other requests in flight, of the login and the setup page.
Document ==
    [screen : {"landing", "login", "signup", "setup", "org", "shell"},
     data : Data, failed : BOOLEAN, loads : [Slot -> Load],
     asks : SUBSET {"me", "status"}, step : {"ask", "token", "form", "done", "closed"}]

-----------------------------------------------------------------------------
(* The server.                                                             *)

\* auth_session_lookup leaves out a tenant that the user is no longer in.
Active == IF session.tenant \in member[session.user] THEN session.tenant ELSE None
Live == session.state = "live"

\* What Me answers.
WhoAmI == [user |-> session.user, tenant |-> Active, tenants |-> member[session.user]]

\* Why RequireTenant refuses a read, in its order; an administrator in the name
\* of a user need not change that user's password.
Refusal ==
    IF Active = None THEN "left"
    ELSE IF session.user \in temp /\ ~session.by THEN "temporary"
    ELSE IF Active \in suspended THEN "suspended"
    ELSE "none"

End == session' = [session EXCEPT !.state = "dead"]

-----------------------------------------------------------------------------
(* Documents.                                                              *)

Mounted(screen) ==
    [screen |-> screen, data |-> Nothing, failed |-> FALSE,
     loads |-> [s \in Slot |-> IF s = 1 /\ screen = "shell" THEN Asking ELSE Idle],
     asks |-> CASE screen = "login" /\ site = "portal" -> {"me", "status"}
                [] screen = "login" /\ site = "panel" -> {"me"}
                [] screen \in {"landing", "setup"} -> {"status"}
                [] OTHER -> {},
     step |-> "ask"]

Protected(screen) == screen \in {"shell", "org"}

\* middleware: without a cookie a protected page is the login page.
Opened(screen) ==
    Mounted(IF Protected(screen) /\ session.state = "none" THEN "login" ELSE screen)

\* A loaded page goes to another one: a new document, or a screen of React's.
Become(x, doc) == tabs' = [tabs EXCEPT ![x] = doc]

Pages == IF site = "portal" THEN {"landing", "login", "signup", "setup", "org", "shell"}
                            ELSE {"login", "shell"}

Quiet(x) == tabs[x].asks = {} /\ \A s \in Slot : tabs[x].loads[s].pc = "idle"

\* The screen of a shell that is neither loading nor failed.
Shows(x, kind) ==
    tabs[x].screen = "shell" /\ ~tabs[x].failed /\ tabs[x].data.kind = kind

Init ==
    /\ site \in Sites
    /\ session = NoSession
    /\ member \in Homes
    /\ suspended = {}
    /\ bare \in BOOLEAN
    /\ temp \in IF bare \/ site = "panel" THEN {{}} ELSE Temps
    /\ admins = IF bare THEN {} ELSE Staff
    /\ tabs = [x \in Tab |-> [Mounted("login") EXCEPT !.asks = {}]]
    /\ stale = {}
    /\ turns = MaxTurns

-----------------------------------------------------------------------------
(* The portal's shell loads.                                               *)

SetLoad(x, s, load) == tabs' = [tabs EXCEPT ![x].loads[s] = load]

\* The load ends and what it learned is set.
SetData(x, s, kind, cause) ==
    tabs' = [tabs EXCEPT ![x].loads[s] = Idle,
                         ![x].data = [kind |-> kind, me |-> tabs[x].loads[s].me,
                                      by |-> tabs[x].loads[s].by, cause |-> cause]]

\* The server or the network failed, or the server refused what it may refuse.
SetFailed(x, s) ==
    tabs' = [tabs EXCEPT ![x].loads[s] = Idle, ![x].failed = TRUE]

\* req sends a tab whose session is over to the login page, whoever asked.
Unauthorized(x) == ~Live /\ Become(x, Opened("login"))

Loading(x, s, pc) ==
    /\ site = "portal" /\ tabs[x].loads[s].pc = pc

OtherLoads(x, s) == \E r \in Slot \ {s} : tabs[x].loads[r].pc # "idle"

\* Mutant: the menu is asked for without a look at must_change_password.
LoadMeUngated(x, s) ==
    /\ Loading(x, s, "me")
    /\ LET me == WhoAmI IN
       \/ Unauthorized(x)
       \/ SetFailed(x, s)
       \/ Live /\ me.tenant = None /\ me.tenants = {} /\ Become(x, Mounted("org"))
       \/ Live /\ me.tenant = None /\ me.tenants # {}
          /\ SetLoad(x, s, [pc |-> "select", me |-> me, by |-> session.by])
       \/ Live /\ me.tenant # None
          /\ SetLoad(x, s, [pc |-> "menu", me |-> me, by |-> session.by])
    /\ stale' = IF OtherLoads(x, s) THEN stale ELSE stale \ {x}
    /\ UNCHANGED <<world, session, turns>>

\* Who am I: the gate, the page of a user without a tenant, a tenant to select,
\* or the menu.
LoadMe(x, s) ==
    /\ Loading(x, s, "me")
    /\ LET me == WhoAmI IN
       \/ Unauthorized(x)
       \/ SetFailed(x, s)
       \/ Live /\ session.user \in temp
          /\ tabs' = [tabs EXCEPT ![x].loads[s] = Idle,
                                  ![x].data = [kind |-> "gate", me |-> me,
                                               by |-> session.by, cause |-> "none"]]
       \/ Live /\ session.user \notin temp
          /\ \/ me.tenant = None /\ me.tenants = {} /\ Become(x, Mounted("org"))
             \/ me.tenant = None /\ me.tenants # {}
                /\ SetLoad(x, s, [pc |-> "select", me |-> me, by |-> session.by])
             \/ me.tenant # None
                /\ SetLoad(x, s, [pc |-> "menu", me |-> me, by |-> session.by])
    /\ stale' = IF OtherLoads(x, s) THEN stale ELSE stale \ {x}
    /\ UNCHANGED <<world, session, turns>>

\* SelectTenant checks that the user is a member and nothing else.
Select(t) ==
    /\ Live /\ t \in member[session.user]
    /\ session' = [session EXCEPT !.tenant = t]

First(t, tenants) == \A other \in tenants : t <= other

\* The session is another one for the tabs that did not change it.
ChangedBy(x) == stale' = stale \cup (Tab \ {x})

LoadSelect(x, s) ==
    /\ Loading(x, s, "select")
    /\ \/ (Unauthorized(x) \/ SetFailed(x, s)) /\ UNCHANGED <<session, stale>>
       \/ \E t \in tabs[x].loads[s].me.tenants : First(t, tabs[x].loads[s].me.tenants) /\ Select(t)
          /\ SetLoad(x, s, Asking) /\ ChangedBy(x)
    /\ UNCHANGED <<world, turns>>

\* The user of the cookie is another one than at the beginning of the load.
CauseFor(load) ==
    IF load.me.user = session.user /\ load.by = session.by THEN Refusal ELSE "another"

\* Mutant: as it was before the audit, 403 like 401 leads to the login page.
LoadMenuLogin(x, s) ==
    /\ Loading(x, s, "menu")
    /\ \/ Unauthorized(x)
       \/ SetFailed(x, s)
       \/ Live /\ Refusal # "none" /\ Become(x, Opened("login"))
       \/ Live /\ Refusal = "none" /\ SetData(x, s, "ok", "none")
    /\ UNCHANGED <<world, session, stale, turns>>

\* Mutant: a return without a setData.
LoadMenuSilent(x, s) ==
    /\ Loading(x, s, "menu")
    /\ \/ Unauthorized(x)
       \/ SetFailed(x, s)
       \/ Live /\ Refusal # "none" /\ SetLoad(x, s, Idle)
       \/ Live /\ Refusal = "none" /\ SetData(x, s, "ok", "none")
    /\ UNCHANGED <<world, session, stale, turns>>

\* Any 403 is taken for a closed tenant.
LoadMenu(x, s) ==
    /\ Loading(x, s, "menu")
    /\ \/ Unauthorized(x)
       \/ SetFailed(x, s)
       \/ Live /\ Refusal # "none" /\ SetData(x, s, "blocked", CauseFor(tabs[x].loads[s]))
       \/ Live /\ Refusal = "none" /\ SetData(x, s, "ok", "none")
    /\ UNCHANGED <<world, session, stale, turns>>

(* The panel's shell asks once, and shows the panel to administrators.     *)
PanelLoad(x) ==
    /\ site = "panel" /\ tabs[x].loads[1].pc = "me"
    /\ \/ Unauthorized(x)
       \/ SetFailed(x, 1)
       \/ /\ Live
          /\ tabs' = [tabs EXCEPT ![x].loads[1] = Idle,
                ![x].data = [kind |-> IF session.user \in admins THEN "ok" ELSE "denied",
                             me |-> WhoAmI, by |-> session.by, cause |-> "none"]]
    /\ stale' = stale \ {x}
    /\ UNCHANGED <<world, session, turns>>

-----------------------------------------------------------------------------
(* The other pages' requests.                                              *)

\* The login page looks whether the visitor is signed in already.
Probe(x) ==
    /\ "me" \in tabs[x].asks
    /\ \/ /\ Live
          /\ site = "panel" => session.user \in admins
          /\ Become(x, IF site = "portal" THEN Opened("shell") ELSE Mounted("shell"))
       \/ tabs' = [tabs EXCEPT ![x].asks = @ \ {"me"}]
    /\ UNCHANGED <<world, session, stale, turns>>

\* setupStatus: a failure counts as "not required".
Status(x) ==
    /\ "status" \in tabs[x].asks
    /\ \E required \in {bare, FALSE} :
          CASE tabs[x].screen = "setup" ->
                 \E step \in IF required THEN {"token", "form", "closed"} ELSE {"closed"} :
                    tabs' = [tabs EXCEPT ![x].asks = {}, ![x].step = step]
            [] tabs[x].screen # "setup" /\ required -> Become(x, Mounted("setup"))
            [] OTHER -> tabs' = [tabs EXCEPT ![x].asks = @ \ {"status"}]
    /\ UNCHANGED <<world, session, stale, turns>>

-----------------------------------------------------------------------------
(* What the user does in a tab.                                            *)

Turn == turns > 0 /\ turns' = turns - 1

\* Types an address, follows a link, or presses the button of a failed shell.
Open(x) ==
    /\ Turn
    /\ \E screen \in Pages : Become(x, Opened(screen))
    /\ UNCHANGED <<world, session, stale>>

\* A page saved something that the shell shows and asks it to load again.
Refresh(x) ==
    /\ site = "portal" /\ Shows(x, "ok") /\ Turn
    /\ \E s \in Slot : tabs[x].loads[s].pc = "idle" /\ SetLoad(x, s, Asking)
    /\ UNCHANGED <<world, session, stale>>

\* Mutant: onSwitched is not called.
SwitchUnloaded(x, t) ==
    /\ site = "portal" /\ (Shows(x, "ok") \/ Shows(x, "blocked")) /\ Turn
    /\ t \in tabs[x].data.me.tenants \ {tabs[x].data.me.tenant}
    /\ \/ Unauthorized(x) /\ UNCHANGED <<session, stale>>
       \/ Select(t) /\ UNCHANGED tabs
          /\ stale' = stale \cup (IF Quiet(x) THEN Tab \ {x} ELSE Tab)
    /\ UNCHANGED world

\* TenantSwitcher, and the buttons of the blocked screen: the tenant that the
\* shell names is not selected again; a refusal goes nowhere.
Switch(x, t) ==
    /\ site = "portal" /\ (Shows(x, "ok") \/ Shows(x, "blocked")) /\ Turn
    /\ t \in tabs[x].data.me.tenants \ {tabs[x].data.me.tenant}
    /\ \/ Unauthorized(x) /\ UNCHANGED <<session, stale>>
       \/ UNCHANGED <<tabs, session, stale>>
       \/ /\ Select(t)
          /\ \E s \in Slot : tabs[x].loads[s].pc = "idle" /\ SetLoad(x, s, Asking)
          /\ stale' = stale \cup (IF Quiet(x) THEN Tab \ {x} ELSE Tab)
    /\ UNCHANGED world

\* Mutant: the session loses its user and is not ended.
SignOutHalf(x) ==
    /\ Shows(x, "ok") \/ Shows(x, "blocked") \/ Shows(x, "gate") \/ Shows(x, "denied")
    /\ Turn
    /\ session' = [NoSession EXCEPT !.state = "live"] /\ ChangedBy(x)
    /\ Become(x, Mounted("login"))
    /\ UNCHANGED world

\* The request may fail; the tab goes to the login page all the same.
SignOut(x) ==
    /\ Shows(x, "ok") \/ Shows(x, "blocked") \/ Shows(x, "gate") \/ Shows(x, "denied")
    /\ Turn
    /\ \/ session' = NoSession /\ ChangedBy(x)
       \/ UNCHANGED <<session, stale>>
    /\ Become(x, Mounted("login"))
    /\ UNCHANGED world

\* PasswordGate: the new password is set, or refused; an administrator in the
\* name of the user is always refused.  The button waits for the load.
ChangePassword(x) ==
    /\ site = "portal" /\ Shows(x, "gate") /\ Quiet(x) /\ Turn
    /\ \/ Unauthorized(x) /\ UNCHANGED temp
       \/ /\ Live /\ ~session.by
          /\ temp' = temp \ {session.user}
          /\ \E s \in Slot : tabs[x].loads[s].pc = "idle" /\ SetLoad(x, s, Asking)
       \/ UNCHANGED <<tabs, temp>>
    /\ UNCHANGED <<site, session, member, suspended, admins, bare, stale>>

\* The password of u, and in the panel that u is an administrator; one who is
\* not is signed out again, if that request succeeds.
Login(x, u) ==
    /\ tabs[x].screen = "login" /\ Turn
    /\ session' \in {[state |-> "live", user |-> u, tenant |-> None, by |-> FALSE]}
                    \cup (IF site = "panel" /\ u \notin admins THEN {NoSession} ELSE {})
    /\ IF site = "portal" \/ u \in admins
       THEN Become(x, Mounted("shell")) ELSE UNCHANGED tabs
    /\ ChangedBy(x)
    /\ UNCHANGED world

\* Signup and CreateTenant make a tenant with its first member.
Founds(u, t) ==
    /\ \A v \in User : t \notin member[v]
    /\ member' = [member EXCEPT ![u] = @ \cup {t}]

\* The user, the tenant and the session, whose tenant it is; then the store.
\* The session may fail when the others are there already.
Signup(x, u, t) ==
    /\ tabs[x].screen = "signup" /\ Turn
    /\ member[u] = {} /\ u \notin temp \cup Staff /\ Founds(u, t)
    /\ \/ session' = [state |-> "live", user |-> u, tenant |-> t, by |-> FALSE]
          /\ Become(x, Mounted("shell"))
       \/ UNCHANGED <<session, tabs>>
    /\ ChangedBy(x)
    /\ UNCHANGED <<site, suspended, temp, admins, bare>>

\* The page of a user without a tenant: the tenant is made in one request and
\* selected in another, which may fail and leaves the page where it is.
NewOrg(x, t) ==
    /\ tabs[x].screen = "org" /\ Turn
    /\ \/ Unauthorized(x) /\ UNCHANGED <<member, session, stale>>
       \/ /\ Live /\ Founds(session.user, t) /\ ChangedBy(x)
          /\ \/ session' = [session EXCEPT !.tenant = t] /\ Become(x, Mounted("shell"))
             \/ UNCHANGED <<session, tabs>>
    /\ UNCHANGED <<site, suspended, temp, admins, bare>>

\* The wizard: a token is typed; the administrator is made, or the server does
\* not know the token any more.
Setup(x) ==
    /\ tabs[x].screen = "setup" /\ tabs[x].step \in {"token", "form"} /\ Turn
    /\ IF tabs[x].step = "token"
       THEN tabs' = [tabs EXCEPT ![x].step = "form"] /\ UNCHANGED <<bare, admins>>
       ELSE \/ tabs' = [tabs EXCEPT ![x].step = "token"] /\ UNCHANGED <<bare, admins>>
            \/ /\ bare /\ bare' = FALSE
               /\ admins' = Staff
               /\ tabs' = [tabs EXCEPT ![x].step = "done"]
    /\ UNCHANGED <<site, session, member, suspended, temp, stale>>

\* An administrator of the platform opens a tab in the name of u.
Handover(x, u, t) ==
    /\ site = "portal" /\ admins # {} /\ Turn
    /\ t \in member[u] /\ u \notin admins
    /\ session' = [state |-> "live", user |-> u, tenant |-> t, by |-> TRUE]
    /\ Become(x, Mounted("shell"))
    /\ ChangedBy(x)
    /\ UNCHANGED world

-----------------------------------------------------------------------------
(* What others do.                                                         *)

\* The session runs out, is idle for too long, or is deleted.
Expire ==
    /\ Live /\ Turn /\ End
    /\ stale' = Tab
    /\ UNCHANGED <<world, tabs>>

\* The sessions in a tenant that is closed are deleted afterwards, if that does
\* not fail.
Suspend(t) ==
    /\ t \notin suspended /\ Turn
    /\ suspended' = suspended \cup {t}
    /\ \/ session.tenant = t /\ Live /\ End
       \/ UNCHANGED session
    /\ stale' = Tab
    /\ UNCHANGED <<site, member, temp, admins, bare, tabs>>

Reopen(t) ==
    /\ t \in suspended /\ Turn
    /\ suspended' = suspended \ {t}
    /\ UNCHANGED <<site, session, member, temp, admins, bare, tabs, stale>>

RemoveMember(u, t) ==
    /\ t \in member[u] /\ Turn
    /\ member' = [member EXCEPT ![u] = @ \ {t}]
    /\ stale' = Tab
    /\ UNCHANGED <<site, session, suspended, temp, admins, bare, tabs>>

Others ==
    \/ Expire
    \/ \E t \in Tenant : Suspend(t) \/ Reopen(t) \/ \E u \in User : RemoveMember(u, t)

Requests(x) ==
    \/ \E s \in Slot : LoadMe(x, s) \/ LoadSelect(x, s) \/ LoadMenu(x, s)
    \/ PanelLoad(x)
    \/ Probe(x)
    \/ Status(x)

Acts(x) ==
    \/ Open(x) \/ Refresh(x) \/ SignOut(x) \/ ChangePassword(x) \/ Setup(x)
    \/ \E t \in Tenant : Switch(x, t) \/ NewOrg(x, t)
    \/ \E u \in User : Login(x, u)
    \/ \E u \in User, t \in Tenant : Signup(x, u, t) \/ Handover(x, u, t)

Next ==
    \/ \E x \in Tab : Requests(x) \/ Acts(x)
    \/ Others

\* Every request is answered or fails; nobody has to do anything.
Fairness == \A x \in Tab : WF_vars(Requests(x))

Spec == Init /\ [][Next]_vars /\ Fairness

-----------------------------------------------------------------------------
\* Types.
TypeOK ==
    /\ site \in Sites
    /\ session \in Session
    /\ Live => session.user \in User
    /\ member \in [User -> SUBSET Tenant]
    /\ suspended \in SUBSET Tenant
    /\ temp \in SUBSET User
    /\ admins \in SUBSET User
    /\ bare \in BOOLEAN
    /\ tabs \in [Tab -> Document]
    /\ stale \in SUBSET Tab
    /\ turns \in 0 .. MaxTurns

\* The shell names the user and the tenant in whose name the server will take
\* its pages' writes, unless another tab, another person, or a load that began
\* before a switch came between.
ShellNamesSession ==
    \A x \in Tab :
        Shows(x, "ok") /\ Quiet(x) /\ x \notin stale
        => Live /\ tabs[x].data.me.user = session.user
                /\ (site = "portal" => tabs[x].data.me.tenant = Active)

\* The blocked screen says that the platform has closed the tenant
\* (shell.tsx:98-101): a user with a temporary password never gets there, at
\* worst one who was removed from the tenant, or whose cookie another tab has given
\* to somebody else, during the load.
BlockedIsClosed ==
    \A x \in Tab : tabs[x].data.kind = "blocked"
                     => tabs[x].data.cause \in {"suspended", "left", "another"}

\* No screen loads forever (api.ts:25): a shell that waits for nothing shows
\* something, and so does the wizard.
NothingSpins ==
    \A x \in Tab :
        Quiet(x) => /\ tabs[x].screen = "shell" => tabs[x].failed \/ ~Shows(x, "nothing")
                    /\ tabs[x].screen = "setup" => tabs[x].step # "ask"

\* What a load has still to ask, when nobody acts: a session without a tenant
\* selects one and begins again; one that is over is found out by the next request.
ToGo(load) ==
    CASE load.pc = "idle" -> {}
      [] load.pc = "menu" -> {"menu"}
      [] load.pc \in {"me", "select"} /\ ~Live -> {"menu"}
      [] load.pc = "select" /\ Live -> {"select", "again", "menu"}
      [] load.pc = "me" /\ Live -> {"again", "menu"}
                                  \cup IF Active = None THEN {"me", "select"} ELSE {}

\* The load of a slot; a login page that still looks finds a live session and
\* becomes a shell.
Due(x, s) ==
    IF s = 1 /\ Live /\ "me" \in tabs[x].asks THEN Asking ELSE tabs[x].loads[s]

\* What x has still to ask outside its loads; a load of a session that is over
\* leads to the login page.
OnPage(x) ==
    LET Expelled == ~Live /\ \E s \in Slot : tabs[x].loads[s].pc # "idle"
        Asks(r) == r \in tabs[x].asks \/ Expelled
    IN  {r \in {"probe", "status", "setup"} :
           CASE r = "probe" -> Asks("me")
             [] r = "status" -> Asks("status") /\ tabs[x].screen # "setup"
             [] r = "setup" -> Asks("status")}

Ahead(x) ==
    {q \in Slot \X {"me", "select", "again", "menu"} : q[2] \in ToGo(Due(x, q[1]))}
    \cup ({0} \X OnPage(x))

\* The login page and the shell do not send the browser to each other in a
\* circle, whatever the server refuses (00-decisions.md:168-171): without an act
\* of somebody, what the tabs may still ask is never more than before, and every
\* answer makes it less, whatever a tab does to the session that the others have.
NoLoop ==
    [][turns' = turns => /\ \A x \in Tab : Ahead(x)' \subseteq Ahead(x)
                         /\ \E x \in Tab : Ahead(x)' # Ahead(x)]_vars

\* The pages come to rest: the login page and the shell do not send the browser
\* to each other forever, whatever the server refuses (00-decisions.md:168-171).
ComesToRest == []<>(\A x \in Tab : Quiet(x))
=============================================================================
