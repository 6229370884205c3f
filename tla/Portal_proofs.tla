---------------------------- MODULE Portal_proofs ----------------------------
(***************************************************************************)
(* Proofs about Portal.  A step of one tab changes the document of that    *)
(* tab alone, and what a screen claims is about its own document and the   *)
(* session; so the invariant is a property Good(x) of each tab, and a step *)
(* of a tab is proved for that tab once the other tabs are framed.         *)
(***************************************************************************)
EXTENDS Portal, FiniteSetTheorems, TLAPS

-----------------------------------------------------------------------------
(* Types.                                                                  *)

Screens == {"landing", "login", "signup", "setup", "org", "shell"}

ServerTyped ==
    /\ site \in Sites
    /\ member \in [User -> SUBSET Tenant]
    /\ suspended \in SUBSET Tenant
    /\ temp \in SUBSET User
    /\ admins \in SUBSET User
    /\ bare \in BOOLEAN
    /\ stale \in SUBSET Tab
    /\ turns \in 0 .. MaxTurns

SessionTyped == session \in Session /\ (Live => session.user \in User)

TabsTyped == tabs \in [Tab -> Document]

TInv == ServerTyped /\ SessionTyped /\ TabsTyped

LEMMA MountedTyped == ASSUME NEW screen \in Screens PROVE Mounted(screen) \in Document
<1>1. Asking \in Load /\ Idle \in Load
  BY DEF Asking, Idle, Load, Nobody, Me
<1>2. Nothing \in Data
  BY DEF Nothing, Nobody, Data, Me
<1>3. [s \in Slot |-> IF s = 1 /\ screen = "shell" THEN Asking ELSE Idle] \in [Slot -> Load]
  BY <1>1
<1> DEFINE asked == CASE screen = "login" /\ site = "portal" -> {"me", "status"}
                      [] screen = "login" /\ site = "panel" -> {"me"}
                      [] screen \in {"landing", "setup"} -> {"status"}
                      [] OTHER -> {}
<1>4. asked \in SUBSET {"me", "status"}
  <2>1. CASE screen = "login" /\ site = "portal"
    BY <2>1
  <2>2. CASE screen = "login" /\ site = "panel"
    BY <2>2
  <2>3. CASE screen \in {"landing", "setup"}
    BY <2>3
  <2> QED BY <2>1, <2>2, <2>3
<1> QED BY <1>2, <1>3, <1>4 DEF Mounted, Document, Screens

LEMMA OpenedTyped == ASSUME NEW screen \in Screens PROVE Opened(screen) \in Document
BY MountedTyped DEF Opened, Screens

LEMMA BecomeTyped ==
    ASSUME TabsTyped, NEW x \in Tab, NEW doc \in Document, Become(x, doc) PROVE TabsTyped'
BY DEF TabsTyped, Become

LEMMA SetLoadTyped ==
    ASSUME TabsTyped, NEW x \in Tab, NEW s \in Slot, NEW load \in Load, SetLoad(x, s, load)
    PROVE  TabsTyped'
<1>1. [tabs[x] EXCEPT !.loads[s] = load] \in Document
  BY DEF TabsTyped, Document
<1> QED BY <1>1 DEF TabsTyped, SetLoad

LEMMA EndTyped ==
    ASSUME TabsTyped, NEW x \in Tab, NEW s \in Slot, NEW data \in Data,
           tabs' = [tabs EXCEPT ![x].loads[s] = Idle, ![x].data = data]
    PROVE  TabsTyped'
<1>1. Idle \in Load
  BY DEF Idle, Load, Nobody, Me
<1>2. [tabs[x] EXCEPT !.loads[s] = Idle, !.data = data] \in Document
  BY <1>1 DEF TabsTyped, Document
<1> QED BY <1>2 DEF TabsTyped

LEMMA SetFailedTyped ==
    ASSUME TabsTyped, NEW x \in Tab, NEW s \in Slot, SetFailed(x, s) PROVE TabsTyped'
<1>1. Idle \in Load
  BY DEF Idle, Load, Nobody, Me
<1>2. [tabs[x] EXCEPT !.loads[s] = Idle, !.failed = TRUE] \in Document
  BY <1>1 DEF TabsTyped, Document
<1> QED BY <1>2 DEF TabsTyped, SetFailed

LEMMA UnauthorizedTyped ==
    ASSUME TabsTyped, NEW x \in Tab, Unauthorized(x) PROVE TabsTyped'
BY OpenedTyped, BecomeTyped DEF Unauthorized, Screens

LEMMA WhoAmITyped == ASSUME TInv, Live PROVE WhoAmI \in Me
BY DEF TInv, ServerTyped, SessionTyped, Session, WhoAmI, Active, Me

LEMMA AskingTyped == Asking \in Load
BY DEF Asking, Idle, Load, Nobody, Me

\* One case per outcome of the first request of a load.
LEMMA LoadMeTyped ==
    ASSUME TInv, NEW x \in Tab, NEW s \in Slot, LoadMe(x, s) PROVE TabsTyped'
<1>1. CASE Unauthorized(x)
  BY <1>1, UnauthorizedTyped DEF TInv
<1>2. CASE SetFailed(x, s)
  BY <1>2, SetFailedTyped DEF TInv
<1>3. CASE Live /\ tabs' = [tabs EXCEPT ![x].loads[s] = Idle,
                              ![x].data = [kind |-> "gate", me |-> WhoAmI,
                                           by |-> session.by, cause |-> "none"]]
  <2>1. [kind |-> "gate", me |-> WhoAmI, by |-> session.by, cause |-> "none"] \in Data
    BY <1>3, WhoAmITyped DEF Data, TInv, SessionTyped, Session
  <2> QED BY <1>3, <2>1, EndTyped DEF TInv
<1>4. CASE Become(x, Mounted("org"))
  BY <1>4, MountedTyped, BecomeTyped DEF TInv, Screens
<1>5. CASE Live /\ \E pc \in {"select", "menu"} :
               SetLoad(x, s, [pc |-> pc, me |-> WhoAmI, by |-> session.by])
  <2>1. PICK pc \in {"select", "menu"} :
            SetLoad(x, s, [pc |-> pc, me |-> WhoAmI, by |-> session.by])
    BY <1>5
  <2>2. [pc |-> pc, me |-> WhoAmI, by |-> session.by] \in Load
    BY <1>5, WhoAmITyped DEF Load, TInv, SessionTyped, Session
  <2> QED BY <2>1, <2>2, SetLoadTyped DEF TInv
<1> QED BY <1>1, <1>2, <1>3, <1>4, <1>5 DEF LoadMe

LEMMA LoadMenuTyped ==
    ASSUME TInv, NEW x \in Tab, NEW s \in Slot, LoadMenu(x, s) PROVE TabsTyped'
<1>1. CASE Unauthorized(x)
  BY <1>1, UnauthorizedTyped DEF TInv
<1>2. CASE SetFailed(x, s)
  BY <1>2, SetFailedTyped DEF TInv
<1>3. ASSUME NEW kind \in {"ok", "blocked"},
             NEW cause \in {"none", "suspended", "left", "temporary", "another"},
             SetData(x, s, kind, cause)
      PROVE  TabsTyped'
  <2>1. [kind |-> kind, me |-> tabs[x].loads[s].me, by |-> tabs[x].loads[s].by,
         cause |-> cause] \in Data
    BY DEF Data, TInv, TabsTyped, Document, Load
  <2> QED BY <1>3, <2>1, EndTyped DEF TInv, SetData
<1>4. CauseFor(tabs[x].loads[s]) \in {"none", "suspended", "left", "temporary", "another"}
  BY DEF CauseFor, Refusal
<1> QED BY <1>1, <1>2, <1>3, <1>4 DEF LoadMenu

LEMMA LoadSelectTyped ==
    ASSUME TInv, NEW x \in Tab, NEW s \in Slot, LoadSelect(x, s)
    PROVE  TabsTyped' /\ SessionTyped' /\ stale' \in SUBSET Tab
<1>1. CASE (Unauthorized(x) \/ SetFailed(x, s)) /\ UNCHANGED <<session, stale>>
  BY <1>1, UnauthorizedTyped, SetFailedTyped
  DEF TInv, ServerTyped, SessionTyped, Session, Live
<1>2. ASSUME NEW t \in tabs[x].loads[s].me.tenants, Select(t), SetLoad(x, s, Asking), ChangedBy(x)
      PROVE  TabsTyped' /\ SessionTyped' /\ stale' \in SUBSET Tab
  <2>1. t \in Tenant
    BY DEF TInv, TabsTyped, Document, Load, Me
  <2> QED
    BY <1>2, <2>1, SetLoadTyped, AskingTyped
    DEF TInv, ServerTyped, SessionTyped, Session, Live, Select, ChangedBy
<1> QED BY <1>1, <1>2 DEF LoadSelect

LEMMA PanelLoadTyped == ASSUME TInv, NEW x \in Tab, PanelLoad(x) PROVE TabsTyped'
<1>0. 1 \in Slot
  BY BoundsAssumption DEF Slot
<1>1. CASE Unauthorized(x)
  BY <1>1, UnauthorizedTyped DEF TInv
<1>2. CASE SetFailed(x, 1)
  BY <1>0, <1>2, SetFailedTyped DEF TInv
<1>3. ASSUME NEW kind \in {"ok", "denied"}, Live,
             tabs' = [tabs EXCEPT ![x].loads[1] = Idle,
                        ![x].data = [kind |-> kind, me |-> WhoAmI, by |-> session.by,
                                     cause |-> "none"]]
      PROVE  TabsTyped'
  <2>1. [kind |-> kind, me |-> WhoAmI, by |-> session.by, cause |-> "none"] \in Data
    BY <1>3, WhoAmITyped DEF Data, TInv, SessionTyped, Session
  <2> QED BY <1>0, <1>3, <2>1, EndTyped DEF TInv
<1> QED BY <1>1, <1>2, <1>3 DEF PanelLoad

LEMMA ProbeTyped == ASSUME TInv, NEW x \in Tab, Probe(x) PROVE TabsTyped'
<1>1. CASE \E doc \in Document : Become(x, doc)
  BY <1>1, BecomeTyped DEF TInv
<1>2. CASE tabs' = [tabs EXCEPT ![x].asks = @ \ {"me"}]
  <2>1. [tabs[x] EXCEPT !.asks = @ \ {"me"}] \in Document
    BY DEF TInv, TabsTyped, Document
  <2> QED BY <1>2, <2>1 DEF TInv, TabsTyped
<1> QED BY <1>1, <1>2, OpenedTyped, MountedTyped DEF Probe, Screens

LEMMA StatusTyped == ASSUME TInv, NEW x \in Tab, Status(x) PROVE TabsTyped'
<1>1. CASE Become(x, Mounted("setup"))
  BY <1>1, BecomeTyped, MountedTyped DEF TInv, Screens
<1>2. CASE tabs' = [tabs EXCEPT ![x].asks = @ \ {"status"}]
  <2>1. [tabs[x] EXCEPT !.asks = @ \ {"status"}] \in Document
    BY DEF TInv, TabsTyped, Document
  <2> QED BY <1>2, <2>1 DEF TInv, TabsTyped
<1>3. ASSUME NEW step \in {"token", "form", "closed"},
             tabs' = [tabs EXCEPT ![x].asks = {}, ![x].step = step]
      PROVE  TabsTyped'
  <2>1. [tabs[x] EXCEPT !.asks = {}, !.step = step] \in Document
    BY DEF TInv, TabsTyped, Document
  <2> QED BY <1>3, <2>1 DEF TInv, TabsTyped
<1> QED
  <2>1. PICK required \in {bare, FALSE} :
          CASE tabs[x].screen = "setup" ->
                 \E step \in IF required THEN {"token", "form", "closed"} ELSE {"closed"} :
                    tabs' = [tabs EXCEPT ![x].asks = {}, ![x].step = step]
            [] tabs[x].screen # "setup" /\ required -> Become(x, Mounted("setup"))
            [] OTHER -> tabs' = [tabs EXCEPT ![x].asks = @ \ {"status"}]
    BY DEF Status
  <2>2. CASE tabs[x].screen = "setup"
    BY <1>3, <2>1, <2>2
  <2>3. CASE tabs[x].screen # "setup" /\ required
    BY <1>1, <2>1, <2>3
  <2>4. CASE tabs[x].screen # "setup" /\ ~required
    BY <1>2, <2>1, <2>4
  <2> QED BY <2>2, <2>3, <2>4 DEF TInv, ServerTyped

LEMMA RequestsTyped == ASSUME TInv, NEW x \in Tab, Requests(x) PROVE TInv'
<1>1. TabsTyped' /\ stale' \in SUBSET Tab
  BY LoadMeTyped, LoadMenuTyped, LoadSelectTyped, PanelLoadTyped, ProbeTyped, StatusTyped
  DEF Requests, LoadMe, LoadMenu, LoadSelect, PanelLoad, Probe, Status, TInv, ServerTyped
<1>2. SessionTyped'
  <2>1. CASE UNCHANGED session
    BY <2>1 DEF TInv, SessionTyped, Session, Live
  <2> QED
    BY <2>1, LoadSelectTyped
    DEF Requests, LoadMe, LoadMenu, PanelLoad, Probe, Status
<1>3. UNCHANGED <<world, turns>>
  BY DEF Requests, LoadMe, LoadMenu, LoadSelect, PanelLoad, Probe, Status
<1> QED BY <1>1, <1>2, <1>3 DEF TInv, ServerTyped, world

LEMMA SelectTyped ==
    ASSUME TInv, NEW t \in Tenant, Select(t) PROVE SessionTyped'
BY DEF TInv, SessionTyped, Session, Live, Select

LEMMA SameSessionTyped == ASSUME TInv, UNCHANGED session PROVE SessionTyped'
BY DEF TInv, SessionTyped, Session, Live

\* A session that is over, or another one.
LEMMA NewSessionTyped ==
    ASSUME TInv, NEW u \in User, NEW t \in Tenant \cup {None}, NEW by \in BOOLEAN,
           session' \in {session, NoSession, [session EXCEPT !.state = "dead"],
                         [state |-> "live", user |-> u, tenant |-> t, by |-> by]}
    PROVE  SessionTyped'
<1>1. CASE session' = session
  BY <1>1, SameSessionTyped
<1>2. CASE session' = NoSession
  BY <1>2 DEF SessionTyped, Session, NoSession, Live
<1>3. CASE session' = [session EXCEPT !.state = "dead"]
  BY <1>3 DEF TInv, SessionTyped, Session, Live
<1>4. CASE session' = [state |-> "live", user |-> u, tenant |-> t, by |-> by]
  BY <1>4 DEF SessionTyped, Session, Live
<1> QED BY <1>1, <1>2, <1>3, <1>4

LEMMA EndedTyped == ASSUME TInv, session' \in {session, NoSession} \/ End PROVE SessionTyped'
<1>1. CASE session' = session
  BY <1>1, SameSessionTyped
<1>2. CASE session' = NoSession
  BY <1>2 DEF SessionTyped, Session, NoSession, Live
<1>3. CASE End
  BY <1>3 DEF End, TInv, SessionTyped, Session, Live
<1> QED BY <1>1, <1>2, <1>3

LEMMA TurnTyped == ASSUME TInv, Turn PROVE turns' \in 0 .. MaxTurns
BY BoundsAssumption DEF TInv, ServerTyped, Turn

LEMMA LoadAgainTyped ==
    ASSUME TInv, NEW x \in Tab, NEW s \in Slot, SetLoad(x, s, Asking) PROVE TabsTyped'
BY AskingTyped, SetLoadTyped DEF TInv

LEMMA SetupTyped == ASSUME TInv, NEW x \in Tab, Setup(x) PROVE TInv'
<1>1. ASSUME NEW step \in {"token", "form", "done"}, tabs' = [tabs EXCEPT ![x].step = step]
      PROVE  TabsTyped'
  <2>1. [tabs[x] EXCEPT !.step = step] \in Document
    BY DEF TInv, TabsTyped, Document
  <2> QED BY <1>1, <2>1 DEF TInv, TabsTyped
<1>2. TabsTyped'
  BY <1>1 DEF Setup
<1>3. SessionTyped'
  BY SameSessionTyped DEF Setup
<1>4. ServerTyped'
  BY StartAssumption, TurnTyped DEF Setup, TInv, ServerTyped
<1> QED BY <1>2, <1>3, <1>4 DEF TInv

\* What is left of ServerTyped when the tab does not touch the members.
LEMMA WorldTyped ==
    ASSUME TInv, NEW x \in Tab, Turn, UNCHANGED world,
           stale' \in {stale, stale \cup (Tab \ {x}), Tab, stale \cup Tab}
    PROVE  ServerTyped'
BY TurnTyped DEF TInv, ServerTyped, world

LEMMA FoundsTyped ==
    ASSUME TInv, NEW u \in User, NEW t \in Tenant, Founds(u, t)
    PROVE  member' \in [User -> SUBSET Tenant]
<1>1. member \in [User -> SUBSET Tenant]
  BY DEF TInv, ServerTyped
<1>2. member' = [member EXCEPT ![u] = member[u] \cup {t}]
  BY DEF Founds
<1> QED BY <1>1, <1>2

LEMMA ActsTyped == ASSUME TInv, NEW x \in Tab, Acts(x) PROVE TInv'
<1>1. CASE Open(x)
  <2>1. \A screen \in Pages : screen \in Screens
    BY DEF Pages, Screens
  <2>2. TabsTyped'
    BY <1>1, <2>1, OpenedTyped, BecomeTyped DEF Open, TInv
  <2> QED BY <1>1, <2>2, SameSessionTyped, WorldTyped DEF Open, TInv
<1>2. CASE Refresh(x)
  <2>1. TabsTyped'
    BY <1>2, LoadAgainTyped DEF Refresh
  <2> QED BY <1>2, <2>1, SameSessionTyped, WorldTyped DEF Refresh, TInv
<1>3. CASE SignOut(x)
  <2>1. TabsTyped'
    BY <1>3, MountedTyped, BecomeTyped DEF SignOut, TInv, Screens
  <2>2. SessionTyped'
    BY <1>3, EndedTyped DEF SignOut
  <2> QED BY <1>3, <2>1, <2>2, WorldTyped DEF SignOut, ChangedBy, TInv
<1>4. CASE ChangePassword(x)
  <2>1. TabsTyped'
    BY <1>4, UnauthorizedTyped, LoadAgainTyped DEF ChangePassword, TInv, TabsTyped
  <2>2. SessionTyped'
    BY <1>4, SameSessionTyped DEF ChangePassword
  <2>3. ServerTyped'
    BY <1>4, TurnTyped DEF ChangePassword, TInv, ServerTyped
  <2> QED BY <2>1, <2>2, <2>3 DEF TInv
<1>5. CASE Setup(x)
  BY <1>5, SetupTyped
<1>6. ASSUME NEW t \in Tenant, Switch(x, t) PROVE TInv'
  <2>1. TabsTyped'
    BY <1>6, UnauthorizedTyped, LoadAgainTyped DEF Switch, TInv, TabsTyped
  <2>2. SessionTyped'
    BY <1>6, SelectTyped, SameSessionTyped DEF Switch
  <2> QED BY <1>6, <2>1, <2>2, WorldTyped DEF Switch, TInv
<1>7. ASSUME NEW t \in Tenant, NewOrg(x, t) PROVE TInv'
  <2>1. TabsTyped'
    BY <1>7, UnauthorizedTyped, MountedTyped, BecomeTyped
    DEF NewOrg, TInv, TabsTyped, Screens
  <2>2. CASE Unauthorized(x) /\ UNCHANGED <<member, session, stale>>
    BY <1>7, <2>1, <2>2, SameSessionTyped, TurnTyped DEF NewOrg, TInv, ServerTyped
  <2>3. CASE Live /\ Founds(session.user, t) /\ ChangedBy(x)
             /\ session' \in {session, [session EXCEPT !.tenant = t]}
    <3>1. SessionTyped'
      BY <2>3, SameSessionTyped DEF TInv, SessionTyped, Session, Live
    <3>2. member' \in [User -> SUBSET Tenant]
      BY <2>3, FoundsTyped DEF TInv, SessionTyped
    <3> QED BY <1>7, <2>1, <2>3, <3>1, <3>2, TurnTyped DEF NewOrg, ChangedBy, TInv, ServerTyped
  <2> QED BY <1>7, <2>2, <2>3 DEF NewOrg
<1>8. ASSUME NEW u \in User, Login(x, u) PROVE TInv'
  <2>1. TabsTyped'
    BY <1>8, MountedTyped, BecomeTyped DEF Login, TInv, TabsTyped, Screens
  <2>2. SessionTyped'
    <3>1. session' \in {NoSession, [state |-> "live", user |-> u, tenant |-> None, by |-> FALSE]}
      BY <1>8 DEF Login
    <3> QED BY <3>1, NewSessionTyped
  <2> QED BY <1>8, <2>1, <2>2, WorldTyped DEF Login, ChangedBy, TInv
<1>9. ASSUME NEW u \in User, NEW t \in Tenant, Signup(x, u, t) PROVE TInv'
  <2>1. TabsTyped'
    BY <1>9, MountedTyped, BecomeTyped DEF Signup, TInv, TabsTyped, Screens
  <2>2. SessionTyped'
    BY <1>9, NewSessionTyped DEF Signup
  <2>3. member' \in [User -> SUBSET Tenant]
    BY <1>9, FoundsTyped DEF Signup
  <2> QED BY <1>9, <2>1, <2>2, <2>3, TurnTyped DEF Signup, ChangedBy, TInv, ServerTyped
<1>10. ASSUME NEW u \in User, NEW t \in Tenant, Handover(x, u, t) PROVE TInv'
  <2>1. TabsTyped'
    BY <1>10, MountedTyped, BecomeTyped DEF Handover, TInv, Screens
  <2>2. SessionTyped'
    BY <1>10, NewSessionTyped DEF Handover
  <2> QED BY <1>10, <2>1, <2>2, WorldTyped DEF Handover, ChangedBy, TInv
<1> QED BY <1>1, <1>2, <1>3, <1>4, <1>5, <1>6, <1>7, <1>8, <1>9, <1>10 DEF Acts

LEMMA OthersTyped == ASSUME TInv, Others PROVE TInv'
<1>1. SessionTyped' /\ UNCHANGED tabs /\ stale' \in {stale, Tab}
  BY EndedTyped DEF Others, Expire, Suspend, Reopen, RemoveMember
<1>2. member' \in [User -> SUBSET Tenant]
  <2>1. ASSUME NEW u \in User, NEW t \in Tenant, RemoveMember(u, t)
        PROVE  member' \in [User -> SUBSET Tenant]
    <3>1. member' = [member EXCEPT ![u] = member[u] \ {t}]
      BY <2>1 DEF RemoveMember
    <3> QED BY <3>1 DEF TInv, ServerTyped
  <2> QED BY <2>1 DEF Others, Expire, Suspend, Reopen, RemoveMember, TInv, ServerTyped, world
<1>3. UNCHANGED <<site, temp, admins, bare>> /\ suspended' \in SUBSET Tenant
      /\ turns' \in 0 .. MaxTurns
  BY TurnTyped DEF Others, Expire, Suspend, Reopen, RemoveMember, TInv, ServerTyped, world
<1> QED BY <1>1, <1>2, <1>3 DEF TInv, ServerTyped, TabsTyped

LEMMA InitTyped == Init => TInv
<1> SUFFICES ASSUME Init PROVE TInv
  OBVIOUS
<1>1. TabsTyped
  <2>1. [Mounted("login") EXCEPT !.asks = {}] \in Document
    BY MountedTyped DEF Screens, Document
  <2> QED BY <2>1 DEF Init, TabsTyped
<1>2. SessionTyped
  BY DEF Init, SessionTyped, Session, NoSession, Live
<1>3. ServerTyped
  BY StartAssumption, BoundsAssumption DEF Init, ServerTyped
<1> QED BY <1>1, <1>2, <1>3 DEF TInv

LEMMA StepTyped == TInv /\ [Next]_vars => TInv'
<1>1. ASSUME TInv, UNCHANGED vars PROVE TInv'
  BY <1>1, SameSessionTyped DEF vars, TInv, ServerTyped, TabsTyped
<1> QED BY <1>1, RequestsTyped, ActsTyped, OthersTyped DEF Next

\* Every variable has its type, and a live session has a user.
THEOREM TypeCorrect == Spec => []TypeOK
<1>1. TInv => TypeOK
  BY DEF TInv, ServerTyped, SessionTyped, TabsTyped, TypeOK
<1> QED BY InitTyped, StepTyped, <1>1, PTL DEF Spec

-----------------------------------------------------------------------------
(* What is true of each tab.                                               *)

Waits(x) == \E s \in Slot : tabs[x].loads[s].pc # "idle"

\* Loads run in shells, and the panel's have one request.
InShell(x) ==
    \A s \in Slot : tabs[x].loads[s].pc # "idle"
                      => /\ tabs[x].screen = "shell"
                         /\ site = "panel" => tabs[x].loads[s].pc = "me"

\* A load past its first request knows the session; one that is about to select
\* a tenant will select the tenant that is selected already, if there is one.
LoadKnows(x, s) ==
    LET load == tabs[x].loads[s] IN
    /\ load.pc \in {"select", "menu"} => Live /\ load.me.user = session.user
    /\ load.pc = "select" => /\ load.me.tenants = member[session.user]
                             /\ Active = None \/ First(Active, member[session.user])
    /\ load.pc = "menu" => load.me.tenant = Active /\ Active # None

Knows(x) == x \notin stale => \A s \in Slot : LoadKnows(x, s)

Named(me) == /\ Live
             /\ me.user = session.user
             /\ site = "portal" => me.tenant = Active

Names(x) == x \notin stale /\ Shows(x, "ok") /\ ~Waits(x) => Named(tabs[x].data.me)

Awake(x) ==
    /\ tabs[x].screen = "shell" => tabs[x].failed \/ tabs[x].data.kind # "nothing" \/ Waits(x)
    /\ tabs[x].screen = "setup" => tabs[x].step # "ask" \/ "status" \in tabs[x].asks

\* A load that asks for the menu has passed the gate, and nobody's password
\* becomes temporary again.
PastGate(x) ==
    /\ \A s \in Slot : tabs[x].loads[s].pc = "menu" => tabs[x].loads[s].me.user \notin temp
    /\ tabs[x].data.kind = "blocked"
         => tabs[x].data.cause \in {"suspended", "left", "another"}

Good(x) == InShell(x) /\ Knows(x) /\ Names(x) /\ Awake(x) /\ PastGate(x)

SInv == \A x \in Tab : Good(x)

\* A tab that nothing happens to.
LEMMA Frame ==
    ASSUME SInv, NEW y \in Tab, tabs'[y] = tabs[y], UNCHANGED site, temp' \subseteq temp,
           y \notin stale' => y \notin stale /\ UNCHANGED <<session, member>>
    PROVE  Good(y)'
<1>1. Good(y)
  BY DEF SInv
<1>2. InShell(y)' /\ Awake(y)' /\ PastGate(y)'
  BY <1>1 DEF Good, InShell, Awake, PastGate, Waits
<1>3. Knows(y)'
  BY <1>1 DEF Good, Knows, LoadKnows, Live, Active, First
<1>4. Names(y)'
  BY <1>1 DEF Good, Names, Named, Shows, Waits, Live, Active
<1> QED BY <1>2, <1>3, <1>4 DEF Good

\* A new document.
LEMMA Fresh ==
    ASSUME NEW x \in Tab, NEW screen \in Screens, tabs'[x] = Mounted(screen) PROVE Good(x)'
<1>0. 1 \in Slot
  BY BoundsAssumption DEF Slot
<1>1. /\ tabs'[x].screen = screen
      /\ tabs'[x].data.kind = "nothing"
      /\ \A s \in Slot : tabs'[x].loads[s].pc \in {"idle", "me"}
      /\ screen # "shell" => \A s \in Slot : tabs'[x].loads[s].pc = "idle"
      /\ screen = "shell" => tabs'[x].loads[1].pc = "me"
  BY <1>0 DEF Mounted, Nothing, Idle, Asking
<1>2. screen = "setup" => "status" \in tabs'[x].asks
  BY DEF Mounted
<1> QED
  BY <1>0, <1>1, <1>2
  DEF Good, InShell, Knows, LoadKnows, Names, Shows, Awake, PastGate, Waits

LEMMA BecomeGood ==
    ASSUME TInv, NEW x \in Tab, NEW screen \in Screens,
           Become(x, Mounted(screen)) \/ Become(x, Opened(screen))
    PROVE  Good(x)' /\ \A y \in Tab \ {x} : tabs'[y] = tabs[y]
<1>1. PICK other \in Screens : Become(x, Mounted(other))
  BY DEF Opened, Screens
<1>2. tabs'[x] = Mounted(other) /\ \A y \in Tab \ {x} : tabs'[y] = tabs[y]
  BY <1>1 DEF Become, TInv, TabsTyped
<1> QED BY <1>2, Fresh

LEMMA UnauthorizedGood ==
    ASSUME TInv, NEW x \in Tab, Unauthorized(x)
    PROVE  Good(x)' /\ \A y \in Tab \ {x} : tabs'[y] = tabs[y]
BY BecomeGood DEF Unauthorized, Screens

-----------------------------------------------------------------------------
(* The effects of a request on the document.                               *)

LEMMA SetLoadEffect ==
    ASSUME TabsTyped, NEW x \in Tab, NEW s \in Slot, NEW load, SetLoad(x, s, load)
    PROVE  /\ \A y \in Tab \ {x} : tabs'[y] = tabs[y]
           /\ tabs'[x].loads[s] = load
           /\ \A r \in Slot \ {s} : tabs'[x].loads[r] = tabs[x].loads[r]
           /\ tabs'[x].screen = tabs[x].screen
           /\ tabs'[x].data = tabs[x].data
           /\ tabs'[x].failed = tabs[x].failed
           /\ tabs'[x].asks = tabs[x].asks
           /\ tabs'[x].step = tabs[x].step
BY DEF TabsTyped, Document, SetLoad

LEMMA EndEffect ==
    ASSUME TabsTyped, NEW x \in Tab, NEW s \in Slot, NEW data,
           tabs' = [tabs EXCEPT ![x].loads[s] = Idle, ![x].data = data]
    PROVE  /\ \A y \in Tab \ {x} : tabs'[y] = tabs[y]
           /\ tabs'[x].loads[s] = Idle
           /\ \A r \in Slot \ {s} : tabs'[x].loads[r] = tabs[x].loads[r]
           /\ tabs'[x].screen = tabs[x].screen
           /\ tabs'[x].data = data
           /\ tabs'[x].failed = tabs[x].failed
           /\ tabs'[x].asks = tabs[x].asks
           /\ tabs'[x].step = tabs[x].step
BY DEF TabsTyped, Document

LEMMA FailedEffect ==
    ASSUME TabsTyped, NEW x \in Tab, NEW s \in Slot, SetFailed(x, s)
    PROVE  /\ \A y \in Tab \ {x} : tabs'[y] = tabs[y]
           /\ tabs'[x].loads[s] = Idle
           /\ \A r \in Slot \ {s} : tabs'[x].loads[r] = tabs[x].loads[r]
           /\ tabs'[x].screen = tabs[x].screen
           /\ tabs'[x].data = tabs[x].data
           /\ tabs'[x].failed = TRUE
           /\ tabs'[x].asks = tabs[x].asks
           /\ tabs'[x].step = tabs[x].step
BY DEF TabsTyped, Document, SetFailed

\* The tab learns of the session, when none of its other loads knows an older one.
OwnStale(x, s) ==
    \/ stale' = stale
    \/ stale' = stale \ {x} /\ (site = "panel" \/ ~OtherLoads(x, s))

LEMMA OthersKnow ==
    ASSUME SInv, NEW x \in Tab, NEW s \in Slot, OwnStale(x, s), x \notin stale',
           NEW r \in Slot \ {s}
    PROVE  LoadKnows(x, r)
<1>1. Good(x)
  BY DEF SInv
<1>2. CASE stale' = stale
  BY <1>1, <1>2 DEF Good, Knows
<1>3. CASE site = "panel" \/ ~OtherLoads(x, s)
  BY <1>1, <1>3 DEF Good, InShell, LoadKnows, OtherLoads
<1> QED BY <1>2, <1>3 DEF OwnStale

LEMMA FailedGood ==
    ASSUME TInv, SInv, NEW x \in Tab, NEW s \in Slot, SetFailed(x, s), OwnStale(x, s),
           UNCHANGED <<site, session, member, temp>>
    PROVE  Good(x)'
<1>1. Good(x)
  BY DEF SInv
<1>0. /\ tabs'[x].loads[s] = Idle
      /\ \A r \in Slot \ {s} : tabs'[x].loads[r] = tabs[x].loads[r]
      /\ tabs'[x].failed = TRUE
      /\ tabs'[x].data = tabs[x].data
      /\ tabs'[x].screen = tabs[x].screen
      /\ tabs'[x].asks = tabs[x].asks
      /\ tabs'[x].step = tabs[x].step
  BY FailedEffect DEF TInv
<1>9. Idle.pc = "idle"
  BY DEF Idle
<1>2. tabs'[x].loads[s].pc = "idle"
  BY <1>0, <1>9
<1>3. InShell(x)'
  BY <1>1, <1>0, <1>2 DEF Good, InShell
<1>4. Awake(x)'
  BY <1>1, <1>0, <1>2 DEF Good, Awake
<1>5. PastGate(x)'
  BY <1>1, <1>0, <1>2 DEF Good, PastGate
<1>6. Names(x)'
  BY <1>0, <1>2 DEF Names, Shows
<1>7. \A r \in Slot : x \notin stale' => LoadKnows(x, r)'
  <2>1. LoadKnows(x, s)'
    BY <1>2 DEF LoadKnows
  <2>2. ASSUME NEW r \in Slot \ {s}, x \notin stale' PROVE LoadKnows(x, r)'
    <3>1. LoadKnows(x, r)
      BY <2>2, OthersKnow
    <3> QED BY <1>0, <3>1 DEF LoadKnows, Live, Active, First
  <2> QED BY <2>1, <2>2
<1>8. Knows(x)'
  BY <1>7 DEF Knows
<1> QED BY <1>3, <1>4, <1>5, <1>6, <1>8 DEF Good

\* The load ends with something to show.
LEMMA EndGood ==
    ASSUME TInv, SInv, NEW x \in Tab, NEW s \in Slot, NEW data,
           tabs' = [tabs EXCEPT ![x].loads[s] = Idle, ![x].data = data],
           OwnStale(x, s), UNCHANGED <<site, session, member, temp>>,
           data.kind # "nothing",
           data.kind = "ok" /\ x \notin stale' => Named(data.me),
           data.kind = "blocked" => data.cause \in {"suspended", "left", "another"}
    PROVE  Good(x)'
<1>1. Good(x)
  BY DEF SInv
<1>0. /\ tabs'[x].loads[s] = Idle
      /\ \A r \in Slot \ {s} : tabs'[x].loads[r] = tabs[x].loads[r]
      /\ tabs'[x].failed = tabs[x].failed
      /\ tabs'[x].data = data
      /\ tabs'[x].screen = tabs[x].screen
      /\ tabs'[x].asks = tabs[x].asks
      /\ tabs'[x].step = tabs[x].step
  BY EndEffect DEF TInv
<1>9. Idle.pc = "idle"
  BY DEF Idle
<1>2. tabs'[x].loads[s].pc = "idle"
  BY <1>0, <1>9
<1>3. InShell(x)'
  BY <1>1, <1>0, <1>2 DEF Good, InShell
<1>4. Awake(x)'
  BY <1>1, <1>0, <1>2 DEF Good, Awake
<1>5. PastGate(x)'
  <2>1. \A r \in Slot : tabs'[x].loads[r].pc = "menu" => tabs'[x].loads[r].me.user \notin temp
    BY <1>1, <1>0, <1>2 DEF Good, PastGate
  <2> QED BY <1>0, <2>1 DEF PastGate
<1>6. Names(x)'
  BY <1>0, <1>2 DEF Names, Named, Shows, Live, Active
<1>7. \A r \in Slot : x \notin stale' => LoadKnows(x, r)'
  <2>1. LoadKnows(x, s)'
    BY <1>2 DEF LoadKnows
  <2>2. ASSUME NEW r \in Slot \ {s}, x \notin stale' PROVE LoadKnows(x, r)'
    <3>1. LoadKnows(x, r)
      BY <2>2, OthersKnow
    <3> QED BY <1>0, <3>1 DEF LoadKnows, Live, Active, First
  <2> QED BY <2>1, <2>2
<1>8. Knows(x)'
  BY <1>7 DEF Knows
<1> QED BY <1>3, <1>4, <1>5, <1>6, <1>8 DEF Good

\* The load goes on, with what it knows.
LEMMA GoOnGood ==
    ASSUME TInv, SInv, NEW x \in Tab, NEW s \in Slot, site = "portal",
           NEW pc \in {"me", "select", "menu"}, NEW me, NEW by,
           SetLoad(x, s, [pc |-> pc, me |-> me, by |-> by]), tabs[x].screen = "shell",
           OwnStale(x, s), UNCHANGED <<site, session, member, temp>>,
           LoadKnows(x, s)', pc = "menu" => me.user \notin temp
    PROVE  Good(x)'
<1>1. Good(x)
  BY DEF SInv
<1>2. InShell(x)' /\ Awake(x)' /\ PastGate(x)' /\ Names(x)'
  BY <1>1, SetLoadEffect DEF TInv, Good, InShell, Awake, PastGate, Names, Waits
<1>3. \A r \in Slot \ {s} : x \notin stale' => LoadKnows(x, r)'
  BY SetLoadEffect, OthersKnow DEF TInv, LoadKnows, Live, Active, First
<1>4. Knows(x)'
  BY <1>3 DEF Knows
<1> QED BY <1>2, <1>4 DEF Good

-----------------------------------------------------------------------------
(* The requests.                                                           *)

\* The rest of the tabs, in a step of x.
LEMMA OneTab ==
    ASSUME SInv, NEW x \in Tab, Good(x)', \A y \in Tab \ {x} : tabs'[y] = tabs[y],
           UNCHANGED site, temp' \subseteq temp,
           \/ stale \ {x} \subseteq stale' /\ UNCHANGED <<session, member>>
           \/ Tab \ {x} \subseteq stale'
    PROVE  SInv'
<1>1. ASSUME NEW y \in Tab \ {x} PROVE Good(y)'
  BY Frame
<1> QED BY <1>1 DEF SInv

LEMMA LoadingIsShell ==
    ASSUME TInv, SInv, NEW x \in Tab, NEW s \in Slot, tabs[x].loads[s].pc # "idle"
    PROVE  tabs[x].screen = "shell"
BY DEF SInv, Good, InShell

LEMMA LoadMeGood ==
    ASSUME TInv, SInv, NEW x \in Tab, NEW s \in Slot, LoadMe(x, s) PROVE SInv'
<1>1. /\ UNCHANGED <<site, session, member, temp>> /\ OwnStale(x, s)
      /\ site = "portal" /\ tabs[x].screen = "shell"
  BY LoadingIsShell DEF LoadMe, Loading, world, OwnStale
<1>2. CASE Unauthorized(x)
  BY <1>1, <1>2, UnauthorizedGood, OneTab DEF OwnStale
<1>3. CASE SetFailed(x, s)
  BY <1>1, <1>3, FailedGood, FailedEffect, OneTab DEF OwnStale, TInv
<1>4. CASE tabs' = [tabs EXCEPT ![x].loads[s] = Idle,
                      ![x].data = [kind |-> "gate", me |-> WhoAmI,
                                   by |-> session.by, cause |-> "none"]]
  <2> DEFINE data == [kind |-> "gate", me |-> WhoAmI, by |-> session.by, cause |-> "none"]
  <2>1. data.kind = "gate"
    OBVIOUS
  <2> HIDE DEF data
  <2>2. Good(x)' /\ \A y \in Tab \ {x} : tabs'[y] = tabs[y]
    BY <1>1, <1>4, <2>1, EndGood, EndEffect DEF TInv, data
  <2> QED BY <1>1, <2>2, OneTab DEF OwnStale
<1>5. CASE Become(x, Mounted("org"))
  BY <1>1, <1>5, BecomeGood, OneTab DEF OwnStale, Screens
<1>6. ASSUME Live, session.user \notin temp, NEW pc \in {"select", "menu"},
             SetLoad(x, s, [pc |-> pc, me |-> WhoAmI, by |-> session.by]),
             pc = "select" => Active = None, pc = "menu" => Active # None
      PROVE  SInv'
  <2>1. /\ tabs'[x].loads[s].pc = pc
        /\ tabs'[x].loads[s].me = WhoAmI
        /\ \A y \in Tab \ {x} : tabs'[y] = tabs[y]
    BY <1>6, SetLoadEffect DEF TInv
  <2>2. /\ WhoAmI.user = session.user
        /\ WhoAmI.tenant = Active
        /\ WhoAmI.tenants = member[session.user]
    BY DEF WhoAmI
  <2>3. LoadKnows(x, s)'
    BY <1>1, <1>6, <2>1, <2>2 DEF LoadKnows, Live, Active
  <2>4. Good(x)'
    BY <1>1, <1>6, <2>2, <2>3, GoOnGood
  <2> QED BY <1>1, <2>1, <2>4, OneTab DEF OwnStale
<1> QED
  <2>1. WhoAmI.tenant = Active
    BY DEF WhoAmI
  <2> QED BY <1>2, <1>3, <1>4, <1>5, <1>6, <2>1 DEF LoadMe

LEMMA LoadMenuGood ==
    ASSUME TInv, SInv, NEW x \in Tab, NEW s \in Slot, LoadMenu(x, s) PROVE SInv'
<1>1. /\ UNCHANGED <<site, session, member, temp, stale>> /\ OwnStale(x, s)
      /\ site = "portal" /\ tabs[x].loads[s].pc = "menu"
  BY DEF LoadMenu, Loading, world, OwnStale
<1>2. CASE Unauthorized(x)
  BY <1>1, <1>2, UnauthorizedGood, OneTab
<1>3. CASE SetFailed(x, s)
  BY <1>1, <1>3, FailedGood, FailedEffect, OneTab DEF TInv
<1>4. ASSUME NEW kind \in {"ok", "blocked"}, NEW cause, SetData(x, s, kind, cause),
             kind = "ok" => Live,
             kind = "blocked" => cause \in {"suspended", "left", "another"}
      PROVE  SInv'
  <2> DEFINE data == [kind |-> kind, me |-> tabs[x].loads[s].me,
                      by |-> tabs[x].loads[s].by, cause |-> cause]
  <2>1. data.kind = kind /\ data.cause = cause /\ data.me = tabs[x].loads[s].me
    OBVIOUS
  <2>2. tabs' = [tabs EXCEPT ![x].loads[s] = Idle, ![x].data = data]
    BY <1>4 DEF SetData
  <2> HIDE DEF data
  <2>3. kind = "ok" /\ x \notin stale' => Named(data.me)
    BY <1>1, <1>4, <2>1 DEF SInv, Good, Knows, LoadKnows, Named
  <2>4. Good(x)' /\ \A y \in Tab \ {x} : tabs'[y] = tabs[y]
    BY <1>1, <1>4, <2>1, <2>2, <2>3, EndGood, EndEffect DEF TInv
  <2> QED BY <1>1, <2>4, OneTab
<1>5. ASSUME Refusal # "none"
      PROVE  CauseFor(tabs[x].loads[s]) \in {"suspended", "left", "another"}
  <2>1. tabs[x].loads[s].me.user \notin temp
    BY <1>1 DEF SInv, Good, PastGate
  <2> QED BY <1>5, <2>1 DEF CauseFor, Refusal
<1> QED BY <1>2, <1>3, <1>4, <1>5 DEF LoadMenu

LEMMA PanelLoadGood == ASSUME TInv, SInv, NEW x \in Tab, PanelLoad(x) PROVE SInv'
<1>0. 1 \in Slot
  BY BoundsAssumption DEF Slot
<1>1. /\ UNCHANGED <<site, session, member, temp>> /\ OwnStale(x, 1)
      /\ site = "panel" /\ stale' = stale \ {x}
  BY DEF PanelLoad, world, OwnStale
<1>2. CASE Unauthorized(x)
  BY <1>1, <1>2, UnauthorizedGood, OneTab
<1>3. CASE SetFailed(x, 1)
  BY <1>0, <1>1, <1>3, FailedGood, FailedEffect, OneTab DEF TInv
<1>4. ASSUME NEW kind \in {"ok", "denied"}, Live,
             tabs' = [tabs EXCEPT ![x].loads[1] = Idle,
                        ![x].data = [kind |-> kind, me |-> WhoAmI, by |-> session.by,
                                     cause |-> "none"]]
      PROVE  SInv'
  <2> DEFINE data == [kind |-> kind, me |-> WhoAmI, by |-> session.by, cause |-> "none"]
  <2>1. data.kind = kind /\ Named(data.me)
    BY <1>1, <1>4 DEF Named, WhoAmI
  <2>2. tabs' = [tabs EXCEPT ![x].loads[1] = Idle, ![x].data = data]
    BY <1>4
  <2> HIDE DEF data
  <2>3. Good(x)' /\ \A y \in Tab \ {x} : tabs'[y] = tabs[y]
    BY <1>0, <1>1, <2>1, <2>2, EndGood, EndEffect DEF TInv
  <2> QED BY <1>1, <2>3, OneTab
<1> QED BY <1>2, <1>3, <1>4 DEF PanelLoad

\* Loads that select a tenant at the same time select the same one.
LEMMA SelectedGood ==
    ASSUME TInv, SInv, NEW x \in Tab, NEW s \in Slot, site = "portal",
           tabs[x].loads[s].pc = "select",
           NEW t \in tabs[x].loads[s].me.tenants, First(t, tabs[x].loads[s].me.tenants),
           Select(t), SetLoad(x, s, Asking), ChangedBy(x), UNCHANGED world
    PROVE  SInv'
<1>1. /\ \A y \in Tab \ {x} : tabs'[y] = tabs[y]
      /\ tabs'[x].loads[s] = Asking
      /\ \A r \in Slot \ {s} : tabs'[x].loads[r] = tabs[x].loads[r]
      /\ tabs'[x].screen = tabs[x].screen
      /\ tabs'[x].data = tabs[x].data
      /\ tabs'[x].failed = tabs[x].failed
      /\ tabs'[x].asks = tabs[x].asks
      /\ tabs'[x].step = tabs[x].step
  BY SetLoadEffect DEF TInv
<1>2. Asking.pc = "me"
  BY DEF Asking, Idle
<1>3. Good(x)
  BY DEF SInv
<1>4. tabs[x].screen = "shell"
  BY LoadingIsShell
<1>5. InShell(x)'
  BY <1>1, <1>2, <1>3, <1>4 DEF Good, InShell, world
<1>6. Awake(x)' /\ Names(x)'
  BY <1>1, <1>2, <1>4 DEF Awake, Names, Waits
<1>7. PastGate(x)'
  <2>1. \A r \in Slot : tabs'[x].loads[r].pc = "menu"
                          => tabs'[x].loads[r].me.user \notin temp'
    BY <1>1, <1>2, <1>3 DEF Good, PastGate, world
  <2> QED BY <1>1, <1>3, <2>1 DEF Good, PastGate
<1>8. Knows(x)'
  <2> SUFFICES ASSUME x \notin stale', NEW r \in Slot PROVE LoadKnows(x, r)'
    BY DEF Knows
  <2>1. x \notin stale
    BY DEF ChangedBy
  <2>2. LoadKnows(x, s) /\ LoadKnows(x, r)
    BY <1>3, <2>1 DEF Good, Knows
  <2>3. /\ Live' /\ session'.user = session.user /\ session'.tenant = t
        /\ t \in member[session.user] /\ member' = member
    BY DEF Select, TInv, SessionTyped, Session, Live, world
  <2>4. Active' = t
    BY <2>3 DEF Active
  <2>5. First(t, member[session.user]) /\ (Active # None => First(Active, member[session.user]))
    BY <2>2 DEF LoadKnows
  <2>6. CASE r = s
    BY <1>1, <1>2, <2>6 DEF LoadKnows
  <2>7. CASE r # s /\ tabs[x].loads[r].pc = "select"
    BY <1>1, <2>2, <2>3, <2>4, <2>5, <2>7 DEF LoadKnows
  <2>8. CASE r # s /\ tabs[x].loads[r].pc = "menu"
    <3>1. Active # None /\ Active \in member[session.user]
      BY <2>2, <2>8 DEF LoadKnows, Active
    <3>2. t \in Nat /\ Active \in Nat
      <4>1. Live
        BY DEF Select
      <4>2. member[session.user] \subseteq Tenant
        BY <4>1 DEF TInv, ServerTyped, SessionTyped
      <4> QED BY <2>3, <3>1, <4>2, TenantAssumption
    <3>3. t <= Active /\ Active <= t
      BY <2>3, <2>5, <3>1 DEF First
    <3>4. t = Active
      BY <3>2, <3>3
    <3>5. t # None
      BY <3>1, <3>4
    <3> QED BY <1>1, <2>2, <2>3, <2>4, <2>8, <3>4, <3>5 DEF LoadKnows
  <2>9. CASE r # s /\ tabs[x].loads[r].pc \notin {"select", "menu"}
    BY <1>1, <2>9 DEF LoadKnows
  <2> QED BY <2>6, <2>7, <2>8, <2>9
<1>9. Good(x)'
  BY <1>5, <1>6, <1>7, <1>8 DEF Good
<1> QED BY <1>1, <1>9, OneTab DEF ChangedBy, world

LEMMA LoadSelectGood ==
    ASSUME TInv, SInv, NEW x \in Tab, NEW s \in Slot, LoadSelect(x, s) PROVE SInv'
<1>1. site = "portal" /\ tabs[x].loads[s].pc = "select" /\ UNCHANGED world
  BY DEF LoadSelect, Loading
<1>2. CASE Unauthorized(x) /\ UNCHANGED <<session, stale>>
  BY <1>1, <1>2, UnauthorizedGood, OneTab DEF world
<1>3. CASE SetFailed(x, s) /\ UNCHANGED <<session, stale>>
  BY <1>1, <1>3, FailedGood, FailedEffect, OneTab DEF world, OwnStale, TInv
<1> QED BY <1>1, <1>2, <1>3, SelectedGood DEF LoadSelect

\* A page that is no shell learns something.
LEMMA PageGood ==
    ASSUME TInv, SInv, NEW x \in Tab, \A y \in Tab \ {x} : tabs'[y] = tabs[y],
           tabs'[x].screen = tabs[x].screen, tabs'[x].data = tabs[x].data,
           tabs'[x].failed = tabs[x].failed, tabs'[x].loads = tabs[x].loads,
           tabs[x].screen = "setup" => tabs'[x].step # "ask" \/ "status" \in tabs'[x].asks,
           UNCHANGED <<site, session, member, temp, stale>>
    PROVE  SInv'
<1>1. Good(x)
  BY DEF SInv
<1>2. InShell(x)' /\ Awake(x)' /\ PastGate(x)'
  BY <1>1 DEF Good, InShell, Awake, PastGate, Waits
<1>3. Knows(x)'
  BY <1>1 DEF Good, Knows, LoadKnows, Live, Active, First
<1>4. Names(x)'
  BY <1>1 DEF Good, Names, Named, Shows, Waits, Live, Active
<1>5. Good(x)'
  BY <1>2, <1>3, <1>4 DEF Good
<1> QED BY <1>5, OneTab

LEMMA ProbeGood == ASSUME TInv, SInv, NEW x \in Tab, Probe(x) PROVE SInv'
<1>1. UNCHANGED <<site, session, member, temp, stale>>
  BY DEF Probe, world
<1>2. CASE Become(x, Opened("shell")) \/ Become(x, Mounted("shell"))
  BY <1>1, <1>2, BecomeGood, OneTab DEF Screens
<1>3. CASE tabs' = [tabs EXCEPT ![x].asks = @ \ {"me"}]
  <2>1. /\ \A y \in Tab \ {x} : tabs'[y] = tabs[y]
        /\ tabs'[x].screen = tabs[x].screen /\ tabs'[x].data = tabs[x].data
        /\ tabs'[x].failed = tabs[x].failed /\ tabs'[x].loads = tabs[x].loads
        /\ tabs'[x].step = tabs[x].step /\ tabs'[x].asks = tabs[x].asks \ {"me"}
    BY <1>3 DEF TInv, TabsTyped, Document
  <2>2. Awake(x)
    BY DEF SInv, Good
  <2>3. tabs[x].screen = "setup" => tabs'[x].step # "ask" \/ "status" \in tabs'[x].asks
    BY <2>1, <2>2 DEF Awake
  <2> QED BY <1>1, <2>1, <2>3, PageGood
<1> QED BY <1>2, <1>3 DEF Probe

LEMMA StatusGood == ASSUME TInv, SInv, NEW x \in Tab, Status(x) PROVE SInv'
<1>1. UNCHANGED <<site, session, member, temp, stale>>
  BY DEF Status, world
<1>2. CASE Become(x, Mounted("setup"))
  BY <1>1, <1>2, BecomeGood, OneTab DEF Screens
<1>3. CASE tabs[x].screen # "setup" /\ tabs' = [tabs EXCEPT ![x].asks = @ \ {"status"}]
  <2>1. /\ \A y \in Tab \ {x} : tabs'[y] = tabs[y]
        /\ tabs'[x].screen = tabs[x].screen /\ tabs'[x].data = tabs[x].data
        /\ tabs'[x].failed = tabs[x].failed /\ tabs'[x].loads = tabs[x].loads
    BY <1>3 DEF TInv, TabsTyped, Document
  <2> QED BY <1>1, <1>3, <2>1, PageGood
<1>4. ASSUME NEW step \in {"token", "form", "closed"},
             tabs' = [tabs EXCEPT ![x].asks = {}, ![x].step = step]
      PROVE  SInv'
  <2>1. /\ \A y \in Tab \ {x} : tabs'[y] = tabs[y]
        /\ tabs'[x].screen = tabs[x].screen /\ tabs'[x].data = tabs[x].data
        /\ tabs'[x].failed = tabs[x].failed /\ tabs'[x].loads = tabs[x].loads
        /\ tabs'[x].step = step
    BY <1>4 DEF TInv, TabsTyped, Document
  <2> QED BY <1>1, <2>1, PageGood
<1> QED
  <2>1. PICK required \in {bare, FALSE} :
          CASE tabs[x].screen = "setup" ->
                 \E step \in IF required THEN {"token", "form", "closed"} ELSE {"closed"} :
                    tabs' = [tabs EXCEPT ![x].asks = {}, ![x].step = step]
            [] tabs[x].screen # "setup" /\ required -> Become(x, Mounted("setup"))
            [] OTHER -> tabs' = [tabs EXCEPT ![x].asks = @ \ {"status"}]
    BY DEF Status
  <2>2. CASE tabs[x].screen = "setup"
    BY <1>4, <2>1, <2>2
  <2>3. CASE tabs[x].screen # "setup" /\ required
    BY <1>2, <2>1, <2>3
  <2>4. CASE tabs[x].screen # "setup" /\ ~required
    BY <1>3, <2>1, <2>4
  <2> QED BY <2>2, <2>3, <2>4 DEF TInv, ServerTyped

LEMMA RequestsGood == ASSUME TInv, SInv, NEW x \in Tab, Requests(x) PROVE SInv'
BY LoadMeGood, LoadSelectGood, LoadMenuGood, PanelLoadGood, ProbeGood, StatusGood DEF Requests

-----------------------------------------------------------------------------
(* The acts of the user, and of others.                                    *)

\* A tab that is no shell says nothing about the session.
LEMMA NoShellGood ==
    ASSUME TInv, SInv, NEW x \in Tab, tabs[x].screen # "shell", tabs' = tabs,
           UNCHANGED site, temp' \subseteq temp
    PROVE  Good(x)'
<1>1. Good(x)
  BY DEF SInv
<1>2. \A s \in Slot : tabs[x].loads[s].pc = "idle"
  BY <1>1 DEF Good, InShell
<1>3. InShell(x)' /\ Awake(x)' /\ PastGate(x)'
  BY <1>1, <1>2 DEF Good, InShell, Awake, PastGate
<1>4. Knows(x)' /\ Names(x)'
  BY <1>2 DEF Knows, LoadKnows, Names, Shows
<1> QED BY <1>3, <1>4 DEF Good

\* The shell asks again.
LEMMA AgainGood ==
    ASSUME TInv, SInv, NEW x \in Tab, tabs[x].screen = "shell",
           NEW s \in Slot, SetLoad(x, s, Asking),
           UNCHANGED site, temp' \subseteq temp,
           x \in stale' \/ Quiet(x) \/ (x \notin stale /\ UNCHANGED <<session, member>>)
    PROVE  Good(x)' /\ \A y \in Tab \ {x} : tabs'[y] = tabs[y]
<1>1. /\ \A y \in Tab \ {x} : tabs'[y] = tabs[y]
      /\ tabs'[x].loads[s] = Asking
      /\ \A r \in Slot \ {s} : tabs'[x].loads[r] = tabs[x].loads[r]
      /\ tabs'[x].screen = tabs[x].screen
      /\ tabs'[x].data = tabs[x].data
  BY SetLoadEffect DEF TInv
<1>2. Asking.pc = "me"
  BY DEF Asking, Idle
<1>3. Good(x)
  BY DEF SInv
<1>4. InShell(x)'
  BY <1>1, <1>2, <1>3 DEF Good, InShell
<1>5. Awake(x)' /\ Names(x)'
  BY <1>1, <1>2 DEF Awake, Names, Waits
<1>6. PastGate(x)'
  <2>1. \A r \in Slot : tabs'[x].loads[r].pc = "menu"
                          => tabs'[x].loads[r].me.user \notin temp'
    BY <1>1, <1>2, <1>3 DEF Good, PastGate
  <2> QED BY <1>1, <1>3, <2>1 DEF Good, PastGate
<1>7. Knows(x)'
  <2> SUFFICES ASSUME x \notin stale', NEW r \in Slot PROVE LoadKnows(x, r)'
    BY DEF Knows
  <2>1. CASE r = s
    BY <1>1, <1>2, <2>1 DEF LoadKnows
  <2>2. CASE r # s /\ Quiet(x)
    BY <1>1, <2>2 DEF LoadKnows, Quiet
  <2>3. CASE r # s /\ x \notin stale /\ UNCHANGED <<session, member>>
    BY <1>1, <1>3, <2>3 DEF Good, Knows, LoadKnows, Live, Active, First
  <2> QED BY <2>1, <2>2, <2>3
<1> QED BY <1>1, <1>4, <1>5, <1>6, <1>7 DEF Good

LEMMA ActsGood == ASSUME TInv, SInv, NEW x \in Tab, Acts(x) PROVE SInv'
<1>1. CASE Open(x)
  <2>1. \A screen \in Pages : screen \in Screens
    BY DEF Pages, Screens
  <2>2. Good(x)' /\ \A y \in Tab \ {x} : tabs'[y] = tabs[y]
    BY <1>1, <2>1, BecomeGood DEF Open
  <2> QED BY <1>1, <2>2, OneTab DEF Open, world
<1>2. CASE Refresh(x)
  <2>1. Good(x)' /\ \A y \in Tab \ {x} : tabs'[y] = tabs[y]
    BY <1>2, AgainGood DEF Refresh, Shows, world
  <2> QED BY <1>2, <2>1, OneTab DEF Refresh, world
<1>3. CASE SignOut(x)
  <2>1. Good(x)' /\ \A y \in Tab \ {x} : tabs'[y] = tabs[y]
    BY <1>3, BecomeGood DEF SignOut, Screens
  <2> QED BY <1>3, <2>1, OneTab DEF SignOut, ChangedBy, world
<1>4. CASE ChangePassword(x)
  <2>1. /\ UNCHANGED <<site, session, member, stale>>
        /\ temp' \subseteq temp
        /\ tabs[x].screen = "shell" /\ Quiet(x)
    BY <1>4 DEF ChangePassword, Shows
  <2>2. CASE Unauthorized(x)
    BY <2>1, <2>2, UnauthorizedGood, OneTab
  <2>3. CASE \E s \in Slot : SetLoad(x, s, Asking)
    BY <2>1, <2>3, AgainGood, OneTab
  <2>4. CASE UNCHANGED tabs
    BY <2>1, <2>4, Frame DEF SInv
  <2> QED BY <1>4, <2>2, <2>3, <2>4 DEF ChangePassword
<1>5. CASE Setup(x)
  <2>1. UNCHANGED <<site, session, member, temp, stale>>
    BY <1>5 DEF Setup
  <2>2. PICK step \in {"token", "form", "done"} : tabs' = [tabs EXCEPT ![x].step = step]
    BY <1>5 DEF Setup
  <2>3. /\ \A y \in Tab \ {x} : tabs'[y] = tabs[y]
        /\ tabs'[x].screen = tabs[x].screen /\ tabs'[x].data = tabs[x].data
        /\ tabs'[x].failed = tabs[x].failed /\ tabs'[x].loads = tabs[x].loads
        /\ tabs'[x].step = step
    BY <2>2 DEF TInv, TabsTyped, Document
  <2> QED BY <2>1, <2>3, PageGood
<1>6. ASSUME NEW t \in Tenant, Switch(x, t) PROVE SInv'
  <2>1. UNCHANGED <<site, member, temp>> /\ tabs[x].screen = "shell"
    BY <1>6 DEF Switch, Shows, world
  <2>2. CASE Unauthorized(x) /\ UNCHANGED <<session, stale>>
    BY <2>1, <2>2, UnauthorizedGood, OneTab
  <2>3. CASE UNCHANGED <<tabs, session, stale>>
    BY <2>1, <2>3, Frame DEF SInv
  <2>4. CASE /\ \E s \in Slot : SetLoad(x, s, Asking)
             /\ stale' = stale \cup (IF Quiet(x) THEN Tab \ {x} ELSE Tab)
    <3>1. Quiet(x) \/ x \in stale'
      BY <2>4
    <3>2. Good(x)' /\ \A y \in Tab \ {x} : tabs'[y] = tabs[y]
      BY <2>1, <2>4, <3>1, AgainGood
    <3> QED BY <2>1, <2>4, <3>2, OneTab
  <2> QED BY <1>6, <2>2, <2>3, <2>4 DEF Switch
<1>7. ASSUME NEW t \in Tenant, NewOrg(x, t) PROVE SInv'
  <2>1. UNCHANGED <<site, temp>> /\ tabs[x].screen # "shell"
    BY <1>7 DEF NewOrg
  <2>2. CASE Unauthorized(x) /\ UNCHANGED <<member, session, stale>>
    BY <2>1, <2>2, UnauthorizedGood, OneTab
  <2>3. CASE ChangedBy(x) /\ (Become(x, Mounted("shell")) \/ UNCHANGED tabs)
    <3>1. Good(x)' /\ \A y \in Tab \ {x} : tabs'[y] = tabs[y]
      BY <2>1, <2>3, BecomeGood, NoShellGood DEF Screens
    <3> QED BY <2>1, <2>3, <3>1, OneTab DEF ChangedBy
  <2> QED BY <1>7, <2>2, <2>3 DEF NewOrg
<1>8. ASSUME NEW u \in User, Login(x, u) \/ \E t \in Tenant : Signup(x, u, t) \/ Handover(x, u, t)
      PROVE  SInv'
  <2>1. /\ UNCHANGED <<site, temp>> /\ ChangedBy(x)
        /\ Become(x, Mounted("shell")) \/ (tabs[x].screen # "shell" /\ UNCHANGED tabs)
    BY <1>8 DEF Login, Signup, Handover, world
  <2>2. Good(x)' /\ \A y \in Tab \ {x} : tabs'[y] = tabs[y]
    BY <2>1, BecomeGood, NoShellGood DEF Screens
  <2> QED BY <2>1, <2>2, OneTab DEF ChangedBy
<1> QED BY <1>1, <1>2, <1>3, <1>4, <1>5, <1>6, <1>7, <1>8 DEF Acts

LEMMA OthersGood == ASSUME TInv, SInv, Others PROVE SInv'
<1>1. /\ UNCHANGED <<site, temp, tabs>>
      /\ stale' = Tab \/ UNCHANGED <<session, member, stale>>
  BY DEF Others, Expire, Suspend, Reopen, RemoveMember, world
<1>2. ASSUME NEW y \in Tab PROVE Good(y)'
  BY <1>1, Frame
<1> QED BY <1>2 DEF SInv

LEMMA InitGood == Init => SInv
<1> SUFFICES ASSUME Init, NEW x \in Tab PROVE Good(x)
  BY DEF SInv
<1>1. tabs[x].screen = "login" /\ tabs[x].data.kind = "nothing"
      /\ \A s \in Slot : tabs[x].loads[s].pc = "idle"
  BY DEF Init, Mounted, Nothing, Idle
<1> QED
  BY <1>1 DEF Good, InShell, Knows, LoadKnows, Names, Shows, Awake, PastGate

LEMMA StepGood == TInv /\ SInv /\ [Next]_vars => SInv'
<1>1. ASSUME TInv, SInv, UNCHANGED vars, NEW y \in Tab PROVE Good(y)'
  BY <1>1, Frame DEF vars
<1> QED BY <1>1, RequestsGood, ActsGood, OthersGood DEF Next, SInv

LEMMA AlwaysGood == Spec => [](TInv /\ SInv)
BY InitTyped, StepTyped, InitGood, StepGood, PTL DEF Spec

\* A shell names the user and the tenant in whose name the server takes its writes.
THEOREM NamesSession == Spec => []ShellNamesSession
<1>1. TInv /\ SInv => ShellNamesSession
  BY DEF SInv, Good, Names, Named, Waits, Quiet, ShellNamesSession
<1> QED BY <1>1, AlwaysGood, PTL

\* The blocked screen is never shown for a temporary password.
THEOREM BlockedForCause == Spec => []BlockedIsClosed
<1>1. TInv /\ SInv => BlockedIsClosed
  BY DEF SInv, Good, PastGate, BlockedIsClosed
<1> QED BY <1>1, AlwaysGood, PTL

\* A shell or a wizard that waits for no answer shows something.
THEOREM NeverSpins == Spec => []NothingSpins
<1>1. TInv /\ SInv => NothingSpins
  BY DEF SInv, Good, Awake, Waits, Shows, Quiet, NothingSpins
<1> QED BY <1>1, AlwaysGood, PTL

-----------------------------------------------------------------------------
(* The requests still ahead of a tab.  A request changes the document of   *)
(* its own tab; the other tabs see at most a tenant selected, which lets   *)
(* their loads ask for less.                                               *)

\* A page that is no shell has no load, and a shell asks nothing else.
OneKind(x) == tabs[x].screen = "shell" => tabs[x].asks = {}

\* What may become of a document in one step: another one, or the same screen
\* that asks no more than before.
StaysOrMounts(x) ==
    \/ tabs'[x].screen = tabs[x].screen /\ tabs'[x].asks \subseteq tabs[x].asks
    \/ \E screen \in Screens : tabs'[x] = Mounted(screen)

LEMMA BecomeMounts ==
    ASSUME TInv, NEW x \in Tab, NEW screen \in Screens,
           Become(x, Mounted(screen)) \/ Become(x, Opened(screen)),
           NEW y \in Tab
    PROVE  StaysOrMounts(y)
<1>1. PICK other \in Screens : Become(x, Mounted(other))
  BY DEF Opened, Screens
<1>2. tabs'[x] = Mounted(other) /\ (y # x => tabs'[y] = tabs[y])
  BY <1>1 DEF Become, TInv, TabsTyped
<1> QED BY <1>2 DEF StaysOrMounts

LEMMA MovesStay ==
    ASSUME TInv, NEW x \in Tab, NEW s \in Slot, NEW load, NEW data,
           \/ SetLoad(x, s, load)
           \/ SetFailed(x, s)
           \/ tabs' = [tabs EXCEPT ![x].loads[s] = Idle, ![x].data = data]
           \/ UNCHANGED tabs,
           NEW y \in Tab
    PROVE  StaysOrMounts(y)
BY SetLoadEffect, FailedEffect, EndEffect DEF TInv, StaysOrMounts

LEMMA StatusKinds ==
    ASSUME NEW x \in Tab, Status(x)
    PROVE  /\ "status" \in tabs[x].asks
           /\ \/ /\ tabs[x].screen = "setup"
                 /\ \E step : tabs' = [tabs EXCEPT ![x].asks = {}, ![x].step = step]
              \/ tabs[x].screen # "setup" /\ Become(x, Mounted("setup"))
              \/ /\ tabs[x].screen # "setup"
                 /\ tabs' = [tabs EXCEPT ![x].asks = @ \ {"status"}]
<1>1. PICK required \in {bare, FALSE} :
          CASE tabs[x].screen = "setup" ->
                 \E step \in IF required THEN {"token", "form", "closed"} ELSE {"closed"} :
                    tabs' = [tabs EXCEPT ![x].asks = {}, ![x].step = step]
            [] tabs[x].screen # "setup" /\ required -> Become(x, Mounted("setup"))
            [] OTHER -> tabs' = [tabs EXCEPT ![x].asks = @ \ {"status"}]
  BY DEF Status
<1>2. CASE tabs[x].screen = "setup"
  BY <1>1, <1>2 DEF Status
<1>3. CASE tabs[x].screen # "setup" /\ required
  BY <1>1, <1>3 DEF Status
<1>4. CASE tabs[x].screen # "setup" /\ ~required
  BY <1>1, <1>4 DEF Status
<1> QED BY <1>2, <1>3, <1>4

LEMMA RequestsMount ==
    ASSUME TInv, NEW x \in Tab, Requests(x), NEW y \in Tab PROVE StaysOrMounts(y)
<1>0. 1 \in Slot
  BY BoundsAssumption DEF Slot
<1>1. Unauthorized(x) => StaysOrMounts(y)
  BY BecomeMounts DEF Unauthorized, Screens
<1>2. ASSUME NEW s \in Slot, LoadMe(x, s) PROVE StaysOrMounts(y)
  <2>1. Become(x, Mounted("org")) => StaysOrMounts(y)
    BY BecomeMounts DEF Screens
  <2> QED BY <1>1, <1>2, <2>1, MovesStay DEF LoadMe
<1>3. ASSUME NEW s \in Slot, LoadSelect(x, s) PROVE StaysOrMounts(y)
  BY <1>1, <1>3, MovesStay DEF LoadSelect
<1>4. ASSUME NEW s \in Slot, LoadMenu(x, s) PROVE StaysOrMounts(y)
  BY <1>1, <1>4, MovesStay DEF LoadMenu, SetData
<1>5. CASE PanelLoad(x)
  BY <1>0, <1>1, <1>5, MovesStay DEF PanelLoad
<1>6. CASE Probe(x)
  <2>1. CASE tabs' = [tabs EXCEPT ![x].asks = @ \ {"me"}]
    BY <2>1 DEF TInv, TabsTyped, Document, StaysOrMounts
  <2> QED BY <1>6, <2>1, BecomeMounts DEF Probe, Screens
<1>7. CASE Status(x)
  <2>1. CASE tabs' = [tabs EXCEPT ![x].asks = @ \ {"status"}]
    BY <2>1 DEF TInv, TabsTyped, Document, StaysOrMounts
  <2>2. ASSUME NEW step, tabs' = [tabs EXCEPT ![x].asks = {}, ![x].step = step]
        PROVE  StaysOrMounts(y)
    BY <2>2 DEF TInv, TabsTyped, Document, StaysOrMounts
  <2> QED BY <1>7, <2>1, <2>2, StatusKinds, BecomeMounts DEF Screens
<1> QED BY <1>2, <1>3, <1>4, <1>5, <1>6, <1>7 DEF Requests

LEMMA ActsMount ==
    ASSUME TInv, NEW x \in Tab, Acts(x), NEW y \in Tab PROVE StaysOrMounts(y)
<1>1. Unauthorized(x) => StaysOrMounts(y)
  BY BecomeMounts DEF Unauthorized, Screens
<1>2. UNCHANGED tabs => StaysOrMounts(y)
  BY DEF StaysOrMounts
<1>3. \A s \in Slot : SetLoad(x, s, Asking) => StaysOrMounts(y)
  BY MovesStay
<1>4. \A screen \in Screens :
         Become(x, Mounted(screen)) \/ Become(x, Opened(screen)) => StaysOrMounts(y)
  BY BecomeMounts
<1>5. CASE Open(x)
  BY <1>4, <1>5 DEF Open, Pages, Screens
<1>6. CASE Refresh(x) \/ ChangePassword(x)
  BY <1>1, <1>2, <1>3, <1>6 DEF Refresh, ChangePassword
<1>7. CASE Setup(x)
  BY <1>7 DEF Setup, TInv, TabsTyped, Document, StaysOrMounts
<1>8. ASSUME NEW t \in Tenant, Switch(x, t) \/ NewOrg(x, t) PROVE StaysOrMounts(y)
  BY <1>1, <1>2, <1>3, <1>4, <1>8 DEF Switch, NewOrg, Screens
<1>9. ASSUME NEW u \in User, Login(x, u) PROVE StaysOrMounts(y)
  BY <1>2, <1>4, <1>9 DEF Login, Screens
<1>10. ASSUME NEW u \in User, NEW t \in Tenant, Signup(x, u, t) \/ Handover(x, u, t)
       PROVE  StaysOrMounts(y)
  BY <1>2, <1>4, <1>10 DEF Signup, Handover, Screens
<1>11. CASE SignOut(x)
  BY <1>4, <1>11 DEF SignOut, Screens
<1> QED BY <1>5, <1>6, <1>7, <1>8, <1>9, <1>10, <1>11 DEF Acts

LEMMA MountedKind ==
    ASSUME NEW x \in Tab, NEW screen \in Screens, tabs'[x] = Mounted(screen)
    PROVE  OneKind(x)'
BY DEF Mounted, OneKind

LEMMA AlwaysOneKind == Spec => [](\A y \in Tab : OneKind(y))
<1>1. Init => \A y \in Tab : OneKind(y)
  BY DEF Init, OneKind, Mounted
<1>2. TInv /\ (\A y \in Tab : OneKind(y)) /\ [Next]_vars => (\A y \in Tab : OneKind(y))'
  <2> SUFFICES ASSUME TInv, \A z \in Tab : OneKind(z), [Next]_vars, NEW y \in Tab
               PROVE  OneKind(y)'
    OBVIOUS
  <2>1. CASE UNCHANGED tabs
    BY <2>1 DEF OneKind
  <2>2. CASE StaysOrMounts(y)
    BY <2>2, MountedKind DEF StaysOrMounts, OneKind
  <2>3. UNCHANGED vars \/ Others => UNCHANGED tabs
    BY DEF vars, Others, Expire, Suspend, Reopen, RemoveMember
  <2> QED BY <2>1, <2>2, <2>3, RequestsMount, ActsMount DEF Next
<1> QED BY <1>1, <1>2, AlwaysGood, PTL DEF Spec

\* The server under a tab's requests: the session stays live or over, and a
\* tenant that is selected stays selected.
Calm == (Live' <=> Live) /\ (Live => (Active = None \/ Active' # None))

LEMMA RequestsCalm == ASSUME TInv, NEW x \in Tab, Requests(x) PROVE Calm
<1>1. UNCHANGED member
  BY DEF Requests, LoadMe, LoadSelect, LoadMenu, PanelLoad, Probe, Status, world
<1>2. CASE UNCHANGED session
  BY <1>1, <1>2 DEF Calm, Live, Active
<1>3. ASSUME NEW t, Select(t) PROVE Calm
  <2>1. /\ session.user \in User /\ t \in member[session.user]
        /\ session'.state = session.state /\ session'.user = session.user
        /\ session'.tenant = t
    BY <1>3 DEF Select, TInv, SessionTyped, Session
  <2>2. t # None
    BY <2>1, NoneAssumption DEF TInv, ServerTyped
  <2> QED BY <1>1, <2>1, <2>2 DEF Calm, Live, Active
<1> QED
  BY <1>2, <1>3
  DEF Requests, LoadMe, LoadSelect, LoadMenu, PanelLoad, Probe, Status

\* Fewer requests ahead in a load or on the page, and nowhere more.
NoFurther(x) ==
    /\ \A s \in Slot : ToGo(Due(x, s))' \subseteq ToGo(Due(x, s))
    /\ OnPage(x)' \subseteq OnPage(x)

Closer(x) ==
    /\ NoFurther(x)
    /\ \/ \E s \in Slot : ToGo(Due(x, s))' # ToGo(Due(x, s))
       \/ OnPage(x)' # OnPage(x)

\* What ToGo is of the loads there are.
LEMMA ToGoKinds ==
    ASSUME NEW load, load.pc \in {"idle", "me", "select", "menu"}
    PROVE  /\ ToGo(load) \subseteq {"me", "select", "again", "menu"}
           /\ ToGo(load) = {} <=> load.pc = "idle"
           /\ load.pc = "menu" => ToGo(load) = {"menu"}
           /\ load.pc # "idle" /\ ~Live => ToGo(load) = {"menu"}
           /\ load.pc = "select" /\ Live => ToGo(load) = {"select", "again", "menu"}
           /\ load.pc = "me" /\ Live /\ Active # None => ToGo(load) = {"again", "menu"}
           /\ load.pc = "me" /\ Live /\ Active = None
                => ToGo(load) = {"me", "select", "again", "menu"}
<1>1. CASE load.pc = "idle"
  BY <1>1 DEF ToGo
<1>2. CASE load.pc = "menu"
  BY <1>2 DEF ToGo
<1>3. CASE load.pc \in {"me", "select"} /\ ~Live
  BY <1>3 DEF ToGo
<1>4. CASE load.pc = "select" /\ Live
  BY <1>4 DEF ToGo
<1>5. CASE load.pc = "me" /\ Live
  BY <1>5 DEF ToGo
<1> QED BY <1>1, <1>2, <1>3, <1>4, <1>5

LEMMA ToGoShrinks ==
    ASSUME NEW load, load.pc \in {"idle", "me", "select", "menu"}, Calm
    PROVE  ToGo(load)' \subseteq ToGo(load)
<1>1. CASE load.pc = "idle"
  BY <1>1 DEF ToGo
<1>2. CASE load.pc = "menu"
  BY <1>2 DEF ToGo
<1>3. CASE load.pc \in {"me", "select"} /\ ~Live
  BY <1>3 DEF ToGo, Calm
<1>4. CASE load.pc = "select" /\ Live
  BY <1>4 DEF ToGo, Calm
<1>5. CASE load.pc = "me" /\ Live
  BY <1>5 DEF ToGo, Calm
<1> QED BY <1>1, <1>2, <1>3, <1>4, <1>5

LEMMA DueTyped ==
    ASSUME TabsTyped, NEW x \in Tab, NEW s \in Slot
    PROVE  Due(x, s).pc \in {"idle", "me", "select", "menu"}
BY DEF Due, Asking, Idle, TabsTyped, Document, Load

LEMMA CloserAhead ==
    ASSUME TabsTyped, NEW x \in Tab
    PROVE  /\ NoFurther(x) => Ahead(x)' \subseteq Ahead(x)
           /\ Closer(x) => Ahead(x)' # Ahead(x)
<1>1. NoFurther(x) => Ahead(x)' \subseteq Ahead(x)
  BY DEF NoFurther, Ahead
<1>2. ASSUME Closer(x) PROVE Ahead(x)' # Ahead(x)
  <2>1. CASE \E s \in Slot : ToGo(Due(x, s))' # ToGo(Due(x, s))
    <3>1. PICK s \in Slot : ToGo(Due(x, s))' # ToGo(Due(x, s))
      BY <2>1
    <3>2. PICK r : r \in ToGo(Due(x, s)) /\ r \notin ToGo(Due(x, s))'
      BY <1>2, <3>1 DEF Closer, NoFurther
    <3>3. r \in {"me", "select", "again", "menu"}
      BY <3>2, DueTyped, ToGoKinds
    <3>4. <<s, r>> \in Ahead(x)
      BY <3>2, <3>3 DEF Ahead
    <3>5. s # 0
      BY DEF Slot
    <3>6. <<s, r>> \notin Ahead(x)'
      BY <3>2, <3>5 DEF Ahead
    <3> QED BY <3>4, <3>6
  <2>2. CASE OnPage(x)' # OnPage(x)
    <3>1. PICK r : r \in OnPage(x) /\ r \notin OnPage(x)'
      BY <1>2, <2>2 DEF Closer, NoFurther
    <3>2. <<0, r>> \in Ahead(x)
      BY <3>1 DEF Ahead
    <3>3. 0 \notin Slot
      BY DEF Slot
    <3>4. <<0, r>> \notin Ahead(x)'
      BY <3>1, <3>3 DEF Ahead
    <3> QED BY <3>2, <3>4
  <2> QED BY <1>2, <2>1, <2>2 DEF Closer
<1> QED BY <1>1, <1>2

\* Another tab asked.
LEMMA OtherNoFurther ==
    ASSUME TabsTyped, Calm, NEW y \in Tab, tabs'[y] = tabs[y] PROVE NoFurther(y)
<1>1. ASSUME NEW s \in Slot PROVE ToGo(Due(y, s))' \subseteq ToGo(Due(y, s))
  <2>1. Due(y, s)' = Due(y, s)
    BY DEF Due, Calm
  <2> QED BY <2>1, DueTyped, ToGoShrinks
<1>2. OnPage(y)' \subseteq OnPage(y)
  BY DEF OnPage, Calm
<1> QED BY <1>1, <1>2 DEF NoFurther

\* A load goes on, or ends, with less to ask than before.
LEMMA SlotCloser ==
    ASSUME TabsTyped, Calm, NEW x \in Tab, NEW s \in Slot, InShell(x), OneKind(x),
           tabs[x].loads[s].pc # "idle",
           tabs'[x].screen = tabs[x].screen, tabs'[x].asks = tabs[x].asks,
           \A r \in Slot \ {s} : tabs'[x].loads[r] = tabs[x].loads[r],
           NEW load, tabs'[x].loads[s] = load,
           ToGo(load)' \subseteq ToGo(tabs[x].loads[s]), ToGo(load)' # ToGo(tabs[x].loads[s])
    PROVE  Closer(x)
<1>1. tabs[x].asks = {}
  BY DEF InShell, OneKind
<1>2. \A r \in Slot : Due(x, r) = tabs[x].loads[r] /\ Due(x, r)' = tabs'[x].loads[r]
  BY <1>1 DEF Due
<1>3. ToGo(Due(x, s))' \subseteq ToGo(Due(x, s)) /\ ToGo(Due(x, s))' # ToGo(Due(x, s))
  BY <1>2
<1>4. ASSUME NEW r \in Slot \ {s} PROVE ToGo(Due(x, r))' \subseteq ToGo(Due(x, r))
  BY <1>2, ToGoShrinks, DueTyped
<1>5. OnPage(x)' \subseteq OnPage(x)
  BY <1>1 DEF OnPage, Calm
<1> QED BY <1>3, <1>4, <1>5 DEF Closer, NoFurther

\* A live session and a page that the load leads to without a request.
LEMMA OrgCloser ==
    ASSUME TabsTyped, Calm, Live, NEW x \in Tab, NEW s \in Slot, InShell(x), OneKind(x),
           tabs[x].loads[s].pc # "idle", Become(x, Mounted("org"))
    PROVE  Closer(x)
<1>1. /\ tabs'[x].asks = {}
      /\ \A r \in Slot : tabs'[x].loads[r].pc = "idle"
  BY DEF Become, TabsTyped, Mounted, Idle
<1>2. \A r \in Slot : ToGo(Due(x, r))' = {}
  BY <1>1 DEF Due, ToGo
<1>3. OnPage(x)' = {}
  BY <1>1 DEF OnPage
<1>4. tabs[x].asks = {}
  BY DEF InShell, OneKind
<1>5. ToGo(Due(x, s)) # {}
  <2>1. Due(x, s).pc # "idle"
    BY <1>4 DEF Due
  <2> QED BY <2>1, DueTyped, ToGoKinds
<1> QED BY <1>2, <1>3, <1>5 DEF Closer, NoFurther

\* A session that is over, and the login page.
LEMMA LoginCloser ==
    ASSUME TabsTyped, UNCHANGED session, NEW x \in Tab, NEW s \in Slot, InShell(x), OneKind(x),
           tabs[x].loads[s].pc # "idle", Unauthorized(x)
    PROVE  Closer(x)
<1>1. ~Live /\ ~Live'
  BY DEF Unauthorized, Live
<1>2. \A r \in Slot : tabs'[x].loads[r].pc = "idle"
  BY DEF Unauthorized, Opened, Become, TabsTyped, Mounted, Idle, Protected
<1>3. \A r \in Slot : ToGo(Due(x, r))' = {}
  BY <1>1, <1>2 DEF Due, ToGo
<1>4. tabs[x].screen # "setup" /\ tabs[x].asks = {}
  BY DEF InShell, OneKind
<1>5. OnPage(x) = {"probe", "status", "setup"}
  BY <1>1, <1>4 DEF OnPage
<1>6. OnPage(x)' \subseteq {"probe", "status", "setup"}
  BY DEF OnPage
<1>7. ToGo(Due(x, s)) # {}
  <2>1. Due(x, s).pc # "idle"
    BY <1>4 DEF Due
  <2> QED BY <2>1, DueTyped, ToGoKinds
<1> QED BY <1>3, <1>5, <1>6, <1>7 DEF Closer, NoFurther

\* The login page finds a live session and becomes a shell, whose first load is
\* what was due.
LEMMA ShellCloser ==
    ASSUME TabsTyped, UNCHANGED <<session, member>>, Live, NEW x \in Tab, "me" \in tabs[x].asks,
           Become(x, Mounted("shell"))
    PROVE  Closer(x)
<1>0. 1 \in Slot
  BY BoundsAssumption DEF Slot
<1>1. /\ tabs'[x].asks = {}
      /\ \A r \in Slot : tabs'[x].loads[r] = IF r = 1 THEN Asking ELSE Idle
  BY DEF Become, TabsTyped, Mounted
<1>2. Live' /\ Calm
  BY DEF Live, Calm, Active
<1>3. ToGo(Due(x, 1))' \subseteq ToGo(Due(x, 1))
  BY <1>0, <1>1, <1>2, ToGoShrinks, DueTyped DEF Due
<1>4. ASSUME NEW r \in Slot \ {1} PROVE ToGo(Due(x, r))' = {}
  <2>1. Due(x, r)'.pc = "idle"
    BY <1>1 DEF Due, Idle
  <2> QED BY <2>1 DEF ToGo
<1>5. OnPage(x)' = {} /\ "probe" \in OnPage(x)
  BY <1>1, <1>2 DEF OnPage
<1> QED BY <1>3, <1>4, <1>5 DEF Closer, NoFurther

\* A page learns something and stays.
LEMMA AskedCloser ==
    ASSUME TabsTyped, Calm, NEW x \in Tab, InShell(x), OneKind(x), NEW asks,
           asks \subseteq tabs[x].asks, asks # tabs[x].asks,
           tabs'[x].screen = tabs[x].screen, tabs'[x].loads = tabs[x].loads,
           tabs'[x].asks = asks
    PROVE  Closer(x)
<1>1. \A s \in Slot : tabs[x].loads[s].pc = "idle"
  BY DEF InShell, OneKind
<1>2. ASSUME NEW s \in Slot PROVE ToGo(Due(x, s))' \subseteq ToGo(Due(x, s))
  <2>1. CASE s = 1 /\ Live /\ "me" \in asks
    <3>1. Due(x, s) = Asking /\ Due(x, s)' = Asking
      BY <2>1 DEF Due, Calm
    <3> QED BY <3>1, ToGoShrinks, DueTyped
  <2>2. CASE ~(s = 1 /\ Live /\ "me" \in asks)
    <3>1. Due(x, s)'.pc = "idle"
      BY <1>1, <2>2 DEF Due, Calm
    <3> QED BY <3>1 DEF ToGo
  <2> QED BY <2>1, <2>2
<1>3. OnPage(x)' \subseteq OnPage(x)
  BY <1>1 DEF OnPage
<1>4. tabs[x].asks \subseteq {"me", "status"}
  BY DEF TabsTyped, Document
<1>5. OnPage(x)' # OnPage(x)
  <2>1. CASE "me" \notin asks /\ "me" \in tabs[x].asks
    <3>1. "probe" \in OnPage(x) /\ "probe" \notin OnPage(x)'
      BY <1>1, <2>1 DEF OnPage
    <3> QED BY <3>1
  <2>2. CASE "status" \notin asks /\ "status" \in tabs[x].asks
    <3>1. "setup" \in OnPage(x) /\ "setup" \notin OnPage(x)'
      BY <1>1, <2>2 DEF OnPage
    <3> QED BY <3>1
  <2> QED BY <1>4, <2>1, <2>2
<1> QED BY <1>2, <1>3, <1>5 DEF Closer, NoFurther

\* The installation waits to be set up.
LEMMA SetupCloser ==
    ASSUME TabsTyped, NEW x \in Tab, "status" \in tabs[x].asks, tabs[x].screen # "setup",
           Become(x, Mounted("setup"))
    PROVE  Closer(x)
<1>1. /\ tabs'[x].asks = {"status"} /\ tabs'[x].screen = "setup"
      /\ \A r \in Slot : tabs'[x].loads[r].pc = "idle"
  BY DEF Become, TabsTyped, Mounted, Idle
<1>2. \A r \in Slot : ToGo(Due(x, r))' = {}
  BY <1>1 DEF Due, ToGo
<1>3. OnPage(x)' = {"setup"}
  BY <1>1 DEF OnPage
<1>4. {"status", "setup"} \subseteq OnPage(x)
  BY DEF OnPage
<1> QED BY <1>2, <1>3, <1>4 DEF Closer, NoFurther

LEMMA FailedCloser ==
    ASSUME TabsTyped, Calm, NEW x \in Tab, NEW s \in Slot, InShell(x), OneKind(x),
           tabs[x].loads[s].pc # "idle", SetFailed(x, s)
    PROVE  Closer(x)
<1>1. ToGo(Idle)' = {}
  BY DEF ToGo, Idle
<1>2. tabs[x].loads[s].pc \in {"me", "select", "menu"}
  BY DEF TabsTyped, Document, Load
<1>3. ToGo(tabs[x].loads[s]) # {}
  BY <1>2, ToGoKinds
<1> QED BY <1>1, <1>3, FailedEffect, SlotCloser

LEMMA EndCloser ==
    ASSUME TabsTyped, Calm, NEW x \in Tab, NEW s \in Slot, InShell(x), OneKind(x),
           tabs[x].loads[s].pc # "idle", NEW data,
           tabs' = [tabs EXCEPT ![x].loads[s] = Idle, ![x].data = data]
    PROVE  Closer(x)
<1>1. ToGo(Idle)' = {}
  BY DEF ToGo, Idle
<1>2. tabs[x].loads[s].pc \in {"me", "select", "menu"}
  BY DEF TabsTyped, Document, Load
<1>3. ToGo(tabs[x].loads[s]) # {}
  BY <1>2, ToGoKinds
<1>4. /\ tabs'[x].loads[s] = Idle
      /\ \A r \in Slot \ {s} : tabs'[x].loads[r] = tabs[x].loads[r]
      /\ tabs'[x].screen = tabs[x].screen /\ tabs'[x].asks = tabs[x].asks
  BY EndEffect
<1> QED BY <1>1, <1>3, <1>4, SlotCloser

LEMMA LoadMeCloser ==
    ASSUME TInv, SInv, NEW x \in Tab, OneKind(x), NEW s \in Slot, LoadMe(x, s)
    PROVE  Closer(x)
<1>1. /\ Calm /\ TabsTyped /\ InShell(x) /\ UNCHANGED <<session, member>>
      /\ tabs[x].loads[s].pc = "me"
  BY RequestsCalm DEF Requests, LoadMe, Loading, TInv, SInv, Good, world
<1>2. ASSUME NEW load, load.pc \in {"select", "menu"}, Live,
             load.pc = "select" => Active = None, SetLoad(x, s, load)
      PROVE  Closer(x)
  <2>1. Live' /\ (Active = None)' = (Active = None)
    BY <1>1, <1>2 DEF Live, Active
  <2>2. ToGo(load)' \subseteq {"select", "again", "menu"}
        /\ (load.pc = "menu" => ToGo(load)' = {"menu"})
    BY <1>2, <2>1 DEF ToGo
  <2>3. ToGo(tabs[x].loads[s]) = IF Active = None THEN {"me", "select", "again", "menu"}
                                                  ELSE {"again", "menu"}
    BY <1>1, <1>2, ToGoKinds
  <2>4. ToGo(load)' \subseteq ToGo(tabs[x].loads[s]) /\ ToGo(load)' # ToGo(tabs[x].loads[s])
    BY <1>2, <2>2, <2>3
  <2> QED BY <1>1, <1>2, <2>4, SetLoadEffect, SlotCloser
<1>3. CASE Unauthorized(x)
  BY <1>1, <1>3, LoginCloser
<1>4. CASE SetFailed(x, s)
  BY <1>1, <1>4, FailedCloser
<1>5. CASE \E data : tabs' = [tabs EXCEPT ![x].loads[s] = Idle, ![x].data = data]
  BY <1>1, <1>5, EndCloser
<1>6. CASE Live /\ Become(x, Mounted("org"))
  BY <1>1, <1>6, OrgCloser
<1>7. CASE Live /\ \E pc \in {"select", "menu"} :
                     /\ pc = "select" => Active = None
                     /\ SetLoad(x, s, [pc |-> pc, me |-> WhoAmI, by |-> session.by])
  BY <1>2, <1>7
<1> QED BY <1>3, <1>4, <1>5, <1>6, <1>7 DEF LoadMe, WhoAmI

LEMMA LoadSelectCloser ==
    ASSUME TInv, SInv, NEW x \in Tab, OneKind(x), NEW s \in Slot, LoadSelect(x, s)
    PROVE  Closer(x)
<1>1. /\ Calm /\ TabsTyped /\ InShell(x) /\ UNCHANGED member
      /\ tabs[x].loads[s].pc = "select"
  BY RequestsCalm DEF Requests, LoadSelect, Loading, TInv, SInv, Good, world
<1>2. CASE (Unauthorized(x) \/ SetFailed(x, s)) /\ UNCHANGED <<session, stale>>
  BY <1>1, <1>2, LoginCloser, FailedCloser
<1>3. ASSUME NEW t, Select(t), SetLoad(x, s, Asking) PROVE Closer(x)
  <2>1. Live /\ Live'
    BY <1>1, <1>3 DEF Select, Calm
  <2>2. Active' # None
    <3>1. /\ session.user \in User /\ t \in member[session.user]
          /\ session'.user = session.user /\ session'.tenant = t
      BY <1>3 DEF Select, TInv, SessionTyped, Session
    <3> QED BY <1>1, <3>1, NoneAssumption DEF Active, TInv, ServerTyped
  <2>3. ToGo(Asking)' = {"again", "menu"}
    BY <2>1, <2>2 DEF ToGo, Asking, Idle
  <2>4. ToGo(tabs[x].loads[s]) = {"select", "again", "menu"}
    BY <1>1, <2>1, ToGoKinds
  <2>5. ToGo(Asking)' \subseteq ToGo(tabs[x].loads[s]) /\ ToGo(Asking)' # ToGo(tabs[x].loads[s])
    BY <2>3, <2>4
  <2> QED BY <1>1, <1>3, <2>5, SetLoadEffect, SlotCloser
<1> QED BY <1>2, <1>3 DEF LoadSelect

LEMMA LoadMenuCloser ==
    ASSUME TInv, SInv, NEW x \in Tab, OneKind(x), NEW s \in Slot, LoadMenu(x, s)
    PROVE  Closer(x)
<1>1. /\ Calm /\ TabsTyped /\ InShell(x) /\ UNCHANGED session
      /\ tabs[x].loads[s].pc # "idle"
  BY RequestsCalm DEF Requests, LoadMenu, Loading, TInv, SInv, Good
<1>2. CASE \E kind, cause : SetData(x, s, kind, cause)
  BY <1>1, <1>2, EndCloser DEF SetData
<1> QED BY <1>1, <1>2, LoginCloser, FailedCloser DEF LoadMenu

LEMMA PanelLoadCloser ==
    ASSUME TInv, SInv, NEW x \in Tab, OneKind(x), PanelLoad(x) PROVE Closer(x)
<1>1. /\ Calm /\ TabsTyped /\ InShell(x) /\ UNCHANGED session
      /\ 1 \in Slot /\ tabs[x].loads[1].pc # "idle"
  BY RequestsCalm, BoundsAssumption DEF Requests, PanelLoad, TInv, SInv, Good, Slot
<1> QED BY <1>1, LoginCloser, FailedCloser, EndCloser DEF PanelLoad

LEMMA ProbeCloser ==
    ASSUME TInv, SInv, NEW x \in Tab, OneKind(x), Probe(x) PROVE Closer(x)
<1>1. /\ Calm /\ TabsTyped /\ InShell(x) /\ UNCHANGED <<session, member>>
      /\ "me" \in tabs[x].asks
  BY RequestsCalm DEF Requests, Probe, TInv, SInv, Good, world
<1>2. CASE Live /\ (Become(x, Opened("shell")) \/ Become(x, Mounted("shell")))
  <2>1. Opened("shell") = Mounted("shell")
    BY <1>2 DEF Opened, Live
  <2> QED BY <1>1, <1>2, <2>1, ShellCloser
<1>3. CASE tabs' = [tabs EXCEPT ![x].asks = @ \ {"me"}]
  <2>1. /\ tabs'[x].screen = tabs[x].screen /\ tabs'[x].loads = tabs[x].loads
        /\ tabs'[x].asks = tabs[x].asks \ {"me"}
    BY <1>1, <1>3 DEF TabsTyped, Document
  <2> QED BY <1>1, <2>1, AskedCloser
<1> QED BY <1>2, <1>3 DEF Probe

LEMMA StatusCloser ==
    ASSUME TInv, SInv, NEW x \in Tab, OneKind(x), Status(x) PROVE Closer(x)
<1>1. /\ Calm /\ TabsTyped /\ InShell(x) /\ "status" \in tabs[x].asks
  BY RequestsCalm DEF Requests, Status, TInv, SInv, Good
<1>2. ASSUME NEW step, tabs' = [tabs EXCEPT ![x].asks = {}, ![x].step = step]
      PROVE  Closer(x)
  <2>1. /\ tabs'[x].screen = tabs[x].screen /\ tabs'[x].loads = tabs[x].loads
        /\ tabs'[x].asks = {}
    BY <1>1, <1>2 DEF TabsTyped, Document
  <2> QED BY <1>1, <2>1, AskedCloser
<1>3. CASE tabs[x].screen # "setup" /\ Become(x, Mounted("setup"))
  BY <1>1, <1>3, SetupCloser
<1>4. CASE tabs' = [tabs EXCEPT ![x].asks = @ \ {"status"}]
  <2>1. /\ tabs'[x].screen = tabs[x].screen /\ tabs'[x].loads = tabs[x].loads
        /\ tabs'[x].asks = tabs[x].asks \ {"status"}
    BY <1>1, <1>4 DEF TabsTyped, Document
  <2> QED BY <1>1, <2>1, AskedCloser
<1> QED BY <1>2, <1>3, <1>4, StatusKinds

\* A request changes the document of its own tab.
LEMMA RequestsAlone ==
    ASSUME TInv, NEW x \in Tab, Requests(x), NEW y \in Tab \ {x} PROVE tabs'[y] = tabs[y]
BY DEF Requests, LoadMe, LoadSelect, LoadMenu, PanelLoad, Probe, Status, Become, SetLoad,
       SetData, SetFailed, Unauthorized, TInv, TabsTyped

LEMMA ActsTurn == ASSUME TInv, turns' = turns PROVE ~Others /\ \A x \in Tab : ~Acts(x)
<1>1. ~Turn
  BY BoundsAssumption DEF Turn, TInv, ServerTyped
<1> QED
  BY <1>1
  DEF Others, Expire, Suspend, Reopen, RemoveMember, Acts, Open, Refresh, SignOut,
      ChangePassword, Setup, Switch, NewOrg, Login, Signup, Handover

\* Nobody acts: what the tabs may still ask shrinks with every answer, for any
\* number of users, tenants, tabs and loads; so the pages send each other nowhere
\* in a circle.
THEOREM RequestsRunOut == Spec => NoLoop
<1> DEFINE Shrinks == turns' = turns => /\ \A x \in Tab : Ahead(x)' \subseteq Ahead(x)
                                        /\ \E x \in Tab : Ahead(x)' # Ahead(x)
<1>1. ASSUME TInv, SInv, \A y \in Tab : OneKind(y), Next, turns' = turns PROVE Shrinks
  <2>1. PICK x \in Tab : Requests(x)
    BY <1>1, ActsTurn DEF Next
  <2>2. Calm /\ TabsTyped
    BY <1>1, <2>1, RequestsCalm DEF TInv
  <2>3. Closer(x)
    BY <1>1, <2>1, LoadMeCloser, LoadSelectCloser, LoadMenuCloser, PanelLoadCloser,
       ProbeCloser, StatusCloser DEF Requests
  <2>4. NoFurther(x) /\ \A y \in Tab \ {x} : NoFurther(y)
    BY <1>1, <2>1, <2>2, <2>3, RequestsAlone, OtherNoFurther DEF Closer
  <2> QED BY <2>2, <2>3, <2>4, CloserAhead
<1>2. TInv /\ SInv /\ (\A y \in Tab : OneKind(y)) /\ [Next]_vars => [Shrinks]_vars
  BY <1>1
<1>3. Spec => [][Shrinks]_vars
  BY <1>2, AlwaysGood, AlwaysOneKind, PTL DEF Spec
<1> QED BY <1>3 DEF NoLoop

LEMMA QuietAhead ==
    ASSUME TInv, NEW x \in Tab PROVE Ahead(x) = {} <=> Quiet(x)
<1>1. ASSUME Quiet(x) PROVE Ahead(x) = {}
  <2>1. \A s \in Slot : ToGo(Due(x, s)) = {}
    BY <1>1 DEF Quiet, Due, ToGo
  <2>2. OnPage(x) = {}
    BY <1>1 DEF Quiet, OnPage
  <2> QED BY <2>1, <2>2 DEF Ahead
<1>2. ASSUME NEW s \in Slot, tabs[x].loads[s].pc # "idle" PROVE Ahead(x) # {}
  <2>1. Due(x, s).pc # "idle"
    BY <1>2 DEF Due, Asking, Idle
  <2>2. PICK r : r \in ToGo(Due(x, s)) /\ r \in {"me", "select", "again", "menu"}
    BY <2>1, DueTyped, ToGoKinds DEF TInv
  <2>3. <<s, r>> \in Ahead(x)
    BY <2>2 DEF Ahead
  <2> QED BY <2>3
<1>3. ASSUME tabs[x].asks # {} PROVE Ahead(x) # {}
  <2>1. PICK r : r \in OnPage(x)
    BY <1>3 DEF OnPage, TInv, TabsTyped, Document
  <2>2. <<0, r>> \in Ahead(x)
    BY <2>1 DEF Ahead
  <2> QED BY <2>2
<1> QED BY <1>1, <1>2, <1>3 DEF Quiet

LEMMA AheadBound ==
    ASSUME NEW x \in Tab
    PROVE  IsFiniteSet(Ahead(x)) /\ Cardinality(Ahead(x)) <= 4 * MaxLoads + 3
<1> DEFINE four == {"me", "select", "again", "menu"}
           three == {"probe", "status", "setup"}
<1>1. IsFiniteSet(Slot) /\ Cardinality(Slot) = MaxLoads
  BY BoundsAssumption, FS_Interval DEF Slot
<1>2. IsFiniteSet(four) /\ Cardinality(four) = 4
  <2>1. IsFiniteSet({"me"}) /\ Cardinality({"me"}) = 1
    BY FS_Singleton
  <2>2. IsFiniteSet({"me", "select"}) /\ Cardinality({"me", "select"}) = 2
    <3>1. {"me", "select"} = {"me"} \cup {"select"}
      OBVIOUS
    <3> QED BY <2>1, <3>1, FS_AddElement
  <2>3. IsFiniteSet({"me", "select", "again"}) /\ Cardinality({"me", "select", "again"}) = 3
    <3>1. {"me", "select", "again"} = {"me", "select"} \cup {"again"}
      OBVIOUS
    <3> QED BY <2>2, <3>1, FS_AddElement
  <2>4. four = {"me", "select", "again"} \cup {"menu"}
    OBVIOUS
  <2> QED BY <2>3, <2>4, FS_AddElement
<1>3. IsFiniteSet(three) /\ Cardinality(three) = 3
  <2>1. IsFiniteSet({"probe"}) /\ Cardinality({"probe"}) = 1
    BY FS_Singleton
  <2>2. IsFiniteSet({"probe", "status"}) /\ Cardinality({"probe", "status"}) = 2
    <3>1. {"probe", "status"} = {"probe"} \cup {"status"}
      OBVIOUS
    <3> QED BY <2>1, <3>1, FS_AddElement
  <2>3. three = {"probe", "status"} \cup {"setup"}
    OBVIOUS
  <2> QED BY <2>2, <2>3, FS_AddElement
<1>4. IsFiniteSet(Slot \X four) /\ Cardinality(Slot \X four) = MaxLoads * 4
  BY <1>1, <1>2, FS_Product
<1>5. IsFiniteSet({0} \X three) /\ Cardinality({0} \X three) = 3
  <2>1. IsFiniteSet({0}) /\ Cardinality({0}) = 1
    BY FS_Singleton
  <2> QED BY <1>3, <2>1, FS_Product
<1> DEFINE all == (Slot \X four) \cup ({0} \X three)
<1>6. IsFiniteSet(all) /\ Cardinality(all) <= 4 * MaxLoads + 3
  <2>1. /\ IsFiniteSet(all)
        /\ Cardinality(all) = Cardinality(Slot \X four) + Cardinality({0} \X three)
                               - Cardinality((Slot \X four) \cap ({0} \X three))
        /\ IsFiniteSet((Slot \X four) \cap ({0} \X three))
    BY <1>4, <1>5, FS_Union, FS_Intersection
  <2>2. Cardinality((Slot \X four) \cap ({0} \X three)) \in Nat
    BY <2>1, FS_CardinalityType
  <2> HIDE DEF all, four, three
  <2> QED BY <1>4, <1>5, <2>1, <2>2, BoundsAssumption
<1>7. Ahead(x) \in SUBSET all
  BY DEF Ahead, OnPage
<1>8. IsFiniteSet(Ahead(x)) /\ Cardinality(Ahead(x)) <= Cardinality(all)
  <2> HIDE DEF all
  <2> QED BY <1>6, <1>7, FS_Subset
<1>9. Cardinality(Ahead(x)) \in Nat /\ Cardinality(all) \in Nat
  <2> HIDE DEF all
  <2> QED BY <1>6, <1>8, FS_CardinalityType
<1> QED
  <2> HIDE DEF all
  <2> QED BY <1>6, <1>8, <1>9, BoundsAssumption

\* What is ahead of a tab measures how far it is from rest: there is never more
\* than four requests for each load and three of a page, and nothing exactly when
\* the tab waits for no answer.
THEOREM AheadMeasures ==
    Spec => [](\A x \in Tab : /\ Cardinality(Ahead(x)) <= 4 * MaxLoads + 3
                              /\ Ahead(x) = {} <=> Quiet(x))
<1>1. TInv => \A x \in Tab : /\ Cardinality(Ahead(x)) <= 4 * MaxLoads + 3
                             /\ Ahead(x) = {} <=> Quiet(x)
  BY AheadBound, QuietAhead
<1> QED BY <1>1, AlwaysGood, PTL

=============================================================================
