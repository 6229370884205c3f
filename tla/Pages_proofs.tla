---------------------------- MODULE Pages_proofs ----------------------------
(***************************************************************************)
(* For any numbers of requests in flight, edits and writes, and any of the *)
(* pages: the rows on the screen are never older than rows shown before,   *)
(* an empty table is never a failure in disguise, answers are about the    *)
(* text that is typed, and changes that were confirmed stay and show.      *)
(***************************************************************************)
EXTENDS Pages, TLAPS

(* The parts of TypeOK, each of which few actions change. *)
RowTyped == row \in Row /\ seen \in Nat /\ acked \in SUBSET (Edit \cup {0})
ShownTyped == shown \in Shown
FlagsTyped ==
    err \in BOOLEAN /\ due \in BOOLEAN /\ rush \in SUBSET {"load", "write", "asks", "text"}
AsksTyped == asks \in [1 .. MaxAsks -> Ask]
FormTyped ==
    form \in Dialog /\ (form.state # "closed" => form.edit \in Edit /\ form.by \in page.writes)
PutsTyped == puts \in [1 .. MaxPuts -> Put]
CountsTyped == typed \in Nat /\ used \in 0 .. MaxEdits /\ left \in 0 .. MaxWrites

\* The page is one of those mounted; its writes in flight are its own, each with
\* an edit.
PageKnown ==
    /\ page \in Kinds
    /\ \A p \in 1 .. MaxPuts :
          puts[p].state # "free" => puts[p].by \in page.writes /\ puts[p].edit \in Edit

TInv ==
    /\ PageKnown
    /\ RowTyped /\ ShownTyped /\ FlagsTyped /\ AsksTyped /\ FormTyped /\ PutsTyped /\ CountsTyped

-----------------------------------------------------------------------------
(* What the pages have in common. *)

LEMMA WritesTyped ==
    /\ {SetMemberRoles, AddMember, RemoveMember, Cycle, CreateRoleDialog,
        RemoveClient, RemoveDevice, RemoveDept, PersonDialog, Act, StateDialog,
        ApplyDeletion, Impersonate, Decide, SaveProfile, SaveName} \subseteq Write
    /\ ClientDialog \cup DeviceDialog \cup DeptDialog \subseteq Write
BY DEF Write, Form, NewForm, Command, InPlace, SetMemberRoles, AddMember, RemoveMember, Cycle,
       CreateRoleDialog, ClientDialog, RemoveClient, DeviceDialog, RemoveDevice, DeptDialog,
       RemoveDept, PersonDialog, Act, StateDialog, ApplyDeletion, Impersonate, Decide,
       SaveProfile, SaveName

LEMMA UseResourceTyped ==
    ASSUME NEW writes \in SUBSET Write
    PROVE  UseResource(writes) \in PageRecord
BY DEF UseResource, PageRecord

LEMMA LoadedTyped ==
    ASSUME NEW again \in {"never", "render", "query", "address", "nonce"},
           NEW clears \in BOOLEAN, NEW failed \in {"kept", "empty", "none"},
           NEW alert \in {"instead", "above", "dismissible", "none"},
           NEW writes \in SUBSET Write
    PROVE  Loaded(again, clears, failed, alert, writes) \in PageRecord
BY DEF Loaded, PageRecord

LEMMA PagesTyped == Pages \subseteq PageRecord
<1>1. {MembersPage, AddMemberDialog, RolesPage, SSOClientsPage, DevicesPage,
       DepartmentsPage, PeoplePage} \subseteq PageRecord
  <2>1. MembersPage \in PageRecord
    <3> {SetMemberRoles, AddMember, RemoveMember} \in SUBSET Write
      BY WritesTyped
    <3> QED BY LoadedTyped DEF MembersPage
  <2>2. AddMemberDialog \in PageRecord
    <3> {} \in SUBSET Write
      OBVIOUS
    <3> QED BY LoadedTyped DEF AddMemberDialog
  <2>3. RolesPage \in PageRecord
    <3> {Cycle, CreateRoleDialog} \in SUBSET Write
      BY WritesTyped
    <3> QED BY LoadedTyped DEF RolesPage
  <2>4. SSOClientsPage \in PageRecord
    <3> ClientDialog \cup {RemoveClient} \in SUBSET Write
      BY WritesTyped
    <3> QED BY LoadedTyped DEF SSOClientsPage
  <2>5. DevicesPage \in PageRecord
    <3> DeviceDialog \cup {RemoveDevice} \in SUBSET Write
      BY WritesTyped
    <3> QED BY LoadedTyped DEF DevicesPage
  <2>6. DepartmentsPage \in PageRecord
    <3> DeptDialog \cup {RemoveDept} \in SUBSET Write
      BY WritesTyped
    <3> QED BY LoadedTyped DEF DepartmentsPage
  <2>7. PeoplePage \in PageRecord
    <3> {PersonDialog} \in SUBSET Write
      BY WritesTyped
    <3> QED BY LoadedTyped DEF PeoplePage
  <2> QED BY <2>1, <2>2, <2>3, <2>4, <2>5, <2>6, <2>7
<1>2. {StorePage, HistoryDialog, AuditPage, TenantsPage, UsersPage, AppsPage,
       PanelAuditPage, OverviewPage} \subseteq PageRecord
  BY WritesTyped, UseResourceTyped
  DEF StorePage, HistoryDialog, AuditPage, TenantsPage, UsersPage, AppsPage, PanelAuditPage,
      OverviewPage
<1>3. {MembersDialog, SettingsPage, ProfilePage, ConsentPage} \subseteq PageRecord
  BY WritesTyped DEF MembersDialog, SettingsPage, ProfilePage, ConsentPage, PageRecord
<1> QED BY <1>1, <1>2, <1>3 DEF Pages

(* A page whose cleanup guards calls no load after a write; a page that empties
   its rows on a failure shows the failure. *)
LEMMA PagesGuarded ==
    \A k \in Pages : k.guarded /\ k.again # "nonce" => \A w \in k.writes : w.loads = {}
<1> USE DEF MembersPage, AddMemberDialog, RolesPage, SSOClientsPage, DevicesPage,
            DepartmentsPage, PeoplePage, StorePage, HistoryDialog, AuditPage, TenantsPage,
            MembersDialog, UsersPage, AppsPage, PanelAuditPage, OverviewPage, SettingsPage,
            ProfilePage, ConsentPage, UseResource, Loaded
<1>1. \A k \in {MembersDialog, SettingsPage, ProfilePage, ConsentPage} :
          \A w \in k.writes : w.loads = {}
  BY DEF Impersonate, SaveProfile, SaveName, Decide, Command, InPlace
<1>2. \A k \in Pages \ {MembersDialog, SettingsPage, ProfilePage, ConsentPage} :
          ~k.guarded \/ k.again = "nonce"
  BY DEF Pages
<1> QED BY <1>1, <1>2

LEMMA PagesTell ==
    \A k \in Pages : k.failed = "empty" => k.alert # "none"
BY DEF Pages, MembersPage, AddMemberDialog, RolesPage, SSOClientsPage, DevicesPage,
       DepartmentsPage, PeoplePage, StorePage, HistoryDialog, AuditPage, TenantsPage,
       MembersDialog, UsersPage, AppsPage, PanelAuditPage, OverviewPage, SettingsPage,
       ProfilePage, ConsentPage, UseResource, Loaded

LEMMA KnownTyped ==
    ASSUME PageKnown
    PROVE  page \in Pages /\ page \in PageRecord /\ page.writes \subseteq Write
BY KindsAssumption, PagesTyped DEF PageKnown, PageRecord

-----------------------------------------------------------------------------
(* The operators the actions are built from. *)

LEMMA ConstantsTyped ==
    /\ NoRow \in Row /\ Idle \in Ask /\ NoPut \in Put
    /\ Loading \in Shown /\ Empty \in Shown /\ Closed \in Dialog
<1>1. Command \in Write
  BY DEF Command, Write
<1> QED BY <1>1 DEF NoRow, Row, Idle, Ask, NoPut, Put, Loading, Empty, Shown, Closed, Dialog

LEMMA WithTyped ==
    ASSUME NEW r \in Row, NEW e \in Edit
    PROVE  With(r, e) \in Row /\ With(r, e).at = r.at /\ With(r, e).mine = r.mine \cup {e}
BY DEF With, Row

LEMMA SentTyped ==
    ASSUME AsksTyped, NEW s \in 1 .. MaxAsks, NEW g \in BOOLEAN, NEW key \in Nat,
           Sent(s, g, key)
    PROVE  AsksTyped'
<1> SUFFICES ASSUME NEW r \in 1 .. MaxAsks
             PROVE  (IF r = s
                     THEN [state |-> "asked", live |-> TRUE, key |-> key, got |-> NoRow]
                     ELSE [asks[r] EXCEPT !.live = @ /\ ~g]) \in Ask
  BY DEF Sent, AsksTyped
<1>1. asks[r] \in Ask /\ asks[r].live \in BOOLEAN
  BY DEF AsksTyped, Ask
<1> QED BY <1>1, ConstantsTyped DEF Ask

LEMMA SendTyped ==
    ASSUME PageKnown, PutsTyped, CountsTyped, NEW p \in 1 .. MaxPuts, NEW w \in page.writes,
           NEW e \in Edit, NEW body \in Row, Send(p, w, e, body), UNCHANGED page
    PROVE  PageKnown' /\ PutsTyped' /\ left' \in 0 .. MaxWrites
<1>1. w \in Write
  BY KnownTyped
<1>2. [state |-> "sent", by |-> w, edit |-> e, body |-> body, key |-> typed] \in Put
  BY <1>1 DEF Put, CountsTyped
<1>3. PutsTyped'
  BY <1>2 DEF PutsTyped, Send
<1>4. PageKnown'
  BY DEF PageKnown, PutsTyped, Send
<1>5. left' \in 0 .. MaxWrites
  BY BoundsAssumption DEF CountsTyped, Send
<1> QED BY <1>3, <1>4, <1>5

LEMMA LoadTyped ==
    ASSUME PageKnown, FlagsTyped, AsksTyped, NEW key \in Nat, Load(key)
    PROVE  AsksTyped' /\ due' \in BOOLEAN /\ rush' \in SUBSET {"load", "write", "asks", "text"}
<1>1. CASE page.again = "nonce"
  BY <1>1 DEF Load, FlagsTyped, AsksTyped
<1>2. CASE page.again # "nonce"
  <2>1. AsksTyped'
    BY <1>2, SentTyped DEF Load
  <2> QED BY <1>2, <2>1 DEF Load, FlagsTyped, Rendered, Overlap
<1> QED BY <1>1, <1>2

\* Ending a request.
LEMMA IdleTyped ==
    ASSUME AsksTyped, NEW s \in 1 .. MaxAsks, asks' = [asks EXCEPT ![s] = Idle]
    PROVE  AsksTyped'
BY ConstantsTyped DEF AsksTyped

LEMMA NoPutTyped ==
    ASSUME PageKnown, PutsTyped, NEW p \in 1 .. MaxPuts, puts' = [puts EXCEPT ![p] = NoPut],
           UNCHANGED page
    PROVE  PageKnown' /\ PutsTyped'
BY ConstantsTyped DEF PageKnown, PutsTyped, NoPut

LEMMA RushTyped ==
    ASSUME FlagsTyped, Rush
    PROVE  rush' \in SUBSET {"load", "write", "asks", "text"}
BY DEF FlagsTyped, Rush

LEMMA NewEditTyped ==
    ASSUME CountsTyped, NewEdit
    PROVE  used + 1 \in Edit /\ used' \in 0 .. MaxEdits
BY BoundsAssumption DEF CountsTyped, NewEdit, Edit

\* What an action leaves alone keeps its type.
LEMMA Frame ==
    /\ PageKnown /\ UNCHANGED <<page, puts>> => PageKnown'
    /\ RowTyped /\ UNCHANGED <<row, seen, acked>> => RowTyped'
    /\ ShownTyped /\ UNCHANGED shown => ShownTyped'
    /\ FlagsTyped /\ UNCHANGED <<err, due, rush>> => FlagsTyped'
    /\ AsksTyped /\ UNCHANGED asks => AsksTyped'
    /\ FormTyped /\ UNCHANGED <<page, form>> => FormTyped'
    /\ PutsTyped /\ UNCHANGED puts => PutsTyped'
    /\ CountsTyped /\ UNCHANGED <<typed, used, left>> => CountsTyped'
BY DEF PageKnown, RowTyped, ShownTyped, FlagsTyped, AsksTyped, FormTyped, PutsTyped, CountsTyped

-----------------------------------------------------------------------------
(* Every action keeps the types. *)

LEMMA InitTyped == Init => TInv
<1> SUFFICES ASSUME Init PROVE TInv
  OBVIOUS
<1>1. AsksTyped /\ PutsTyped
  BY ConstantsTyped DEF Init, AsksTyped, PutsTyped
<1>2. PageKnown
  BY DEF Init, PageKnown, NoPut
<1>3. RowTyped /\ ShownTyped /\ FormTyped
  BY ConstantsTyped DEF Init, RowTyped, ShownTyped, FormTyped, Closed
<1>4. FlagsTyped
  BY DEF Init, FlagsTyped
<1>5. CountsTyped
  BY BoundsAssumption DEF Init, CountsTyped
<1> QED BY <1>1, <1>2, <1>3, <1>4, <1>5 DEF TInv

LEMMA RunEffectTyped == ASSUME TInv, RunEffect PROVE TInv'
<1> USE DEF TInv
<1>1. page.guarded \in BOOLEAN /\ page.blanks \in BOOLEAN
  BY KnownTyped DEF PageRecord
<1>2. AsksTyped'
  BY <1>1, SentTyped DEF RunEffect, CountsTyped
<1>3. ShownTyped'
  BY <1>1, ConstantsTyped DEF RunEffect, ShownTyped
<1>4. FlagsTyped'
  BY <1>1 DEF RunEffect, FlagsTyped, Overlap
<1> QED BY <1>2, <1>3, <1>4, Frame DEF RunEffect

LEMMA ReadTyped == ASSUME TInv, NEW s \in 1 .. MaxAsks, Read(s) PROVE TInv'
<1> USE DEF TInv
<1>1. asks[s] \in Ask /\ row \in Row
  BY DEF AsksTyped, RowTyped
<1>2. CASE asks' = [asks EXCEPT ![s].state = "read", ![s].got = row]
  <2>1. [asks[s] EXCEPT !.state = "read", !.got = row] \in Ask
    BY <1>1 DEF Ask
  <2> QED BY <1>2, <2>1, Frame DEF Read, AsksTyped
<1>3. CASE asks' = [asks EXCEPT ![s].state = "failed"]
  <2>1. [asks[s] EXCEPT !.state = "failed"] \in Ask
    BY <1>1 DEF Ask
  <2> QED BY <1>3, <2>1, Frame DEF Read, AsksTyped
<1> QED BY <1>2, <1>3 DEF Read

LEMMA SucceedsTyped == ASSUME TInv, NEW s \in 1 .. MaxAsks, Succeeds(s) PROVE TInv'
<1> USE DEF TInv
<1>1. asks[s] \in Ask
  BY DEF AsksTyped
<1>2. asks[s].key \in Nat /\ asks[s].got \in Row /\ asks[s].got.at \in Nat
  BY <1>1 DEF Ask, Row
<1>3. ShownTyped'
  BY <1>2 DEF Succeeds, ShownTyped, Shown
<1>4. FlagsTyped'
  BY DEF Succeeds, FlagsTyped, Rendered
<1>5. RowTyped'
  BY <1>2 DEF Succeeds, RowTyped
<1>6. AsksTyped'
  BY IdleTyped DEF Succeeds
<1> QED BY <1>3, <1>4, <1>5, <1>6, Frame DEF Succeeds

LEMMA FailsTyped == ASSUME TInv, NEW s \in 1 .. MaxAsks, Fails(s) PROVE TInv'
<1> USE DEF TInv
<1>1. page.failed \in {"kept", "empty", "none"}
  BY KnownTyped DEF PageRecord
<1>2. ShownTyped'
  BY <1>1, ConstantsTyped DEF Fails, ShownTyped
<1>3. FlagsTyped'
  BY DEF Fails, FlagsTyped, Rendered
<1>4. AsksTyped'
  BY IdleTyped DEF Fails
<1> QED BY <1>2, <1>3, <1>4, Frame DEF Fails

LEMMA DropsTyped == ASSUME TInv, NEW s \in 1 .. MaxAsks, Drops(s) \/ SignedOut(s) PROVE TInv'
BY IdleTyped, Frame DEF TInv, Drops, SignedOut

LEMMA AppliedTyped ==
    ASSUME RowTyped, NEW put \in Put, put.edit \in Edit
    PROVE  Applied(put) \in Row /\ Applied(put).at = row.at + 1
<1>1. put.body \in Row /\ With(row, put.edit) \in Row /\ row.at \in Nat
  BY WithTyped DEF Put, RowTyped, Row
<1>2. ASSUME NEW r \in Row
      PROVE  [r EXCEPT !.at = row.at + 1] \in Row /\ [r EXCEPT !.at = row.at + 1].at = row.at + 1
  BY <1>1 DEF Row
<1>3. CASE put.by.from \in {"rendered", "form", "page"}
  BY <1>1, <1>2, <1>3 DEF Applied
<1>4. CASE put.by.from \notin {"rendered", "form", "page"}
  BY <1>1, <1>2, <1>4 DEF Applied
<1> QED BY <1>3, <1>4

LEMMA ArriveTyped == ASSUME TInv, NEW p \in 1 .. MaxPuts, Arrive(p) PROVE TInv'
<1> USE DEF TInv
<1>1. puts[p] \in Put /\ puts[p].edit \in Edit
  BY DEF PutsTyped, PageKnown, Arrive
<1>2. RowTyped'
  <2>1. row' = Applied(puts[p]) \/ row' = row
    BY DEF Arrive
  <2> QED BY <1>1, <2>1, AppliedTyped DEF Arrive, RowTyped
<1>3. PICK st \in {"done", "refused"} : puts' = [puts EXCEPT ![p].state = st]
  BY DEF Arrive
<1>4. [puts[p] EXCEPT !.state = st] \in Put
  BY <1>1 DEF Put
<1>5. PutsTyped'
  BY <1>3, <1>4 DEF PutsTyped
<1>6. PageKnown'
  <2>1. \A r \in 1 .. MaxPuts : puts'[r].by = puts[r].by /\ puts'[r].edit = puts[r].edit
                               /\ (puts'[r].state # "free" => puts[r].state # "free")
    BY <1>1, <1>3 DEF PutsTyped, Put, Arrive
  <2> QED BY <2>1 DEF PageKnown, Arrive
<1> QED BY <1>2, <1>5, <1>6, Frame DEF Arrive

LEMMA ConfirmedTyped == ASSUME TInv, NEW p \in 1 .. MaxPuts, Confirmed(p) PROVE TInv'
<1> USE DEF TInv
<1>1. puts[p] \in Put
  BY DEF PutsTyped
<1>2. PageKnown' /\ PutsTyped'
  BY NoPutTyped DEF Confirmed
<1>3. RowTyped'
  BY <1>1 DEF Confirmed, RowTyped, Put
<1>4. FormTyped'
  BY ConstantsTyped DEF Confirmed, FormTyped, Closed
<1>5. AsksTyped' /\ due' \in BOOLEAN /\ rush' \in SUBSET {"load", "write", "asks", "text"}
  <2>1. CASE Load(puts[p].key)
    BY <2>1, LoadTyped DEF PutsTyped, Put
  <2>2. CASE Rendered /\ UNCHANGED <<asks, rush>>
    BY <2>2 DEF Rendered, AsksTyped, FlagsTyped
  <2> QED BY <2>1, <2>2 DEF Confirmed
<1>6. FlagsTyped'
  BY <1>5 DEF Confirmed, FlagsTyped
<1> QED BY <1>2, <1>3, <1>4, <1>5, <1>6, Frame DEF Confirmed

LEMMA RefusedTyped == ASSUME TInv, NEW p \in 1 .. MaxPuts, Refused(p) PROVE TInv'
<1> USE DEF TInv
<1>1. puts[p].by.tells \in BOOLEAN
  BY DEF PutsTyped, Put, Write
<1>2. PageKnown' /\ PutsTyped'
  BY NoPutTyped DEF Refused
<1>3. FormTyped'
  <2>1. form.state # "closed" => [form EXCEPT !.state = "open"] \in Dialog
                                 /\ [form EXCEPT !.state = "open"].edit = form.edit
    BY DEF FormTyped, Dialog
  <2>2. form.state # "closed" => [form EXCEPT !.state = "open"].by = form.by
    BY DEF FormTyped, Dialog
  <2> QED BY <2>1, <2>2 DEF Refused, FormTyped
<1>4. AsksTyped' /\ due' \in BOOLEAN /\ rush' \in SUBSET {"load", "write", "asks", "text"}
  <2>1. CASE Load(puts[p].key)
    BY <2>1, LoadTyped DEF PutsTyped, Put
  <2>2. CASE Rendered /\ UNCHANGED <<asks, rush>>
    BY <2>2 DEF Rendered, AsksTyped, FlagsTyped
  <2> QED BY <2>1, <2>2 DEF Refused
<1>5. FlagsTyped'
  BY <1>1, <1>4 DEF Refused, FlagsTyped
<1> QED BY <1>2, <1>3, <1>4, <1>5, Frame DEF Refused

LEMMA OthersWriteTyped == ASSUME TInv, OthersWrite PROVE TInv'
<1> USE DEF TInv
<1>1. RowTyped'
  <2>1. row \in Row /\ row.theirs \in Nat /\ row.at \in Nat
    BY DEF RowTyped, Row
  <2>2. ASSUME NEW r \in Row, NEW i \in Nat, NEW j \in Nat
        PROVE  [r EXCEPT !.theirs = i, !.at = j] \in Row
    BY DEF Row
  <2>3. row.theirs + 1 \in Nat /\ row.at + 1 \in Nat
    BY <2>1
  <2>4. row' \in Row
    BY <2>1, <2>2, <2>3 DEF OthersWrite
  <2> QED BY <2>4 DEF OthersWrite, RowTyped
<1>2. CountsTyped'
  BY BoundsAssumption DEF OthersWrite, CountsTyped
<1> QED BY <1>1, <1>2, Frame DEF OthersWrite

\* What the user does, one lemma for each act on the row and one for the rest.
LEMMA PressTyped ==
    ASSUME TInv, NEW p \in 1 .. MaxPuts, NEW w \in page.writes, Press(p, w) PROVE TInv'
<1> USE DEF TInv
<1>1. used + 1 \in Edit /\ used' \in 0 .. MaxEdits
  BY NewEditTyped DEF Press
<1>2. With(shown.row, used + 1) \in Row
  BY <1>1, WithTyped DEF ShownTyped, Shown
<1>3. PageKnown' /\ PutsTyped' /\ left' \in 0 .. MaxWrites
  BY <1>1, <1>2, SendTyped DEF Press
<1>4. FlagsTyped'
  BY RushTyped DEF Press, FlagsTyped
<1> QED BY <1>1, <1>3, <1>4, Frame DEF Press, CountsTyped

LEMMA OrderTyped ==
    ASSUME TInv, NEW p \in 1 .. MaxPuts, NEW w \in page.writes, Order(p, w) PROVE TInv'
<1> USE DEF TInv
<1>1. used + 1 \in Edit /\ used' \in 0 .. MaxEdits
  BY NewEditTyped DEF Order
<1>2. With(NoRow, used + 1) \in Row
  BY <1>1, WithTyped, ConstantsTyped
<1>3. PageKnown' /\ PutsTyped' /\ left' \in 0 .. MaxWrites
  BY <1>1, <1>2, SendTyped DEF Order
<1>4. FlagsTyped'
  BY RushTyped DEF Order, FlagsTyped, Rendered
<1> QED BY <1>1, <1>3, <1>4, Frame DEF Order, CountsTyped

LEMMA OpenFormTyped ==
    ASSUME TInv, NEW w \in page.writes, OpenForm(w) PROVE TInv'
<1> USE DEF TInv
<1>1. used + 1 \in Edit /\ used' \in 0 .. MaxEdits
  BY NewEditTyped DEF OpenForm
<1>2. With(IF w.from = "form" THEN shown.row ELSE NoRow, used + 1) \in Row
  BY <1>1, WithTyped, ConstantsTyped DEF ShownTyped, Shown
<1>3. w \in Write
  BY KnownTyped
<1>5. FormTyped'
  BY <1>1, <1>2, <1>3 DEF OpenForm, FormTyped, Dialog
<1>4. FlagsTyped'
  BY RushTyped DEF OpenForm, FlagsTyped, Rendered
<1> QED BY <1>1, <1>4, <1>5, Frame DEF OpenForm, CountsTyped

LEMMA SubmitFormTyped ==
    ASSUME TInv, NEW p \in 1 .. MaxPuts, SubmitForm(p) PROVE TInv'
<1> USE DEF TInv
<1>1. form \in Dialog /\ form.edit \in Edit /\ form.by \in page.writes /\ form.row \in Row
  BY DEF FormTyped, Dialog, SubmitForm
<1>2. PageKnown' /\ PutsTyped' /\ left' \in 0 .. MaxWrites
  BY <1>1, SendTyped DEF SubmitForm
<1>3. FormTyped'
  <2>1. /\ [form EXCEPT !.state = "busy"] \in Dialog
        /\ [form EXCEPT !.state = "busy"].edit = form.edit
        /\ [form EXCEPT !.state = "busy"].by = form.by
    BY <1>1 DEF Dialog
  <2> QED BY <1>1, <2>1 DEF SubmitForm, FormTyped
<1>4. FlagsTyped'
  BY RushTyped DEF SubmitForm, FlagsTyped
<1> QED BY <1>2, <1>3, <1>4, Frame DEF SubmitForm, CountsTyped

LEMMA TypeDraftTyped ==
    ASSUME TInv, NEW w \in page.writes, TypeDraft(w) PROVE TInv'
<1> USE DEF TInv
<1>1. used + 1 \in Edit /\ used' \in 0 .. MaxEdits
  BY NewEditTyped DEF TypeDraft
<1>2. With(shown.row, used + 1) \in Row /\ shown \in Shown
  BY <1>1, WithTyped DEF ShownTyped, Shown
<1>3. [shown EXCEPT !.row = With(shown.row, used + 1)] \in Shown
  BY <1>2 DEF Shown
<1>4. ShownTyped'
  BY <1>3 DEF TypeDraft, ShownTyped
<1>5. FlagsTyped'
  BY RushTyped DEF TypeDraft, FlagsTyped, Rendered
<1> QED BY <1>1, <1>4, <1>5, Frame DEF TypeDraft, CountsTyped

LEMMA SavePageTyped ==
    ASSUME TInv, NEW p \in 1 .. MaxPuts, NEW w \in page.writes, SavePage(p, w) PROVE TInv'
<1> USE DEF TInv
<1>1. used \in Edit /\ shown.row \in Row
  BY BoundsAssumption DEF SavePage, CountsTyped, Edit, ShownTyped, Shown
<1>2. PageKnown' /\ PutsTyped' /\ left' \in 0 .. MaxWrites
  BY <1>1, SendTyped DEF SavePage
<1>3. FlagsTyped'
  BY RushTyped DEF SavePage, FlagsTyped, Rendered
<1> QED BY <1>2, <1>3, Frame DEF SavePage, CountsTyped

LEMMA CloseFormTyped == ASSUME TInv, CloseForm PROVE TInv'
<1>1. FormTyped'
  BY ConstantsTyped DEF CloseForm, FormTyped, Closed
<1>2. FlagsTyped'
  BY DEF TInv, CloseForm, FlagsTyped, Rendered
<1> QED BY <1>1, <1>2, Frame DEF TInv, CloseForm

LEMMA TypeTyped == ASSUME TInv, Type PROVE TInv'
<1>1. CountsTyped'
  BY DEF TInv, Type, CountsTyped
<1>2. ShownTyped'
  BY ConstantsTyped DEF TInv, Type, ShownTyped
<1>3. FlagsTyped'
  BY DEF TInv, Type, FlagsTyped, Outrun
<1> QED BY <1>1, <1>2, <1>3, Frame DEF TInv, Type

LEMMA ButtonsTyped == ASSUME TInv, Retry \/ Dismiss PROVE TInv'
<1>1. FlagsTyped'
  BY DEF TInv, Retry, Dismiss, FlagsTyped, Rendered
<1> QED BY <1>1, Frame DEF TInv, Retry, Dismiss

LEMMA StutterTyped == ASSUME TInv, UNCHANGED vars PROVE TInv'
BY Frame DEF TInv, vars

LEMMA StepTyped == TInv /\ [Next]_vars => TInv'
<1> SUFFICES ASSUME TInv, [Next]_vars PROVE TInv'
  OBVIOUS
<1>1. CASE RunEffect
  BY <1>1, RunEffectTyped
<1>2. ASSUME NEW s \in 1 .. MaxAsks, Read(s) \/ Deliver(s) PROVE TInv'
  BY <1>2, ReadTyped, SucceedsTyped, FailsTyped, DropsTyped DEF Deliver
<1>3. ASSUME NEW p \in 1 .. MaxPuts, Arrive(p) \/ Answer(p) PROVE TInv'
  BY <1>3, ArriveTyped, ConfirmedTyped, RefusedTyped DEF Answer
<1>4. ASSUME NEW p \in 1 .. MaxPuts, NEW w \in page.writes,
             Press(p, w) \/ Order(p, w) \/ SavePage(p, w)
      PROVE  TInv'
  BY <1>4, PressTyped, OrderTyped, SavePageTyped
<1>5. ASSUME NEW w \in page.writes, OpenForm(w) \/ TypeDraft(w) PROVE TInv'
  BY <1>5, OpenFormTyped, TypeDraftTyped
<1>6. CASE CloseForm \/ Type \/ Retry \/ Dismiss \/ \E p \in 1 .. MaxPuts : SubmitForm(p)
  BY <1>6, CloseFormTyped, TypeTyped, ButtonsTyped, SubmitFormTyped
<1>7. CASE OthersWrite
  BY <1>7, OthersWriteTyped
<1>8. CASE UNCHANGED vars
  BY <1>8, StutterTyped
<1> QED BY <1>1, <1>2, <1>3, <1>4, <1>5, <1>6, <1>7, <1>8 DEF Next, Machine, User

\* The record of the page, the requests, the forms and the rows keep their types
\* on every page, whatever overtakes whatever.
THEOREM TypeCorrect == Spec => []TypeOK
<1>1. TInv => TypeOK
  BY KnownTyped DEF TInv, TypeOK, RowTyped, ShownTyped, FlagsTyped, AsksTyped, FormTyped,
                    PutsTyped, CountsTyped
<1> QED BY InitTyped, StepTyped, <1>1, PTL DEF Spec

-----------------------------------------------------------------------------
(* The rows on the screen are never older than rows shown before.  An answer  *)
(* that may still be shown is current; while no two GETs were in flight, or   *)
(* with a cleanup that guards, there is one at most, and it was read after    *)
(* everything that has been shown.                                            *)

Current(s) == IF page.guarded THEN asks[s].live ELSE asks[s].state # "free"
Clean == page.guarded \/ "asks" \notin rush

ReadBefore ==
    /\ seen <= row.at
    /\ \A s \in 1 .. MaxAsks : asks[s].state = "read" => asks[s].got.at <= row.at
OneCurrent == Clean => \A r, s \in 1 .. MaxAsks : Current(r) /\ Current(s) => r = s
CurrentIsNew ==
    Clean => \A s \in 1 .. MaxAsks :
                 asks[s].state = "read" /\ Current(s) => seen <= asks[s].got.at

NInv == ReadBefore /\ OneCurrent /\ CurrentIsNew /\ NewestShown

LEMMA NumbersTyped ==
    ASSUME TInv
    PROVE  /\ row.at \in Nat /\ seen \in Nat /\ page.guarded \in BOOLEAN
           /\ \A s \in 1 .. MaxAsks : asks[s].got.at \in Nat /\ asks[s].live \in BOOLEAN
BY KnownTyped DEF TInv, RowTyped, Row, AsksTyped, Ask, PageRecord

\* Steps that touch neither a request nor the rows on the screen.
LEMMA KeptNew ==
    ASSUME TInv, TInv', NInv, UNCHANGED <<page, asks, seen>>, row.at <= row'.at,
           "asks" \in rush => "asks" \in rush',
           shown'.state = "rows" => shown.state = "rows" /\ shown'.row.at = shown.row.at
    PROVE  NInv'
<1>1. Clean' => Clean
  BY DEF Clean
<1>2. ReadBefore'
  BY NumbersTyped DEF NInv, ReadBefore, TInv, RowTyped, Row
<1>3. OneCurrent' /\ CurrentIsNew'
  BY <1>1 DEF NInv, OneCurrent, CurrentIsNew, Current
<1>4. NewestShown'
  BY <1>1 DEF NInv, NewestShown, Clean
<1> QED BY <1>2, <1>3, <1>4 DEF NInv

\* A GET leaves.
LEMMA SentNew ==
    ASSUME TInv, NInv, NEW s \in 1 .. MaxAsks, FreeAsk(s), NEW g \in BOOLEAN, NEW key,
           Sent(s, g, key), page.guarded => g, UNCHANGED <<page, row, seen>>, rush' = rush \cup Overlap
    PROVE  ReadBefore' /\ OneCurrent' /\ CurrentIsNew'
<1>1. /\ asks'[s].state = "asked" /\ asks'[s].live
      /\ \A r \in 1 .. MaxAsks \ {s} :
            /\ asks'[r].state = asks[r].state /\ asks'[r].got = asks[r].got
            /\ asks'[r].live = (asks[r].live /\ ~g)
  BY DEF Sent, TInv, AsksTyped, Ask
<1>2. ReadBefore'
  BY <1>1 DEF NInv, ReadBefore
<1>3. CASE page.guarded
  <2>1. \A r \in 1 .. MaxAsks : Current(r)' => r = s
    BY <1>1, <1>3 DEF Current
  <2> QED BY <1>1, <1>2, <2>1 DEF OneCurrent, CurrentIsNew
<1>4. CASE ~page.guarded
  <2>1. Clean' => Clean /\ ~Asking
    BY <1>4 DEF Clean, Overlap
  <2>2. ASSUME Clean', NEW r \in 1 .. MaxAsks, Current(r)' PROVE r = s
    BY <1>1, <1>4, <2>1, <2>2 DEF Current, Asking
  <2> QED BY <1>1, <1>2, <2>2 DEF OneCurrent, CurrentIsNew
<1> QED BY <1>2, <1>3, <1>4

\* A request ends and nothing of it is shown.
LEMMA IdleNew ==
    ASSUME TInv, NInv, NEW s \in 1 .. MaxAsks, asks' = [asks EXCEPT ![s] = Idle],
           UNCHANGED <<page, row, rush, seen>>
    PROVE  ReadBefore' /\ OneCurrent' /\ CurrentIsNew'
<1>1. /\ asks'[s].state = "free" /\ ~asks'[s].live
      /\ \A r \in 1 .. MaxAsks \ {s} : asks'[r] = asks[r]
  BY DEF TInv, AsksTyped, Idle
<1>2. \A r \in 1 .. MaxAsks : Current(r)' => r # s /\ Current(r)
  BY <1>1 DEF Current
<1> QED BY <1>1, <1>2 DEF NInv, ReadBefore, OneCurrent, CurrentIsNew, Clean

LEMMA LoadNew ==
    ASSUME TInv, NInv, NEW w \in page.writes, w.loads # {}, NEW key, Load(key),
           UNCHANGED <<page, row, seen>>
    PROVE  ReadBefore' /\ OneCurrent' /\ CurrentIsNew' /\ (Clean' => Clean)
<1>1. page \in Pages
  BY KnownTyped DEF TInv
<1>2. CASE page.again = "nonce"
  BY <1>2 DEF Load, NInv, ReadBefore, OneCurrent, CurrentIsNew, Current, Clean
<1>3. CASE page.again # "nonce"
  <2>1. ~page.guarded
    BY <1>1, <1>3, PagesGuarded
  <2>2. PICK s \in 1 .. MaxAsks : FreeAsk(s) /\ Sent(s, FALSE, key)
    BY <1>3 DEF Load
  <2>3. rush' = rush \cup Overlap
    BY <1>3 DEF Load
  <2> QED BY <2>1, <2>2, <2>3, SentNew DEF Clean
<1> QED BY <1>2, <1>3

LEMMA InitNew == Init => NInv
<1> SUFFICES ASSUME Init PROVE NInv
  OBVIOUS
<1>1. \A s \in 1 .. MaxAsks : asks[s] = Idle
  BY DEF Init
<1>2. \A s \in 1 .. MaxAsks : asks[s].state = "free" /\ ~asks[s].live
  BY <1>1 DEF Idle
<1>3. row.at = 0 /\ seen = 0 /\ shown.state = "loading"
  BY DEF Init, NoRow, Loading
<1> QED BY <1>2, <1>3 DEF NInv, ReadBefore, OneCurrent, CurrentIsNew, Current, NewestShown

LEMMA RunEffectNew == ASSUME TInv, NInv, RunEffect PROVE NInv'
<1>1. PICK s \in 1 .. MaxAsks : FreeAsk(s) /\ Sent(s, page.guarded, typed)
  BY DEF RunEffect
<1>2. ReadBefore' /\ OneCurrent' /\ CurrentIsNew'
  BY <1>1, SentNew, NumbersTyped DEF RunEffect
<1>3. NewestShown'
  BY DEF RunEffect, NInv, NewestShown, Loading
<1> QED BY <1>2, <1>3 DEF NInv

\* What Read leaves of a request.
LEMMA ReadEffect ==
    ASSUME TInv, NEW s \in 1 .. MaxAsks, Read(s)
    PROVE  /\ \A r \in 1 .. MaxAsks \ {s} : asks'[r] = asks[r]
           /\ asks'[s].live = asks[s].live /\ asks'[s].key = asks[s].key
           /\ asks[s].state = "asked"
           /\ asks'[s].state \in {"read", "failed"}
           /\ asks'[s].state = "read" => asks'[s].got = row
<1>1. asks \in [1 .. MaxAsks -> Ask] /\ asks[s] \in Ask
  BY DEF TInv, AsksTyped
<1>2. CASE asks' = [asks EXCEPT ![s].state = "read", ![s].got = row]
  <2>1. asks'[s] = [asks[s] EXCEPT !.state = "read", !.got = row]
    BY <1>1, <1>2
  <2> QED BY <1>1, <1>2, <2>1 DEF Ask, Read
<1>3. CASE asks' = [asks EXCEPT ![s].state = "failed"]
  <2>1. asks'[s] = [asks[s] EXCEPT !.state = "failed"]
    BY <1>1, <1>3
  <2> QED BY <1>1, <1>3, <2>1 DEF Ask, Read
<1> QED BY <1>2, <1>3 DEF Read

LEMMA ReadNew == ASSUME TInv, NInv, NEW s \in 1 .. MaxAsks, Read(s) PROVE NInv'
<1>1. \A r \in 1 .. MaxAsks : Current(r)' => Current(r)
  BY ReadEffect DEF Read, Current
<1>2. \A r \in 1 .. MaxAsks :
          asks'[r].state = "read" => asks'[r] = asks[r] \/ asks'[r].got = row
  BY ReadEffect
<1>3. ReadBefore'
  BY <1>2, NumbersTyped DEF Read, NInv, ReadBefore
<1>4. OneCurrent'
  BY <1>1 DEF Read, NInv, OneCurrent, Clean
<1>5. CurrentIsNew'
  BY <1>1, <1>2 DEF Read, NInv, CurrentIsNew, ReadBefore, Clean
<1>6. NewestShown'
  BY DEF Read, NInv, NewestShown
<1> QED BY <1>3, <1>4, <1>5, <1>6 DEF NInv

LEMMA SucceedsNew == ASSUME TInv, NInv, NEW s \in 1 .. MaxAsks, Succeeds(s) PROVE NInv'
<1>1. Current(s)
  BY DEF Succeeds, Current
<1>2. /\ asks'[s].state = "free" /\ ~asks'[s].live
      /\ \A r \in 1 .. MaxAsks \ {s} : asks'[r] = asks[r]
  BY DEF Succeeds, TInv, AsksTyped, Idle
<1>3. \A r \in 1 .. MaxAsks : Current(r)' => r # s /\ Current(r)
  BY <1>2 DEF Current, Succeeds
<1>4. ReadBefore'
  BY <1>2, NumbersTyped DEF Succeeds, NInv, ReadBefore
<1>5. OneCurrent'
  BY <1>3 DEF Succeeds, NInv, OneCurrent, Clean
<1>6. Clean => \A r \in 1 .. MaxAsks : ~Current(r)'
  BY <1>1, <1>3 DEF NInv, OneCurrent
<1>7. CurrentIsNew'
  BY <1>6 DEF Succeeds, CurrentIsNew, Clean
<1>8. Clean => seen <= asks[s].got.at
  BY <1>1 DEF Succeeds, NInv, CurrentIsNew
<1>9. NewestShown'
  BY <1>8, NumbersTyped DEF Succeeds, NewestShown, Clean
<1> QED BY <1>4, <1>5, <1>7, <1>9 DEF NInv

LEMMA FailsNew == ASSUME TInv, NInv, NEW s \in 1 .. MaxAsks, Fails(s) PROVE NInv'
<1>1. ReadBefore' /\ OneCurrent' /\ CurrentIsNew'
  BY IdleNew DEF Fails
<1>2. page.failed \in {"kept", "empty", "none"}
  BY KnownTyped DEF TInv, PageRecord
<1>3. NewestShown'
  BY <1>2 DEF Fails, NInv, NewestShown, Empty, Loading
<1> QED BY <1>1, <1>3 DEF NInv

LEMMA DropsNew == ASSUME TInv, NInv, NEW s \in 1 .. MaxAsks, Drops(s) \/ SignedOut(s) PROVE NInv'
<1>1. ReadBefore' /\ OneCurrent' /\ CurrentIsNew'
  BY IdleNew DEF Drops, SignedOut
<1>2. NewestShown'
  BY DEF Drops, SignedOut, NInv, NewestShown
<1> QED BY <1>1, <1>2 DEF NInv

\* A write was answered.
LEMMA AnswerNew == ASSUME TInv, NInv, NEW p \in 1 .. MaxPuts, Answer(p) PROVE NInv'
<1>1. puts[p].by \in page.writes
  BY DEF TInv, PageKnown, Answer, Confirmed, Refused
<1>2. UNCHANGED <<page, row, seen, shown>>
  BY DEF Answer, Confirmed, Refused
<1>3. ReadBefore' /\ OneCurrent' /\ CurrentIsNew' /\ (Clean' => Clean)
  <2>1. CASE puts[p].by.loads # {} /\ Load(puts[p].key)
    BY <1>1, <1>2, <2>1, LoadNew
  <2>2. CASE UNCHANGED <<asks, rush>>
    BY <1>2, <2>2 DEF NInv, ReadBefore, OneCurrent, CurrentIsNew, Current, Clean
  <2> QED BY <2>1, <2>2 DEF Answer, Confirmed, Refused
<1>4. NewestShown'
  BY <1>2, <1>3 DEF NInv, NewestShown, Clean
<1> QED BY <1>3, <1>4 DEF NInv

LEMMA ArriveNew == ASSUME TInv, TInv', NInv, NEW p \in 1 .. MaxPuts, Arrive(p) PROVE NInv'
<1>1. puts[p] \in Put /\ puts[p].edit \in Edit
  BY DEF TInv, PutsTyped, PageKnown, Arrive
<1>2. row'.at = row.at + 1 \/ row' = row
  BY <1>1, AppliedTyped DEF TInv, Arrive
<1>3. row.at <= row'.at
  BY <1>2, NumbersTyped
<1> QED BY <1>3, KeptNew DEF Arrive

LEMMA OthersWriteNew == ASSUME TInv, TInv', NInv, OthersWrite PROVE NInv'
<1>1. row'.at = row.at + 1
  BY DEF TInv, OthersWrite, RowTyped, Row
<1>2. row.at <= row'.at
  BY <1>1, NumbersTyped
<1> QED BY <1>2, KeptNew DEF OthersWrite

LEMMA UserNew == ASSUME TInv, TInv', NInv, User PROVE NInv'
<1>1. UNCHANGED <<page, asks, seen, row>>
  BY DEF User, Press, Order, SubmitForm, SavePage, OpenForm, TypeDraft, CloseForm, Type, Retry,
         Dismiss
<1>2. "asks" \in rush => "asks" \in rush'
  BY DEF User, Press, Order, SubmitForm, SavePage, OpenForm, TypeDraft, CloseForm, Type, Retry,
         Dismiss, Rush
<1>3. shown'.state = "rows" => shown.state = "rows" /\ shown'.row.at = shown.row.at
  <2>1. ASSUME NEW w \in page.writes, TypeDraft(w)
        PROVE  shown'.state = shown.state /\ shown'.row.at = shown.row.at
    <3>1. used + 1 \in Edit /\ shown \in Shown /\ shown.row \in Row
      BY <2>1, NewEditTyped DEF TInv, TypeDraft, ShownTyped, Shown
    <3>2. shown'.state = shown.state /\ shown'.row = With(shown.row, used + 1)
      BY <2>1, <3>1 DEF TypeDraft, Shown
    <3> QED BY <3>1, <3>2, WithTyped
  <2>2. CASE UNCHANGED shown \/ shown' = Loading
    BY <2>2 DEF Loading
  <2> QED
    BY <2>1, <2>2 DEF User, Press, Order, SubmitForm, SavePage, OpenForm, CloseForm, Type, Retry,
                      Dismiss
<1>4. row.at <= row'.at
  BY <1>1, NumbersTyped
<1> QED BY <1>1, <1>2, <1>3, <1>4, KeptNew

LEMMA StepNew == TInv /\ NInv /\ [Next]_vars => NInv'
<1> SUFFICES ASSUME TInv, NInv, [Next]_vars PROVE NInv'
  OBVIOUS
<1>1. TInv'
  BY StepTyped
<1>2. CASE RunEffect
  BY <1>2, RunEffectNew
<1>3. ASSUME NEW s \in 1 .. MaxAsks, Read(s) \/ Deliver(s) PROVE NInv'
  BY <1>3, ReadNew, SucceedsNew, FailsNew, DropsNew DEF Deliver
<1>4. ASSUME NEW p \in 1 .. MaxPuts, Arrive(p) \/ Answer(p) PROVE NInv'
  BY <1>1, <1>4, ArriveNew, AnswerNew
<1>5. CASE User
  BY <1>1, <1>5, UserNew
<1>6. CASE OthersWrite
  BY <1>1, <1>6, OthersWriteNew
<1>7. CASE UNCHANGED vars
  BY <1>7 DEF vars, NInv, ReadBefore, OneCurrent, CurrentIsNew, NewestShown, Current, Clean
<1> QED BY <1>2, <1>3, <1>4, <1>5, <1>6, <1>7 DEF Next, Machine

\* Whatever overtakes whatever, a page with a cleanup that guards never goes back
\* to older rows, and the others do not while one GET is in flight at a time.
THEOREM NeverOlder == Spec => []NewestShown
<1>1. NInv => NewestShown
  BY DEF NInv
<1> QED BY InitTyped, StepTyped, InitNew, StepNew, <1>1, PTL DEF Spec

-----------------------------------------------------------------------------
(* A failure that empties a table is told.                                    *)

EmptyTold ==
    shown.state = "empty" => page.failed = "empty" /\ (page.alert = "dismissible" \/ err)

LEMMA StepTold == TInv /\ EmptyTold /\ [Next]_vars => EmptyTold'
<1> SUFFICES ASSUME TInv, EmptyTold, [Next]_vars PROVE EmptyTold'
  OBVIOUS
<1>1. page \in Pages /\ page \in PageRecord
  BY KnownTyped DEF TInv
<1>2. CASE RunEffect
  BY <1>2 DEF RunEffect, EmptyTold, Loading
<1>3. ASSUME NEW s \in 1 .. MaxAsks, Read(s) \/ Deliver(s) PROVE EmptyTold'
  <2>1. CASE Read(s) \/ Drops(s) \/ SignedOut(s)
    BY <2>1 DEF Read, Drops, SignedOut, EmptyTold
  <2>2. CASE Succeeds(s)
    BY <2>2 DEF Succeeds, EmptyTold
  <2>3. CASE Fails(s)
    <3>1. page.failed = "empty" => page.alert # "none"
      BY <1>1, PagesTell
    <3>2. page.failed \in {"kept", "empty", "none"}
      BY <1>1 DEF PageRecord
    <3> QED BY <2>3, <3>1, <3>2 DEF Fails, EmptyTold, Loading
  <2> QED BY <1>3, <2>1, <2>2, <2>3 DEF Deliver
<1>4. ASSUME NEW p \in 1 .. MaxPuts, Arrive(p) \/ Answer(p) PROVE EmptyTold'
  BY <1>4 DEF Arrive, Answer, Confirmed, Refused, EmptyTold
<1>5. CASE User
  <2>1. ASSUME NEW w \in page.writes, TypeDraft(w) PROVE EmptyTold'
    <3>1. shown \in Shown /\ shown.state = "rows"
      BY <2>1 DEF TInv, ShownTyped, TypeDraft, Table
    <3>2. shown'.state = "rows"
      BY <2>1, <3>1 DEF TypeDraft, Shown
    <3> QED BY <3>2 DEF EmptyTold
  <2>2. CASE Dismiss
    BY <2>2 DEF Dismiss, EmptyTold
  <2>3. CASE UNCHANGED <<page, err>> /\ (UNCHANGED shown \/ shown' = Loading)
    BY <2>3 DEF EmptyTold, Loading
  <2> QED
    BY <1>5, <2>1, <2>2, <2>3 DEF User, Press, Order, SubmitForm, SavePage, OpenForm, CloseForm,
                                  Type, Retry
<1>6. CASE OthersWrite \/ UNCHANGED vars
  BY <1>6 DEF OthersWrite, vars, EmptyTold
<1> QED BY <1>2, <1>3, <1>4, <1>5, <1>6 DEF Next, Machine

\* An empty table is never a failure that nobody told.
THEOREM FailureTold == Spec => []NoSilentEmpty
<1>1. Init => EmptyTold
  BY DEF Init, EmptyTold, Loading
<1>2. EmptyTold => NoSilentEmpty
  BY DEF EmptyTold, NoSilentEmpty
<1> QED BY InitTyped, StepTyped, <1>1, <1>2, StepTold, PTL DEF Spec

-----------------------------------------------------------------------------
(* What is shown is about the text that is typed.                             *)

LEMMA PagesTimed ==
    \A k \in Pages : k.again \in {"query", "address"} =>
        ~k.guarded /\ k.failed # "kept" /\ (k.again = "address" => k.writes = {})
BY DEF Pages, MembersPage, AddMemberDialog, RolesPage, SSOClientsPage, DevicesPage,
       DepartmentsPage, PeoplePage, StorePage, HistoryDialog, AuditPage, TenantsPage,
       MembersDialog, UsersPage, AppsPage, PanelAuditPage, OverviewPage, SettingsPage,
       ProfilePage, ConsentPage, UseResource, Loaded

Timed == page.again \in {"query", "address"} /\ rush \cap {"asks", "text"} = {}
AsksOfTyped == ~due => \A s \in 1 .. MaxAsks : asks[s].state # "free" => asks[s].key = typed
PutsOfTyped == \A p \in 1 .. MaxPuts : puts[p].state # "free" => puts[p].key = typed
ShownOfTyped == ~due /\ ~Asking /\ shown.state = "rows" => shown.key = typed

\* While a GET is due, those in flight may be about an older text; the reload that
\* a write will ask for never is.
OfTyped == Timed => AsksOfTyped /\ PutsOfTyped /\ ShownOfTyped

\* A GET leaves, when none is in flight.
LEMMA SentOfTyped ==
    ASSUME TInv, NEW s \in 1 .. MaxAsks, FreeAsk(s), NEW g \in BOOLEAN, NEW key \in Nat,
           Sent(s, g, key), ~Asking, typed' = key
    PROVE  AsksOfTyped' /\ Asking'
<1>1. /\ asks'[s].state = "asked" /\ asks'[s].key = key
      /\ \A r \in 1 .. MaxAsks \ {s} : asks'[r].state = "free"
  BY DEF Sent, Asking, TInv, AsksTyped, Ask
<1> QED BY <1>1 DEF AsksOfTyped, Asking

\* What overlapped is not forgotten.
LEMMA RushGrows == ASSUME TInv, [Next]_vars PROVE page' = page /\ rush \subseteq rush'
<1>1. rush \in SUBSET {"load", "write", "asks", "text"}
  BY DEF TInv, FlagsTyped
<1> QED
  BY <1>1 DEF Next, Machine, User, RunEffect, Read, Deliver, Succeeds, Fails, Drops, SignedOut, Arrive,
    Answer, Confirmed, Refused, Load, Press, Order, SubmitForm, SavePage, OpenForm, TypeDraft, CloseForm,
    Type, Retry, Dismiss, Rush, Outrun, OthersWrite, vars

\* What an arrival does to a write and to the row.
LEMMA ArriveEffect ==
    ASSUME TInv, NEW p \in 1 .. MaxPuts, Arrive(p)
    PROVE  /\ puts[p].state = "sent" /\ puts'[p].state \in {"done", "refused"}
           /\ puts'[p].by = puts[p].by /\ puts'[p].edit = puts[p].edit
           /\ puts'[p].body = puts[p].body
           /\ \A q \in 1 .. MaxPuts \ {p} : puts'[q] = puts[q]
           /\ (row' = row /\ puts'[p].state = "refused") \/ row' = Applied(puts[p])
<1>1. puts \in [1 .. MaxPuts -> Put] /\ puts[p] \in Put
  BY DEF TInv, PutsTyped
<1>2. PICK st \in {"done", "refused"} :
          /\ puts' = [puts EXCEPT ![p].state = st]
          /\ (row' = row /\ st = "refused") \/ row' = Applied(puts[p])
  BY DEF Arrive
<1>3. puts'[p] = [puts[p] EXCEPT !.state = st]
  BY <1>1, <1>2
<1> QED BY <1>1, <1>2, <1>3 DEF Put, Arrive

\* An answer frees the slot of its write.
LEMMA AnswerEffect ==
    ASSUME TInv, NEW p \in 1 .. MaxPuts, Answer(p)
    PROVE  puts'[p].state = "free" /\ \A q \in 1 .. MaxPuts \ {p} : puts'[q] = puts[q]
<1>1. puts' = [puts EXCEPT ![p] = NoPut]
  BY DEF Answer, Confirmed, Refused
<1> QED BY <1>1 DEF TInv, PutsTyped, NoPut

\* The text that the reload of a write will ask with.
LEMMA StepPutsOfTyped ==
    ASSUME TInv, [Next]_vars, Timed', PutsOfTyped PROVE PutsOfTyped'
<1>1. ASSUME NEW p \in 1 .. MaxPuts, Arrive(p) PROVE PutsOfTyped'
  <2>1. puts'[p].key = puts[p].key
    <3>1. puts \in [1 .. MaxPuts -> Put] /\ puts[p] \in Put
      BY DEF TInv, PutsTyped
    <3>2. PICK st \in {"done", "refused"} : puts' = [puts EXCEPT ![p].state = st]
      BY <1>1 DEF Arrive
    <3>3. puts'[p] = [puts[p] EXCEPT !.state = st]
      BY <3>1, <3>2
    <3> QED BY <3>1, <3>3 DEF Put
  <2> QED BY <1>1, <2>1, ArriveEffect DEF Arrive, PutsOfTyped
<1>2. ASSUME NEW p \in 1 .. MaxPuts, Answer(p) PROVE PutsOfTyped'
  BY <1>2, AnswerEffect DEF Answer, Confirmed, Refused, PutsOfTyped
<1>3. ASSUME NEW p \in 1 .. MaxPuts, NEW w, NEW edit, NEW body, Send(p, w, edit, body),
             UNCHANGED typed
      PROVE  PutsOfTyped'
  <2>1. /\ puts'[p] = [state |-> "sent", by |-> w, edit |-> edit, body |-> body, key |-> typed]
        /\ \A q \in 1 .. MaxPuts \ {p} : puts'[q] = puts[q]
    BY <1>3 DEF Send, TInv, PutsTyped
  <2> QED BY <1>3, <2>1 DEF PutsOfTyped
<1>4. CASE UNCHANGED <<puts, typed>>
  BY <1>4 DEF PutsOfTyped
<1>5. CASE Type
  <2>1. CASE rush' = rush \cup Outrun
    <3>1. ~Writing
      BY <2>1 DEF Outrun, Timed
    <3> QED BY <1>5, <3>1 DEF Type, Writing, PutsOfTyped
  <2>2. CASE page.again = "address"
    <3>1. page.writes = {}
      BY <2>2, KnownTyped, PagesTimed DEF TInv
    <3> QED BY <1>5, <3>1 DEF Type, PutsOfTyped, TInv, PageKnown
  <2> QED BY <1>5, <2>1, <2>2 DEF Type
<1>6. CASE User
  BY <1>3, <1>4, <1>5, <1>6 DEF User, Press, Order, SubmitForm, SavePage, OpenForm, TypeDraft,
                                CloseForm, Retry, Dismiss
<1> QED
  BY <1>1, <1>2, <1>4, <1>6 DEF Next, Machine, RunEffect, Read, Deliver, Succeeds, Fails, Drops,
                                SignedOut, OthersWrite, vars

LEMMA StepOfTyped == TInv /\ OfTyped /\ [Next]_vars => OfTyped'
<1> SUFFICES ASSUME TInv, OfTyped, [Next]_vars, Timed'
             PROVE  AsksOfTyped' /\ PutsOfTyped' /\ ShownOfTyped'
  BY DEF OfTyped
<1>0. page' = page /\ rush \subseteq rush'
  BY RushGrows
<1>1. Timed /\ AsksOfTyped /\ PutsOfTyped /\ ShownOfTyped
  BY <1>0 DEF Timed, OfTyped
<1>2. page.again \in {"query", "address"} /\ ~page.guarded /\ page.failed \in {"empty", "none"}
  BY <1>1, KnownTyped, PagesTimed DEF TInv, Timed, PageRecord
<1>3. due \in BOOLEAN /\ typed \in Nat
  BY DEF TInv, FlagsTyped, CountsTyped
<1> SUFFICES AsksOfTyped' /\ ShownOfTyped'
  BY <1>1, StepPutsOfTyped
<1>4. CASE RunEffect
  <2>1. ~Asking
    BY <1>4 DEF RunEffect, Timed, Overlap
  <2>2. PICK s \in 1 .. MaxAsks : FreeAsk(s) /\ Sent(s, FALSE, typed)
    BY <1>2, <1>4, NumbersTyped DEF RunEffect
  <2>3. typed' = typed
    BY <1>4 DEF RunEffect
  <2> QED BY <1>3, <2>1, <2>2, <2>3, SentOfTyped DEF ShownOfTyped
<1>5. ASSUME NEW s \in 1 .. MaxAsks, Read(s) \/ Deliver(s) PROVE AsksOfTyped' /\ ShownOfTyped'
  <2>1. CASE Read(s)
    <3>1. AsksOfTyped' /\ Asking'
      BY <1>1, <2>1, ReadEffect DEF AsksOfTyped, Asking, Read
    <3> QED BY <3>1 DEF ShownOfTyped
  <2>2. ~Drops(s) /\ ~SignedOut(s)
    BY <1>2 DEF Drops, SignedOut
  <2>3. CASE Succeeds(s) \/ Fails(s)
    <3>0. asks' = [asks EXCEPT ![s] = Idle] /\ asks[s].state # "free"
      BY <2>3 DEF Succeeds, Fails
    <3>1. /\ asks'[s].state = "free" /\ asks[s].state # "free"
          /\ \A r \in 1 .. MaxAsks \ {s} : asks'[r] = asks[r]
      BY <3>0 DEF TInv, AsksTyped, Idle
    <3>2. UNCHANGED <<due, typed>>
      BY <1>2, <1>3, <2>3 DEF Succeeds, Fails, Rendered
    <3>3. AsksOfTyped'
      BY <1>1, <3>1, <3>2 DEF AsksOfTyped
    <3>4. CASE Succeeds(s)
      BY <1>1, <3>1, <3>2, <3>3, <3>4 DEF Succeeds, AsksOfTyped, ShownOfTyped
    <3>5. CASE Fails(s)
      BY <1>2, <3>3, <3>5 DEF Fails, ShownOfTyped, Empty, Loading
    <3> QED BY <2>3, <3>4, <3>5, <3>3
  <2> QED BY <1>5, <2>1, <2>2, <2>3 DEF Deliver
<1>6. ASSUME NEW p \in 1 .. MaxPuts, Arrive(p) \/ Answer(p) PROVE AsksOfTyped' /\ ShownOfTyped'
  <2>1. UNCHANGED <<typed, shown>>
    BY <1>6 DEF Arrive, Answer, Confirmed, Refused
  <2>2. CASE puts[p].state # "free" /\ Load(puts[p].key)
    <3>1. PICK s \in 1 .. MaxAsks : FreeAsk(s) /\ Sent(s, FALSE, puts[p].key)
      BY <1>2, <2>2 DEF Load
    <3>2. ~Asking
      BY <1>2, <2>2 DEF Load, Timed, Overlap
    <3>3. puts[p].key = typed
      BY <1>1, <2>2 DEF PutsOfTyped
    <3> QED BY <1>3, <2>1, <3>1, <3>2, <3>3, SentOfTyped DEF ShownOfTyped
  <2>3. CASE UNCHANGED <<asks, due>>
    BY <1>1, <2>1, <2>3 DEF AsksOfTyped, ShownOfTyped, Asking
  <2>4. Rendered => UNCHANGED due
    BY <1>2, <1>3 DEF Rendered
  <2> QED BY <1>6, <2>2, <2>3, <2>4 DEF Arrive, Answer, Confirmed, Refused
<1>7. CASE User
  <2>1. UNCHANGED asks
    BY <1>7 DEF User, Press, Order, SubmitForm, SavePage, OpenForm, TypeDraft, CloseForm, Type,
                Retry, Dismiss
  <2>2. Rendered => UNCHANGED due
    BY <1>2, <1>3 DEF Rendered
  <2>3. CASE Type
    <3>1. CASE due'
      BY <3>1 DEF AsksOfTyped, ShownOfTyped
    <3>2. CASE ~due' /\ shown' = Loading /\ rush' = rush \cup (IF Asking THEN {"text"} ELSE {})
      <4>1. ~Asking
        BY <3>2 DEF Timed
      <4> QED BY <2>1, <3>2, <4>1 DEF Asking, AsksOfTyped, ShownOfTyped, Loading
    <3> QED BY <2>3, <3>1, <3>2 DEF Type
  <2>4. ASSUME NEW w \in page.writes, TypeDraft(w) PROVE AsksOfTyped' /\ ShownOfTyped'
    <3>1. shown \in Shown
      BY DEF TInv, ShownTyped
    <3>2. shown'.state = shown.state /\ shown'.key = shown.key
      BY <2>4, <3>1 DEF TypeDraft, Shown
    <3> QED BY <1>1, <2>1, <2>2, <2>4, <3>2 DEF TypeDraft, AsksOfTyped, ShownOfTyped, Asking
  <2>5. CASE UNCHANGED <<typed, shown, due>>
    BY <1>1, <2>1, <2>5 DEF AsksOfTyped, ShownOfTyped, Asking
  <2>6. ~Retry
    BY <1>2 DEF Retry
  <2> QED
    BY <1>7, <2>2, <2>3, <2>4, <2>5, <2>6
    DEF User, Press, Order, SubmitForm, SavePage, OpenForm, CloseForm, Dismiss
<1>8. CASE OthersWrite \/ UNCHANGED vars
  BY <1>1, <1>8 DEF OthersWrite, vars, AsksOfTyped, ShownOfTyped, Asking
<1> QED BY <1>4, <1>5, <1>6, <1>7, <1>8 DEF Next, Machine

\* The rows of a search, or the answer of a lookup, are those of the text on the
\* screen once nothing is on its way, however the user types, unless two GETs met
\* or a text changed that a reload, or a lookup under way, still had.
THEOREM AnswersAreOfTyped == Spec => []AnswersTyped
<1>1. Init => OfTyped
  <2> SUFFICES ASSUME Init PROVE AsksOfTyped /\ PutsOfTyped /\ ShownOfTyped
    BY DEF OfTyped
  <2> QED BY DEF Init, AsksOfTyped, PutsOfTyped, ShownOfTyped, Idle, NoPut, Loading
<1>2. OfTyped => AnswersTyped
  BY DEF OfTyped, Timed, ShownOfTyped, AnswersTyped
<1> QED BY InitTyped, StepTyped, <1>1, <1>2, StepOfTyped, PTL DEF Spec

-----------------------------------------------------------------------------
(* A change that was answered with success stays in the row, and what rests   *)
(* shows it.  On a page whose writes are commands this is so because commands *)
(* only add.  On one that writes whole rows it is so because what such a      *)
(* write is made of has all that was confirmed before.                        *)

Calm ==
    /\ "write" \notin rush
    /\ page.blanks \/ rush = {}
    /\ \A w \in page.writes : "ok" \in w.loads

\* One write at a time.
OnePut ==
    \A p, q \in 1 .. MaxPuts : puts[p].state # "free" /\ puts[q].state # "free" => p = q

\* The rows in a write that replaces the row, and those in the dialog.
BodiesFull ==
    \A p \in 1 .. MaxPuts : puts[p].state # "free" /\ Whole(puts[p].by) =>
        acked \cup {puts[p].edit} \subseteq puts[p].body.mine
DialogFull ==
    form.state # "closed" /\ Whole(form.by) => acked \cup {form.edit} \subseteq form.row.mine
DialogAlone ==
    /\ form.state = "open" =>
          \A p \in 1 .. MaxPuts : puts[p].state # "free" => puts[p].by.from = "inside"
    /\ form.state = "busy" =>
          \E p \in 1 .. MaxPuts :
              /\ puts[p].state # "free"
              /\ puts[p].by.from \in {"form", "new"} /\ puts[p].edit = form.edit
DialogKnown == form.state # "closed" => form.by.from \in {"form", "new"}

\* The rows on their way and those on the screen.  A page that empties its
\* state has an effect due when they are old; on the others an answer about
\* the rows is then on its way.
AnswersFull ==
    \A s \in 1 .. MaxAsks : asks[s].state = "read" =>
        \/ page.blanks /\ (due \/ ~asks[s].live)
        \/ acked \subseteq asks[s].got.mine
ScreenFull ==
    Table => \/ page.blanks /\ due
             \/ ~page.blanks /\ Asking
             \/ acked \subseteq shown.row.mine

\* What was done, on any page but one whose state is the form.
DoneKept ==
    /\ acked \subseteq row.mine
    /\ \A p \in 1 .. MaxPuts : puts[p].state = "done" => puts[p].edit \in row.mine

Full ==
    /\ OnePut /\ BodiesFull /\ DoneKept
    /\ DialogFull /\ DialogAlone /\ DialogKnown
    /\ AnswersFull /\ ScreenFull

\* Pages whose writes replace nothing.
Adding == \A w \in page.writes : w.from \in {"row", "new", "inside"}

KInv == (Adding => DoneKept) /\ (Calm => Full)

(* What the pages have in common here: where every write asks again, none is
   made of the page's own state. *)
PageKinds(k) ==
    /\ \A w \in k.writes : w.from = "page" => w.loads = {}
    /\ k.blanks =>
          /\ k.guarded /\ k.again = "nonce" /\ k.failed = "none"
          /\ \A w \in k.writes : "refused" \notin w.loads
    /\ ~k.blanks /\ (\A w \in k.writes : "ok" \in w.loads) =>
          /\ ~k.guarded /\ k.again # "nonce"
          /\ k.failed = "kept" => k.alert = "instead"
    /\ \/ \A w \in k.writes : "ok" \in w.loads
       \/ \E w \in k.writes : w.from = "page"
       \/ \A w \in k.writes : w.from \in {"row", "new", "inside"}

LEMMA PagesOfAKind == \A k \in Pages : PageKinds(k)
<1> USE DEF SetMemberRoles, AddMember, RemoveMember, Cycle, CreateRoleDialog, ClientDialog,
            RemoveClient, DeviceDialog, RemoveDevice, DeptDialog, RemoveDept, PersonDialog, Act,
            StateDialog, ApplyDeletion, Impersonate, Decide, SaveProfile, SaveName,
            Form, NewForm, Command, InPlace
<1>1. \A k \in {MembersPage, AddMemberDialog, RolesPage, SSOClientsPage} : PageKinds(k)
  BY DEF PageKinds, MembersPage, AddMemberDialog, RolesPage, SSOClientsPage, Loaded
<1>2. \A k \in {DevicesPage, DepartmentsPage, PeoplePage} : PageKinds(k)
  BY DEF PageKinds, DevicesPage, DepartmentsPage, PeoplePage, Loaded
<1>3. \A k \in {StorePage, HistoryDialog, AuditPage, TenantsPage, UsersPage, AppsPage,
                PanelAuditPage, OverviewPage} : PageKinds(k)
  BY DEF PageKinds, StorePage, HistoryDialog, AuditPage, TenantsPage, UsersPage, AppsPage,
         PanelAuditPage, OverviewPage, UseResource
<1>4. \A k \in {MembersDialog, SettingsPage, ProfilePage, ConsentPage} : PageKinds(k)
  <2>1. PageKinds(MembersDialog)
    <3>1. MembersDialog.writes = {Impersonate} /\ Impersonate.loads = {} /\ ~MembersDialog.blanks
      BY DEF MembersDialog
    <3> QED BY <3>1 DEF PageKinds
  <2>2. PageKinds(SettingsPage)
    <3>1. SettingsPage.writes = {SaveProfile} /\ SaveProfile.loads = {} /\ ~SettingsPage.blanks
      BY DEF SettingsPage
    <3> QED BY <3>1 DEF PageKinds
  <2>3. PageKinds(ProfilePage)
    <3>1. ProfilePage.writes = {SaveName} /\ SaveName.loads = {} /\ ~ProfilePage.blanks
      BY DEF ProfilePage
    <3> QED BY <3>1 DEF PageKinds
  <2>4. PageKinds(ConsentPage)
    <3>1. ConsentPage.writes = {Decide} /\ Decide.loads = {} /\ ~ConsentPage.blanks
      BY DEF ConsentPage
    <3> QED BY <3>1 DEF PageKinds
  <2> QED BY <2>1, <2>2, <2>3, <2>4
<1> QED BY <1>1, <1>2, <1>3, <1>4 DEF Pages

\* What a page is on which all is calm.
CalmPage ==
    /\ \A w \in page.writes : w.from # "page" /\ "ok" \in w.loads
    /\ page.blanks \in BOOLEAN
    /\ page.blanks =>
          /\ page.guarded /\ page.again = "nonce" /\ page.failed = "none"
          /\ \A w \in page.writes : "refused" \notin w.loads
    /\ ~page.blanks =>
          /\ ~page.guarded /\ page.again # "nonce" /\ rush = {}
          /\ page.failed = "kept" => page.alert = "instead"

LEMMA CalmIs == ASSUME TInv, Calm PROVE CalmPage
<1>1. PageKinds(page) /\ page \in PageRecord
  BY KnownTyped, PagesOfAKind DEF TInv
<1> QED BY <1>1 DEF PageKinds, Calm, CalmPage, PageRecord

LEMMA CalmBefore == ASSUME TInv, [Next]_vars, Calm' PROVE Calm
BY RushGrows DEF Calm

\* Two halves of the invariant, and steps that leave one of them alone.
Sending ==
    OnePut /\ BodiesFull /\ DialogFull /\ DialogAlone /\ DialogKnown /\ DoneKept
Showing == AnswersFull /\ ScreenFull

LEMMA SendingKept ==
    ASSUME Sending, UNCHANGED <<page, puts, form, acked, row>> PROVE Sending'
BY DEF Sending, OnePut, BodiesFull, DialogFull, DialogAlone, DialogKnown, DoneKept, Whole

LEMMA ShowingKept ==
    ASSUME Showing, UNCHANGED <<page, asks, acked>>, page.blanks /\ due => due',
           Table' => Table /\ shown'.row = shown.row
    PROVE  Showing'
BY DEF Showing, AnswersFull, ScreenFull, Asking

\* The first GET of its kind leaves.
LEMMA SentShows ==
    ASSUME TInv, NEW s \in 1 .. MaxAsks, FreeAsk(s), NEW g \in BOOLEAN, NEW key,
           Sent(s, g, key)
    PROVE  /\ Asking'
           /\ asks'[s].state = "asked"
           /\ \A r \in 1 .. MaxAsks \ {s} :
                 /\ asks'[r].state = asks[r].state /\ asks'[r].got = asks[r].got
                 /\ asks'[r].live = (asks[r].live /\ ~g)
<1>1. /\ asks'[s].state = "asked"
      /\ \A r \in 1 .. MaxAsks \ {s} :
            /\ asks'[r].state = asks[r].state /\ asks'[r].got = asks[r].got
            /\ asks'[r].live = (asks[r].live /\ ~g)
  BY DEF Sent, TInv, AsksTyped, Ask
<1> QED BY <1>1 DEF Asking

\* Rows are asked for again: nothing on its way is old then.
LEMMA LoadShows ==
    ASSUME TInv, Calm, Calm', CalmPage, NEW key, Load(key), UNCHANGED page PROVE Showing'
<1>1. CASE page.blanks
  BY <1>1 DEF Load, CalmPage, Showing, AnswersFull, ScreenFull
<1>2. CASE ~page.blanks
  <2>1. PICK s \in 1 .. MaxAsks : FreeAsk(s) /\ Sent(s, FALSE, key)
    BY <1>2 DEF Load, CalmPage
  <2>2. ~Asking
    BY <1>2 DEF Load, CalmPage, Calm, Overlap
  <2>3. \A r \in 1 .. MaxAsks : asks'[r].state # "read"
    BY <2>1, <2>2, SentShows DEF Asking
  <2> QED BY <1>2, <2>1, <2>3, SentShows DEF Showing, AnswersFull, ScreenFull
<1> QED BY <1>1, <1>2 DEF CalmPage

LEMMA RunEffectFull ==
    ASSUME TInv, CalmPage, Full, RunEffect PROVE Full'
<1>1. Sending'
  BY SendingKept DEF RunEffect, Full, Sending
<1>2. PICK s \in 1 .. MaxAsks : FreeAsk(s) /\ Sent(s, page.guarded, typed)
  BY DEF RunEffect
<1>3. page.guarded \in BOOLEAN
  BY NumbersTyped
<1>4. CASE page.blanks
  <2>1. shown'.state # "rows" /\ page' = page
    BY <1>4 DEF RunEffect, Loading
  <2>2. \A r \in 1 .. MaxAsks : asks'[r].state = "read" => ~asks'[r].live
    BY <1>2, <1>3, <1>4, SentShows DEF CalmPage
  <2> QED BY <1>1, <1>4, <2>1, <2>2 DEF Full, Sending, AnswersFull, ScreenFull, Table
<1>5. CASE ~page.blanks
  <2>1. Asking' /\ \A r \in 1 .. MaxAsks : asks'[r].state = "read" =>
                        asks[r].state = "read" /\ asks'[r].got = asks[r].got
    BY <1>2, <1>3, SentShows
  <2> QED
    BY <1>1, <1>5, <2>1 DEF Full, Sending, AnswersFull, ScreenFull, RunEffect
<1> QED BY <1>4, <1>5 DEF CalmPage

LEMMA ReadFull == ASSUME TInv, Full, NEW s \in 1 .. MaxAsks, Read(s) PROVE Full'
<1>1. Sending'
  BY SendingKept DEF Read, Full, Sending
<1>2. AnswersFull'
  BY ReadEffect DEF Read, Full, AnswersFull, DoneKept
<1>3. Asking /\ Asking'
  BY ReadEffect DEF Asking
<1>4. ScreenFull'
  BY <1>3 DEF Read, Full, ScreenFull, Table
<1> QED BY <1>1, <1>2, <1>4 DEF Full, Sending

LEMMA DeliverFull ==
    ASSUME TInv, CalmPage, Full, NEW s \in 1 .. MaxAsks, Deliver(s) PROVE Full'
<1>1. Sending'
  BY SendingKept DEF Deliver, Succeeds, Fails, Drops, SignedOut, Full, Sending
<1>2. asks'[s].state = "free" /\ \A r \in 1 .. MaxAsks \ {s} : asks'[r] = asks[r]
  <2>1. asks' = [asks EXCEPT ![s] = Idle]
    BY DEF Deliver, Succeeds, Fails, Drops, SignedOut
  <2> QED BY <2>1 DEF TInv, AsksTyped, Idle
<1>3. page' = page /\ acked' = acked
  BY DEF Deliver, Succeeds, Fails, Drops, SignedOut
<1>4. page.blanks => due' = due
  BY DEF Deliver, Succeeds, Fails, Drops, SignedOut, Rendered, CalmPage, TInv, FlagsTyped
<1>5. AnswersFull'
  BY <1>2, <1>3, <1>4 DEF Full, AnswersFull
<1>6. CASE Succeeds(s)
  <2>1. page.blanks => asks[s].live
    BY <1>6 DEF Succeeds, CalmPage
  <2>2. (page.blanks /\ due) \/ acked \subseteq asks[s].got.mine
    BY <1>6, <2>1 DEF Succeeds, Full, AnswersFull
  <2>3. shown'.row = asks[s].got
    BY <1>6 DEF Succeeds
  <2> QED BY <1>1, <1>3, <1>4, <1>5, <2>2, <2>3 DEF Full, Sending, ScreenFull
<1>7. CASE Fails(s)
  <2>1. page.failed \in {"kept", "empty", "none"}
    BY KnownTyped DEF TInv, PageRecord
  <2>2. ~Table'
    BY <1>7, <2>1 DEF Fails, CalmPage, Table, Empty, Loading
  <2> QED BY <1>1, <1>5, <2>2 DEF Full, Sending, ScreenFull
<1>8. CASE Drops(s) \/ SignedOut(s)
  <2>1. page.blanks
    BY <1>8 DEF Drops, SignedOut, CalmPage
  <2>2. ScreenFull'
    BY <1>8, <2>1 DEF Drops, SignedOut, Full, ScreenFull, Table
  <2> QED BY <1>1, <1>5, <2>2 DEF Full, Sending
<1> QED BY <1>6, <1>7, <1>8 DEF Deliver

LEMMA AppliedKeeps ==
    ASSUME TInv, NEW p \in 1 .. MaxPuts, puts[p].state # "free"
    PROVE  IF puts[p].by.from \in {"rendered", "form", "page"}
           THEN Applied(puts[p]).mine = puts[p].body.mine
           ELSE Applied(puts[p]).mine = row.mine \cup {puts[p].edit}
<1>1. puts[p] \in Put /\ puts[p].edit \in Edit /\ row \in Row
  BY DEF TInv, PutsTyped, PageKnown, RowTyped
<1>2. puts[p].body \in Row /\ With(row, puts[p].edit) \in Row
  BY <1>1, WithTyped DEF Put
<1> QED BY <1>1, <1>2, WithTyped DEF Applied, Row

LEMMA ArriveFull ==
    ASSUME TInv, CalmPage, Full, NEW p \in 1 .. MaxPuts, Arrive(p) PROVE Full'
<1>1. UNCHANGED <<page, asks, acked, due, shown, err, form>>
  BY DEF Arrive
<1>2. Showing'
  BY <1>1, ShowingKept DEF Full, Showing, Table
<1>3. \A q \in 1 .. MaxPuts : puts'[q].state # "free" <=> puts[q].state # "free"
  BY ArriveEffect
<1>4. OnePut' /\ BodiesFull' /\ DialogFull' /\ DialogAlone' /\ DialogKnown'
  BY <1>1, <1>3, ArriveEffect
  DEF Full, OnePut, BodiesFull, DialogFull, DialogAlone, DialogKnown, Whole
<1>5. puts[p].state # "free" /\ puts[p].by \in page.writes
  BY DEF Arrive, TInv, PageKnown
<1>6. acked \cup {puts[p].edit} \subseteq Applied(puts[p]).mine
  <2>1. CASE Whole(puts[p].by)
    BY <1>5, <2>1, AppliedKeeps DEF Whole, Full, BodiesFull
  <2>2. CASE ~Whole(puts[p].by)
    BY <1>5, <2>2, AppliedKeeps DEF Whole, CalmPage, Full, DoneKept
  <2> QED BY <2>1, <2>2
<1>7. \A q \in 1 .. MaxPuts \ {p} : puts'[q].state = "free"
  BY <1>5, ArriveEffect DEF Full, OnePut
<1>8. DoneKept'
  BY <1>1, <1>6, <1>7, ArriveEffect DEF Full, DoneKept
<1> QED BY <1>2, <1>4, <1>8 DEF Full, Showing

LEMMA AnswerFull ==
    ASSUME TInv, Calm, Calm', CalmPage, Full, NEW p \in 1 .. MaxPuts, Answer(p) PROVE Full'
<1>1. puts[p].state # "free" /\ puts[p].by \in page.writes
  BY DEF Answer, Confirmed, Refused, TInv, PageKnown
<1>2. \A q \in 1 .. MaxPuts : puts'[q].state = "free"
  BY <1>1, AnswerEffect DEF Full, OnePut
<1>3. OnePut' /\ BodiesFull' /\ ~Writing'
  BY <1>2 DEF OnePut, BodiesFull, Writing
<1>4. form.state = "open" => puts[p].by.from = "inside"
  BY <1>1 DEF Full, DialogAlone
<1>5. form.state = "busy" => puts[p].by.from \in {"form", "new"} /\ puts[p].edit = form.edit
  BY <1>1 DEF Full, DialogAlone, OnePut
<1>6. form \in Dialog /\ page' = page /\ row' = row /\ shown' = shown
  BY DEF Answer, Confirmed, Refused, TInv, FormTyped
<1>7. CASE Confirmed(p)
  <2>1. form'.state = "closed"
    BY <1>4, <1>5, <1>6, <1>7 DEF Confirmed, Dialog, Closed, InDialog
  <2>2. DialogFull' /\ DialogAlone' /\ DialogKnown'
    BY <2>1 DEF DialogFull, DialogAlone, DialogKnown
  <2>3. DoneKept'
    BY <1>2, <1>6, <1>7 DEF Confirmed, Full, DoneKept
  <2>4. Showing'
    BY <1>1, <1>6, <1>7, LoadShows DEF Confirmed, CalmPage
  <2> QED BY <1>3, <2>2, <2>3, <2>4 DEF Full, Showing
<1>8. CASE Refused(p)
  <2>1. acked' = acked
    BY <1>8 DEF Refused
  <2>2. /\ form'.state \in {"open", "closed"}
        /\ form'.state # "closed" => form.state # "closed"
        /\ form'.row = form.row /\ form'.edit = form.edit /\ form'.by = form.by
    BY <1>4, <1>5, <1>6, <1>8 DEF Refused, Dialog
  <2>3. DialogFull' /\ DialogAlone' /\ DialogKnown'
    BY <1>2, <1>6, <2>1, <2>2 DEF Full, DialogFull, DialogAlone, DialogKnown, Whole
  <2>4. DoneKept'
    BY <1>2, <1>6, <2>1 DEF Full, DoneKept
  <2>5. Showing'
    <3>1. CASE Load(puts[p].key)
      BY <1>6, <3>1, LoadShows
    <3>2. CASE Rendered /\ UNCHANGED asks
      <4>1. due => due'
        BY <3>2 DEF Rendered
      <4>2. Table' => Table
        BY <1>6, <1>8 DEF Refused, Table
      <4> QED BY <1>6, <2>1, <3>2, <4>1, <4>2, ShowingKept DEF Full, Showing
    <3> QED BY <1>8, <3>1, <3>2 DEF Refused
  <2> QED BY <1>3, <2>3, <2>4, <2>5 DEF Full, Showing
<1> QED BY <1>7, <1>8 DEF Answer

\* An act of a user who waits: no write is on its way, and the table has all.
LEMMA WaitedFull ==
    ASSUME TInv, Calm', CalmPage, Full, Rush, Flushed, UNCHANGED page
    PROVE  ~Writing /\ (Table => acked \subseteq shown.row.mine)
<1>1. ~Writing
  BY DEF Rush, Calm
<1>2. page.blanks => ~due
  BY DEF Flushed, CalmPage
<1>3. ~page.blanks => ~Asking
  BY DEF Rush, Calm
<1> QED BY <1>1, <1>2, <1>3 DEF Full, ScreenFull

\* A write leaves, alone.
LEMMA SendFull ==
    ASSUME TInv, Full, ~Writing, NEW p \in 1 .. MaxPuts, NEW w, NEW edit, NEW body,
           Send(p, w, edit, body), UNCHANGED <<page, row, acked>>,
           Whole(w) => acked \cup {edit} \subseteq body.mine
    PROVE  /\ OnePut' /\ BodiesFull' /\ DoneKept'
           /\ puts'[p].state = "sent" /\ puts'[p].by = w /\ puts'[p].edit = edit
<1>1. /\ puts'[p] = [state |-> "sent", by |-> w, edit |-> edit, body |-> body,
                   key |-> typed]
      /\ \A q \in 1 .. MaxPuts \ {p} : puts'[q].state = "free"
  BY DEF Send, TInv, PutsTyped, Writing
<1> QED BY <1>1 DEF Full, OnePut, BodiesFull, DoneKept, Whole

LEMMA ShownRow ==
    ASSUME TInv, NewEdit
    PROVE  /\ shown.row \in Row /\ used + 1 \in Edit
           /\ With(shown.row, used + 1).mine = shown.row.mine \cup {used + 1}
<1>1. shown.row \in Row /\ used + 1 \in Edit
  BY NewEditTyped DEF TInv, ShownTyped, Shown
<1> QED BY <1>1, WithTyped

LEMMA PressFull ==
    ASSUME TInv, Calm', CalmPage, Full, NEW p \in 1 .. MaxPuts, NEW w \in page.writes,
           Press(p, w)
    PROVE  Full'
<1>1. ~Writing /\ acked \subseteq shown.row.mine
  BY WaitedFull DEF Press
<1>2. OnePut' /\ BodiesFull' /\ DoneKept'
  BY <1>1, ShownRow, SendFull DEF Press
<1>3. form'.state = "closed"
  BY DEF Press
<1>4. DialogFull' /\ DialogAlone' /\ DialogKnown'
  BY <1>3 DEF DialogFull, DialogAlone, DialogKnown
<1>5. Showing'
  BY ShowingKept DEF Press, Full, Showing, Table
<1> QED BY <1>2, <1>4, <1>5 DEF Full, Showing

LEMMA OrderFull ==
    ASSUME TInv, Calm', CalmPage, Full, NEW p \in 1 .. MaxPuts, NEW w \in page.writes,
           Order(p, w)
    PROVE  Full'
<1>1. ~Writing
  BY WaitedFull DEF Order
<1>2. /\ OnePut' /\ BodiesFull' /\ DoneKept'
      /\ puts'[p].state = "sent" /\ puts'[p].by = w
  BY <1>1, SendFull DEF Order, Whole
<1>3. DialogFull' /\ DialogAlone' /\ DialogKnown'
  <2>1. CASE form.state = "closed"
    BY <2>1 DEF Order, DialogFull, DialogAlone, DialogKnown
  <2>2. CASE form.state # "closed"
    <3>1. form.state = "open" /\ w.from = "inside"
      BY <1>1, <2>2 DEF Order, Full, DialogAlone, Writing, TInv, FormTyped, Dialog
    <3>2. \A q \in 1 .. MaxPuts : puts'[q].state # "free" => puts'[q].by.from = "inside"
      BY <1>2, <3>1 DEF OnePut
    <3> QED BY <3>1, <3>2 DEF Order, Full, DialogFull, DialogAlone, DialogKnown, Whole
  <2> QED BY <2>1, <2>2
<1>4. Showing'
  BY ShowingKept DEF Order, Full, Showing, Table, Rendered
<1> QED BY <1>2, <1>3, <1>4 DEF Full, Showing

LEMMA OpenFormFull ==
    ASSUME TInv, Calm', CalmPage, Full, NEW w \in page.writes, OpenForm(w) PROVE Full'
<1>1. ~Writing /\ (w.from = "form" => acked \subseteq shown.row.mine)
  BY WaitedFull DEF OpenForm
<1>2. OnePut' /\ BodiesFull' /\ DoneKept' /\ ~Writing'
  BY <1>1 DEF OpenForm, Full, OnePut, BodiesFull, DoneKept, Writing, Whole
<1>3. DialogFull' /\ DialogAlone' /\ DialogKnown'
  BY <1>1, <1>2, ShownRow DEF OpenForm, DialogFull, DialogAlone, DialogKnown, Writing, Whole
<1>4. Showing'
  BY ShowingKept DEF OpenForm, Full, Showing, Table, Rendered
<1> QED BY <1>2, <1>3, <1>4 DEF Full, Showing

LEMMA SubmitFormFull ==
    ASSUME TInv, Calm', CalmPage, Full, NEW p \in 1 .. MaxPuts, SubmitForm(p)
    PROVE  Full'
<1>1. ~Writing
  BY WaitedFull DEF SubmitForm
<1>2. /\ OnePut' /\ BodiesFull' /\ DoneKept'
      /\ puts'[p].state = "sent" /\ puts'[p].by = form.by /\ puts'[p].edit = form.edit
  BY <1>1, SendFull DEF SubmitForm, Full, DialogFull
<1>3. /\ form'.state = "busy" /\ form'.row = form.row /\ form'.edit = form.edit
      /\ form'.by = form.by
  BY DEF SubmitForm, TInv, FormTyped, Dialog
<1>4. DialogFull' /\ DialogAlone' /\ DialogKnown'
  BY <1>2, <1>3 DEF SubmitForm, Full, DialogFull, DialogAlone, DialogKnown, Whole
<1>5. Showing'
  BY ShowingKept DEF SubmitForm, Full, Showing, Table
<1> QED BY <1>2, <1>4, <1>5 DEF Full, Showing

\* The acts that send nothing and take nothing.
LEMMA OtherActsFull ==
    ASSUME TInv, CalmPage, Full, CloseForm \/ Type \/ Retry \/ Dismiss PROVE Full'
<1>1. CASE CloseForm
  <2>1. form'.state = "closed"
    BY <1>1 DEF CloseForm, Closed
  <2>2. OnePut' /\ BodiesFull' /\ DoneKept' /\ DialogFull' /\ DialogAlone' /\ DialogKnown'
    BY <1>1, <2>1
    DEF CloseForm, Full, OnePut, BodiesFull, DoneKept, DialogFull, DialogAlone, DialogKnown,
        Whole
  <2>3. Showing'
    BY <1>1, ShowingKept DEF CloseForm, Full, Showing, Table, Rendered
  <2> QED BY <2>2, <2>3 DEF Full, Showing
<1>2. CASE Type \/ Retry \/ Dismiss
  <2>1. Sending'
    BY <1>2, SendingKept DEF Type, Retry, Dismiss, Full, Sending
  <2>2. Table' => Table /\ shown'.row = shown.row
    BY <1>2 DEF Type, Retry, Dismiss, Table, Loading
  <2>3. page.blanks /\ due => due'
    BY <1>2 DEF Type, Retry, Dismiss, Rendered, CalmPage
  <2>4. Showing'
    BY <1>2, <2>2, <2>3, ShowingKept DEF Type, Retry, Dismiss, Full, Showing
  <2> QED BY <2>1, <2>4 DEF Full, Sending, Showing
<1> QED BY <1>1, <1>2

\* Another administrator's write leaves this user's edits in the row.
LEMMA OthersKeep == ASSUME TInv, OthersWrite PROVE row'.mine = row.mine
BY DEF OthersWrite, TInv, RowTyped, Row

LEMMA StepFull == TInv /\ Full /\ [Next]_vars /\ Calm /\ Calm' => Full'
<1> SUFFICES ASSUME TInv, Full, [Next]_vars, Calm, Calm' PROVE Full'
  OBVIOUS
<1>1. CalmPage
  BY CalmIs
<1>2. CASE RunEffect
  BY <1>1, <1>2, RunEffectFull
<1>3. ASSUME NEW s \in 1 .. MaxAsks, Read(s) \/ Deliver(s) PROVE Full'
  BY <1>1, <1>3, ReadFull, DeliverFull
<1>4. ASSUME NEW p \in 1 .. MaxPuts, Arrive(p) \/ Answer(p) PROVE Full'
  BY <1>1, <1>4, ArriveFull, AnswerFull
<1>5. CASE User
  <2>1. ASSUME NEW p \in 1 .. MaxPuts, NEW w \in page.writes,
               Press(p, w) \/ Order(p, w) \/ SavePage(p, w)
        PROVE  Full'
    <3>1. ~SavePage(p, w)
      BY <1>1 DEF SavePage, CalmPage
    <3> QED BY <1>1, <2>1, <3>1, PressFull, OrderFull
  <2>2. ASSUME NEW w \in page.writes, OpenForm(w) \/ TypeDraft(w) PROVE Full'
    <3>1. ~TypeDraft(w)
      BY <1>1 DEF TypeDraft, CalmPage
    <3> QED BY <1>1, <2>2, <3>1, OpenFormFull
  <2> QED BY <1>1, <1>5, <2>1, <2>2, SubmitFormFull, OtherActsFull DEF User
<1>6. CASE OthersWrite
  <2>1. OnePut' /\ BodiesFull' /\ DialogFull' /\ DialogAlone' /\ DialogKnown' /\ DoneKept'
    BY <1>6, OthersKeep
    DEF OthersWrite, Full, OnePut, BodiesFull, DialogFull, DialogAlone, DialogKnown, DoneKept,
        Whole
  <2>2. Showing'
    BY <1>6, ShowingKept DEF OthersWrite, Full, Showing, Table
  <2> QED BY <2>1, <2>2 DEF Full, Showing
<1>7. CASE UNCHANGED vars
  BY <1>7, SendingKept, ShowingKept DEF vars, Full, Sending, Showing, Table
<1> QED BY <1>2, <1>3, <1>4, <1>5, <1>6, <1>7 DEF Next, Machine

\* A page of commands: each adds its edit to the row, in whatever order.
LEMMA StepAdding == TInv /\ DoneKept /\ Adding /\ [Next]_vars => DoneKept'
<1> SUFFICES ASSUME TInv, DoneKept, Adding, [Next]_vars PROVE DoneKept'
  OBVIOUS
<1>1. ASSUME NEW p \in 1 .. MaxPuts, Arrive(p) PROVE DoneKept'
  <2>1. puts[p].state # "free" /\ puts[p].by \in page.writes
    BY <1>1 DEF Arrive, TInv, PageKnown
  <2>2. Applied(puts[p]).mine = row.mine \cup {puts[p].edit}
    BY <2>1, AppliedKeeps DEF Adding
  <2> QED BY <1>1, <2>2, ArriveEffect DEF Arrive, DoneKept
<1>2. ASSUME NEW p \in 1 .. MaxPuts, Answer(p) PROVE DoneKept'
  BY <1>2, AnswerEffect DEF Answer, Confirmed, Refused, DoneKept
<1>3. ASSUME NEW p \in 1 .. MaxPuts, NEW w, NEW edit, NEW body, Send(p, w, edit, body),
             UNCHANGED <<row, acked>>
      PROVE  DoneKept'
  <2>1. puts'[p].state = "sent" /\ \A q \in 1 .. MaxPuts \ {p} : puts'[q] = puts[q]
    BY <1>3 DEF Send, TInv, PutsTyped
  <2> QED BY <1>3, <2>1 DEF DoneKept
<1>4. CASE UNCHANGED <<row, acked, puts>>
  BY <1>4 DEF DoneKept
<1>5. CASE User
  BY <1>3, <1>4, <1>5 DEF User, Press, Order, SubmitForm, SavePage, OpenForm, TypeDraft, CloseForm,
                          Type, Retry, Dismiss
<1>6. CASE OthersWrite
  BY <1>6, OthersKeep DEF OthersWrite, DoneKept
<1> QED BY <1>1, <1>2, <1>4, <1>5, <1>6
        DEF Next, Machine, RunEffect, Read, Deliver, Succeeds, Fails, Drops, SignedOut, vars

LEMMA InitKept == Init => KInv
<1> SUFFICES ASSUME Init PROVE DoneKept /\ Full
  BY DEF KInv
<1>1. /\ \A s \in 1 .. MaxAsks : asks[s].state = "free"
      /\ \A p \in 1 .. MaxPuts : puts[p].state = "free"
      /\ form.state = "closed" /\ shown.state = "loading" /\ acked = {}
  BY DEF Init, Idle, NoPut, Closed, Loading
<1> QED BY <1>1 DEF DoneKept, Full, OnePut, BodiesFull, DialogFull, DialogAlone, DialogKnown,
                   AnswersFull, ScreenFull, Table

LEMMA StepKept == TInv /\ KInv /\ [Next]_vars => KInv'
<1> SUFFICES ASSUME TInv, KInv, [Next]_vars PROVE KInv'
  OBVIOUS
<1>1. Adding' => Adding
  BY RushGrows DEF Adding
<1>2. Adding' => DoneKept'
  BY <1>1, StepAdding DEF KInv
<1>3. Calm' => Full'
  BY CalmBefore, StepFull DEF KInv
<1> QED BY <1>2, <1>3 DEF KInv

\* A change that was answered with success stays in the row,
THEOREM EditsStay == Spec => []OwnEditsKept
<1>1. TInv /\ KInv => OwnEditsKept
  <2> SUFFICES ASSUME TInv, KInv, ~InPage, "write" \notin rush, page.blanks \/ rush = {}
               PROVE  acked \subseteq row.mine
    BY DEF OwnEditsKept
  <2>1. PageKinds(page)
    BY KnownTyped, PagesOfAKind DEF TInv
  <2>2. Adding \/ Calm
    BY <2>1 DEF PageKinds, InPage, Adding, Calm
  <2> QED BY <2>2 DEF KInv, Full, DoneKept
<1> QED BY InitTyped, StepTyped, InitKept, StepKept, <1>1, PTL DEF Spec

\* and a table at rest shows it.
THEOREM RestsCurrent == Spec => []RestingIsCurrent
<1>1. KInv => RestingIsCurrent
  BY DEF KInv, Full, ScreenFull, Calm, RestingIsCurrent, Resting
<1> QED BY InitTyped, StepTyped, InitKept, StepKept, <1>1, PTL DEF Spec

-----------------------------------------------------------------------------
(* The work of the tab runs out.  Each step of the machine takes a slot    *)
(* out of one of the sets of Work and leaves those before it as they are;  *)
(* what an answer to a write brings about is among those after it.         *)

Writes == {p \in 1 .. MaxPuts : puts[p].state # "free"}
Underway == {p \in 1 .. MaxPuts : puts[p].state = "sent"}
Gets == {s \in 1 .. MaxAsks : asks[s].state # "free"}
Unread == {s \in 1 .. MaxAsks : asks[s].state = "asked"}

LEMMA FewerWrites ==
    ASSUME NEW p \in Writes, Writes' = Writes \ {p} PROVE Less(Work', Work)
BY DEF Less, Work, Writes

LEMMA FewerUnderway ==
    ASSUME Writes' = Writes, NEW p \in Underway, Underway' = Underway \ {p}
    PROVE  Less(Work', Work)
<1>1. Work'[1] = Work[1]
  BY DEF Work, Writes
<1>2. Work'[2] \subseteq Work[2] /\ Work'[2] # Work[2]
  BY DEF Work, Underway
<1> QED BY <1>1, <1>2 DEF Less

LEMMA NoEffect ==
    ASSUME Writes' = Writes, Underway' = Underway, due, ~due' PROVE Less(Work', Work)
<1>1. Work'[1] = Work[1] /\ Work'[2] = Work[2]
  BY DEF Work, Writes, Underway
<1>2. Work'[3] \subseteq Work[3] /\ Work'[3] # Work[3]
  BY DEF Work
<1> QED BY <1>1, <1>2 DEF Less

LEMMA FewerGets ==
    ASSUME UNCHANGED puts, due' = due, NEW s \in Gets, Gets' = Gets \ {s}
    PROVE  Less(Work', Work)
<1>1. Work'[1] = Work[1] /\ Work'[2] = Work[2] /\ Work'[3] = Work[3]
  BY DEF Work
<1>2. Work'[4] \subseteq Work[4] /\ Work'[4] # Work[4]
  BY DEF Work, Gets
<1> QED BY <1>1, <1>2 DEF Less

LEMMA FewerUnread ==
    ASSUME UNCHANGED puts, due' = due, Gets' = Gets, NEW s \in Unread, Unread' = Unread \ {s}
    PROVE  Less(Work', Work)
<1>1. Work'[1] = Work[1] /\ Work'[2] = Work[2] /\ Work'[3] = Work[3] /\ Work'[4] = Work[4]
  BY DEF Work, Gets
<1>2. Work'[5] \subseteq Work[5] /\ Work'[5] # Work[5]
  BY DEF Work, Unread
<1> QED BY <1>1, <1>2 DEF Less

LEMMA ReadLess == ASSUME TInv, NEW s \in 1 .. MaxAsks, Read(s) PROVE Less(Work', Work)
<1>1. Gets' = Gets /\ s \in Unread /\ Unread' = Unread \ {s}
  BY ReadEffect DEF Gets, Unread
<1> QED BY <1>1, FewerUnread DEF Read

\* An answer renders, and no effect of such a page runs because of a render.
LEMMA DeliverLess ==
    ASSUME TInv, page.again # "render", NEW s \in 1 .. MaxAsks, Deliver(s)
    PROVE  Less(Work', Work)
<1>1. asks' = [asks EXCEPT ![s] = Idle] /\ asks[s].state # "free" /\ UNCHANGED puts
  BY DEF Deliver, Succeeds, Fails, Drops, SignedOut
<1>2. due' = due
  BY DEF Deliver, Succeeds, Fails, Drops, SignedOut, Rendered, TInv, FlagsTyped
<1>3. asks'[s].state = "free" /\ \A r \in 1 .. MaxAsks \ {s} : asks'[r] = asks[r]
  BY <1>1 DEF TInv, AsksTyped, Idle
<1>4. s \in Gets /\ Gets' = Gets \ {s}
  BY <1>1, <1>3 DEF Gets
<1> QED BY <1>1, <1>2, <1>4, FewerGets

LEMMA RunEffectLess == ASSUME TInv, RunEffect PROVE Less(Work', Work)
<1>1. Writes' = Writes /\ Underway' = Underway /\ due /\ ~due'
  BY DEF RunEffect, Writes, Underway
<1> QED BY <1>1, NoEffect

LEMMA ArriveLess == ASSUME TInv, NEW p \in 1 .. MaxPuts, Arrive(p) PROVE Less(Work', Work)
<1>1. Writes' = Writes /\ p \in Underway /\ Underway' = Underway \ {p}
  BY ArriveEffect DEF Writes, Underway
<1> QED BY <1>1, FewerUnderway

LEMMA AnswerLess == ASSUME TInv, NEW p \in 1 .. MaxPuts, Answer(p) PROVE Less(Work', Work)
<1>1. p \in Writes /\ Writes' = Writes \ {p}
  BY AnswerEffect DEF Writes, Answer, Confirmed, Refused
<1> QED BY <1>1, FewerWrites

\* What goes on by itself makes the work of the tab less, in every page whose
\* effect does not run after every render, for any number of requests in flight.
THEOREM WorkEnds == Spec => WorkRunsOut
<1>1. ASSUME TInv, Machine, page.again # "render" PROVE Less(Work', Work)
  BY <1>1, ReadLess, DeliverLess, RunEffectLess, ArriveLess, AnswerLess DEF Machine
<1>2. TInv /\ [Next]_vars => [Machine /\ page.again # "render" => Less(Work', Work)]_vars
  BY <1>1
<1>3. Spec => [][Machine /\ page.again # "render" => Less(Work', Work)]_vars
  BY <1>2, InitTyped, StepTyped, PTL DEF Spec
<1> QED BY <1>3 DEF WorkRunsOut

\* Less is a strict order; over finite sets of slots nothing goes down in it
\* forever.
LEMMA LessStrict ==
    ASSUME NEW a, NEW b, NEW c
    PROVE  ~Less(a, a) /\ (Less(a, b) /\ Less(b, c) => Less(a, c))
<1>1. ~Less(a, a)
  BY DEF Less
<1>2. ASSUME Less(a, b), Less(b, c) PROVE Less(a, c)
  <2>1. PICK i \in 1 .. 5 : /\ a[i] \subseteq b[i] /\ a[i] # b[i]
                            /\ \A k \in 1 .. i - 1 : a[k] = b[k]
    BY <1>2 DEF Less
  <2>2. PICK j \in 1 .. 5 : /\ b[j] \subseteq c[j] /\ b[j] # c[j]
                            /\ \A k \in 1 .. j - 1 : b[k] = c[k]
    BY <1>2 DEF Less
  <2>3. CASE i < j
    <3>1. b[i] = c[i] /\ \A k \in 1 .. i - 1 : a[k] = c[k]
      BY <2>1, <2>2, <2>3
    <3> QED BY <2>1, <3>1 DEF Less
  <2>4. CASE j < i
    <3>1. a[j] = b[j] /\ \A k \in 1 .. j - 1 : a[k] = c[k]
      BY <2>1, <2>2, <2>4
    <3> QED BY <2>2, <3>1 DEF Less
  <2>5. CASE i = j
    <3>1. a[i] \subseteq c[i] /\ a[i] # c[i] /\ \A k \in 1 .. i - 1 : a[k] = c[k]
      BY <2>1, <2>2, <2>5
    <3> QED BY <3>1 DEF Less
  <2> QED BY <2>3, <2>4, <2>5
<1> QED BY <1>1, <1>2

\* Nothing is left to do exactly when the tab rests.
THEOREM WorkMeasures == Spec => []((\A i \in 1 .. 5 : Work[i] = {}) <=> Resting)
<1>1. TInv => ((\A i \in 1 .. 5 : Work[i] = {}) <=> Resting)
  <2> SUFFICES ASSUME TInv PROVE (\A i \in 1 .. 5 : Work[i] = {}) <=> Resting
    OBVIOUS
  <2>1. ASSUME \A i \in 1 .. 5 : Work[i] = {} PROVE Resting
    <3>1. Work[1] = {} /\ Work[3] = {} /\ Work[4] = {}
      BY <2>1
    <3> QED BY <3>1 DEF Work, Resting, Asking, Writing
  <2>2. ASSUME Resting PROVE \A i \in 1 .. 5 : Work[i] = {}
    <3>1. Work[1] = {} /\ Work[2] = {} /\ Work[3] = {} /\ Work[4] = {} /\ Work[5] = {}
      BY <2>2 DEF Work, Resting, Asking, Writing
    <3> QED BY <3>1
  <2> QED BY <2>1, <2>2
<1> QED BY <1>1, InitTyped, StepTyped, PTL DEF Spec
=============================================================================
