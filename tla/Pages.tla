-------------------------------- MODULE Pages --------------------------------
(***************************************************************************)
(* One page of the portal, of the platform panel or of a module, mounted   *)
(* in a browser tab, and the row at the server that it shows and edits.    *)
(*                                                                         *)
(* Every page is the same React machine: an effect asks for the rows, the  *)
(* answer is set as state, a state that changes renders, and a render may  *)
(* run the effect again.  What differs from page to page is the dependency *)
(* list of the effect, whether its cleanup drops late answers, what a      *)
(* failure does to the rows, and which writes the page sends, made from    *)
(* what.  A page is therefore a record of those choices, one definition    *)
(* per page, and the actions below are the machine.                        *)
(*                                                                         *)
(* A request passes the server at one moment and comes back at another;    *)
(* requests overtake each other.  A user's edits are numbered: the row     *)
(* holds the set of this user's edits ("mine"), a count of other people's  *)
(* ("theirs"), and the number of writes the server has applied ("at").     *)
(***************************************************************************)
EXTENDS Naturals

CONSTANTS
    Kinds,       \* the pages a run mounts, a set of the records below
    MaxAsks,     \* GETs of the tab in flight at once
    MaxPuts,     \* writes of the tab in flight at once
    MaxEdits,    \* edits the user makes
    MaxTyped,    \* times the user changes the text of a "query", of an "address"
    MaxWrites    \* writes sent to the server, other people's included

ASSUME BoundsAssumption ==
    /\ MaxAsks \in Nat \ {0}
    /\ MaxPuts \in Nat \ {0}
    /\ {MaxEdits, MaxWrites} \subseteq Nat
    /\ MaxTyped \in [{"query", "address"} -> Nat]

VARIABLES
    page,     \* the page mounted in the tab
    row,      \* the row at the server
    shown,    \* the rows in the page's state
    err,      \* the page's error is set
    typed,    \* the text in the search, the number of its last change
    due,      \* an effect, or the timer of a search, is to run
    asks,     \* GETs in flight
    form,     \* the dialog that edits the row
    puts,     \* writes in flight
    used,     \* edits made so far
    acked,    \* edits whose write was answered with success
    left,     \* writes still to be sent, by anyone
    seen,     \* the newest row the page has shown, by its "at"
    rush      \* what overlapped: an act and a "load", an act and a "write",
              \* two "asks", a change of the "text" and what carries the old one

vars == <<page, row, shown, err, typed, due, asks, form, puts,
          used, acked, left, seen, rush>>

Edit == 1 .. MaxEdits
Row == [mine : SUBSET Edit, theirs : Nat, at : Nat]
NoRow == [mine |-> {}, theirs |-> 0, at |-> 0]

-----------------------------------------------------------------------------
(* The writes of the pages.  "from" is what the body is made of: the rows  *)
(* rendered when the button is pressed; the copy of a row that a dialog    *)
(* took when it was opened ("form"), or the empty form of one that creates *)
(* a row ("new"); the state of the page itself; or the body has nothing of *)
(* the row but its id, and is sent from the table ("row") or from inside   *)
(* an open dialog.  "loads" are the answers after which the page asks for  *)
(* its rows again.  "tells": a refusal is set as the page's own error.     *)

Write ==
    [from : {"rendered", "form", "new", "page", "row", "inside"},
     loads : SUBSET {"ok", "refused"}, tells : BOOLEAN]

\* Mutant: a page with dialogs that does not ask again after a save.
FormUnloaded == [from |-> "form", loads |-> {}, tells |-> FALSE]

Form == [from |-> "form", loads |-> {"ok"}, tells |-> FALSE]
NewForm == [from |-> "new", loads |-> {"ok"}, tells |-> FALSE]
Command == [from |-> "row", loads |-> {"ok"}, tells |-> FALSE]
InPlace == [from |-> "page", loads |-> {}, tells |-> FALSE]

SetMemberRoles == [from |-> "rendered", loads |-> {"ok", "refused"}, tells |-> FALSE]
AddMember == NewForm
RemoveMember == Command
Cycle == [from |-> "rendered", loads |-> {"ok"}, tells |-> TRUE]
CreateRoleDialog == NewForm
ClientDialog == {Form, NewForm}
RemoveClient == Command
DeviceDialog == {Form, NewForm}
RemoveDevice == Command
DeptDialog == {Form, NewForm}
RemoveDept == Command
PersonDialog == Form
Act == Command
StateDialog == Form
ApplyDeletion == [from |-> "inside", loads |-> {"ok"}, tells |-> FALSE]
Impersonate == [from |-> "row", loads |-> {}, tells |-> FALSE]
Decide == [from |-> "row", loads |-> {}, tells |-> TRUE]
SaveProfile == InPlace
SaveName == InPlace

-----------------------------------------------------------------------------
(* The pages.  again: when the effect runs after the first time, "never",  *)
(* after each "render" (the function t of useT is a new one each time and  *)
(* is among the dependencies), when the "query" or the "address" typed     *)
(* changes, or when the "nonce" of useResource does.  guarded: the cleanup *)
(* makes earlier answers be dropped.  blanks: the effect first empties the *)
(* state.  clears: an answer clears an earlier error.  failed: the rows    *)
(* after a failure.  alert: whether the error stands instead of the rows,  *)
(* above them, above them until dismissed, or is not kept.  diffs: the     *)
(* state holds plain values, and setting an equal one does not render.     *)

PageRecord ==
    [again : {"never", "render", "query", "address", "nonce"},
     guarded : BOOLEAN, blanks : BOOLEAN, clears : BOOLEAN, diffs : BOOLEAN,
     failed : {"kept", "empty", "none"},
     alert : {"instead", "above", "dismissible", "none"},
     writes : SUBSET Write]

UseResource(writes) ==
    [again |-> "nonce", guarded |-> TRUE, blanks |-> TRUE, clears |-> TRUE,
     diffs |-> FALSE, failed |-> "none", alert |-> "instead", writes |-> writes]

\* A list loaded by a callback that the page calls again after its writes.
Loaded(again, clears, failed, alert, writes) ==
    [again |-> again, guarded |-> FALSE, blanks |-> FALSE, clears |-> clears,
     diffs |-> FALSE, failed |-> failed, alert |-> alert, writes |-> writes]

MembersPage ==
    Loaded("render", FALSE, "kept", "instead", {SetMemberRoles, AddMember, RemoveMember})
AddMemberDialog == Loaded("address", TRUE, "none", "none", {})
RolesPage ==
    Loaded("render", FALSE, "empty", "dismissible", {Cycle, CreateRoleDialog})
SSOClientsPage ==
    Loaded("render", FALSE, "kept", "instead", ClientDialog \cup {RemoveClient})
DevicesPage ==
    Loaded("query", TRUE, "empty", "instead", DeviceDialog \cup {RemoveDevice})
DepartmentsPage ==
    Loaded("never", TRUE, "empty", "instead", DeptDialog \cup {RemoveDept})
PeoplePage == Loaded("never", TRUE, "empty", "instead", {PersonDialog})
StorePage == UseResource({Act})
HistoryDialog == UseResource({})
AuditPage == UseResource({})
TenantsPage == UseResource({StateDialog, ApplyDeletion})
MembersDialog ==
    [again |-> "render", guarded |-> TRUE, blanks |-> FALSE, clears |-> FALSE,
     diffs |-> FALSE, failed |-> "kept", alert |-> "above", writes |-> {Impersonate}]
UsersPage == UseResource({})
AppsPage == UseResource({})
PanelAuditPage == UseResource({})
OverviewPage == UseResource({})
SettingsPage ==
    [again |-> "render", guarded |-> TRUE, blanks |-> FALSE, clears |-> FALSE,
     diffs |-> FALSE, failed |-> "kept", alert |-> "instead", writes |-> {SaveProfile}]
ProfilePage ==
    [again |-> "render", guarded |-> TRUE, blanks |-> FALSE, clears |-> FALSE,
     diffs |-> TRUE, failed |-> "kept", alert |-> "none", writes |-> {SaveName}]
ConsentPage ==
    [again |-> "never", guarded |-> TRUE, blanks |-> FALSE, clears |-> FALSE,
     diffs |-> FALSE, failed |-> "kept", alert |-> "above", writes |-> {Decide}]

Pages ==
    {MembersPage, AddMemberDialog, RolesPage, SSOClientsPage, DevicesPage,
     DepartmentsPage, PeoplePage, StorePage, HistoryDialog, AuditPage, TenantsPage,
     MembersDialog, UsersPage, AppsPage, PanelAuditPage, OverviewPage,
     SettingsPage, ProfilePage, ConsentPage}

ASSUME KindsAssumption == Kinds \subseteq Pages

-----------------------------------------------------------------------------
(* The state of the page and its requests.                                 *)

Ask == [state : {"free", "asked", "read", "failed"}, live : BOOLEAN, key : Nat, got : Row]
Put == [state : {"free", "sent", "done", "refused"}, by : Write, edit : Edit \cup {0},
        body : Row, key : Nat]
Shown == [state : {"loading", "rows", "empty"}, key : Nat, row : Row]
Dialog == [state : {"closed", "open", "busy"}, by : Write, edit : Edit \cup {0}, row : Row]

Idle == [state |-> "free", live |-> FALSE, key |-> 0, got |-> NoRow]
NoPut == [state |-> "free", by |-> Command, edit |-> 0, body |-> NoRow, key |-> 0]
Loading == [state |-> "loading", key |-> 0, row |-> NoRow]
Empty == [state |-> "empty", key |-> 0, row |-> NoRow]
Closed == [state |-> "closed", by |-> Command, edit |-> 0, row |-> NoRow]

Asking == \E s \in 1 .. MaxAsks : asks[s].state # "free"
Writing == \E p \in 1 .. MaxPuts : puts[p].state # "free"
Resting == ~due /\ ~Asking /\ ~Writing

\* The least free slot: which one a request takes makes no difference.
FreeAsk(s) == /\ asks[s].state = "free"
              /\ \A r \in 1 .. s - 1 : asks[r].state # "free"
FreePut(p) == /\ puts[p].state = "free"
              /\ \A r \in 1 .. p - 1 : puts[r].state # "free"

\* The table with its buttons is on the screen.
Table == shown.state = "rows" /\ ~(err /\ page.alert = "instead")

\* Mutant: the path given to useResource, too, is a new object in each render.
RenderedNonce == due' = (due \/ page.again \in {"render", "nonce"})

\* A state of the page itself has changed: a page whose effect depends on the
\* render runs it again.
Rendered == due' = (due \/ page.again = "render")

Init ==
    /\ page \in Kinds
    /\ row = NoRow
    /\ shown = Loading
    /\ err = FALSE
    /\ typed = 0
    /\ due = (page.again # "address")
    /\ asks = [s \in 1 .. MaxAsks |-> Idle]
    /\ form = Closed
    /\ puts = [p \in 1 .. MaxPuts |-> NoPut]
    /\ used = 0
    /\ acked = {}
    /\ left = MaxWrites
    /\ seen = 0
    /\ rush = {}

-----------------------------------------------------------------------------
(* Loading.                                                                *)

\* A GET leaves, for the rows of a text; with a cleanup that guards, those before
\* it are dropped when they come back.
Sent(s, guarded, key) ==
    asks' = [r \in 1 .. MaxAsks |->
                IF r = s
                THEN [state |-> "asked", live |-> TRUE, key |-> key, got |-> NoRow]
                ELSE [asks[r] EXCEPT !.live = @ /\ ~guarded]]

\* Two GETs are in flight at once.
Overlap == IF Asking THEN {"asks"} ELSE {}

\* React runs the effect, or the timer of the search fires.
RunEffect ==
    /\ due
    /\ \E s \in 1 .. MaxAsks : FreeAsk(s) /\ Sent(s, page.guarded, typed)
    /\ due' = FALSE
    /\ shown' = IF page.blanks THEN Loading ELSE shown
    /\ err' = (err /\ ~page.blanks)
    /\ rush' = rush \cup Overlap
    /\ UNCHANGED <<page, row, typed, form, puts, used, acked, left, seen>>

\* The server answers with the row as it is then, or with an error.
Read(s) ==
    /\ asks[s].state = "asked"
    /\ asks' \in {[asks EXCEPT ![s].state = "read", ![s].got = row],
                  [asks EXCEPT ![s].state = "failed"]}
    /\ UNCHANGED <<page, row, shown, err, typed, due, form, puts,
                   used, acked, left, seen, rush>>

\* What the states of two renderings differ in, for a page of plain values.
Same(a, b) ==
    a.state = b.state /\ a.row.mine = b.row.mine /\ a.row.theirs = b.row.theirs

\* Mutant: without the flag alive of the cleanup.
SucceedsLate(s) ==
    /\ asks[s].state = "read"
    /\ asks' = [asks EXCEPT ![s] = Idle]
    /\ shown' = [state |-> "rows", key |-> asks[s].key, row |-> asks[s].got]
    /\ err' = (err /\ ~page.clears)
    /\ IF page.diffs /\ Same(shown', shown) THEN UNCHANGED due ELSE Rendered
    /\ seen' = IF asks[s].got.at > seen THEN asks[s].got.at ELSE seen
    /\ UNCHANGED <<page, row, typed, form, puts, used, acked, left, rush>>

Succeeds(s) ==
    /\ asks[s].state = "read"
    /\ page.guarded => asks[s].live
    /\ asks' = [asks EXCEPT ![s] = Idle]
    /\ shown' = [state |-> "rows", key |-> asks[s].key, row |-> asks[s].got]
    /\ err' = (err /\ ~page.clears)
    /\ IF page.diffs /\ Same(shown', shown) THEN UNCHANGED due ELSE Rendered
    /\ seen' = IF asks[s].got.at > seen THEN asks[s].got.at ELSE seen
    /\ UNCHANGED <<page, row, typed, form, puts, used, acked, left, rush>>

\* Mutant: only the rows are emptied.
FailsSilently(s) ==
    /\ asks[s].state = "failed"
    /\ page.guarded => asks[s].live
    /\ asks' = [asks EXCEPT ![s] = Idle]
    /\ shown' = IF page.failed = "kept" THEN shown ELSE Empty
    /\ Rendered
    /\ UNCHANGED <<page, row, err, typed, form, puts, used, acked, left, seen, rush>>

\* An error that is set already is no change; a new empty list is one.
Fails(s) ==
    /\ asks[s].state = "failed"
    /\ page.guarded => asks[s].live
    /\ asks' = [asks EXCEPT ![s] = Idle]
    /\ shown' = CASE page.failed = "kept" -> shown
                  [] page.failed = "empty" -> Empty
                  [] page.failed = "none" -> Loading
    /\ err' = (page.alert # "none")
    /\ IF err' = err /\ page.failed # "empty" THEN UNCHANGED due ELSE Rendered
    /\ UNCHANGED <<page, row, typed, form, puts, used, acked, left, seen, rush>>

Drops(s) ==
    /\ asks[s].state \in {"read", "failed"}
    /\ page.guarded /\ ~asks[s].live
    /\ asks' = [asks EXCEPT ![s] = Idle]
    /\ UNCHANGED <<page, row, shown, err, typed, due, form, puts,
                   used, acked, left, seen, rush>>

\* The session is over (401): the browser is sent to the login page, and until it
\* gets there useResource goes on loading.  Other pages set the error as well.
SignedOut(s) ==
    /\ asks[s].state = "failed"
    /\ page.again = "nonce" /\ asks[s].live
    /\ asks' = [asks EXCEPT ![s] = Idle]
    /\ UNCHANGED <<page, row, shown, err, typed, due, form, puts,
                   used, acked, left, seen, rush>>

Deliver(s) == Succeeds(s) \/ Fails(s) \/ Drops(s) \/ SignedOut(s)

\* The page asks for its rows after a write: useResource through its nonce, the
\* others by calling load with what the render that sent the write had as text.
Load(key) ==
    IF page.again = "nonce"
    THEN due' = TRUE /\ UNCHANGED <<asks, rush>>
    ELSE /\ \E s \in 1 .. MaxAsks : FreeAsk(s) /\ Sent(s, FALSE, key)
         /\ rush' = rush \cup Overlap
         /\ Rendered

-----------------------------------------------------------------------------
(* What the user does.  React runs an effect that is due before it handles *)
(* the next click; the timer of a search may still be running.             *)

Flushed == due => page.again \in {"query", "address"}

\* What the user does not wait for.
Rush ==
    rush' = rush \cup (IF Asking \/ due THEN {"load"} ELSE {})
                 \cup (IF Writing THEN {"write"} ELSE {})

NewEdit == used < MaxEdits /\ used' = used + 1

Send(p, w, edit, body) ==
    /\ FreePut(p)
    /\ left > 0
    /\ puts' = [puts EXCEPT ![p] = [state |-> "sent", by |-> w, edit |-> edit, body |-> body,
                                     key |-> typed]]
    /\ left' = left - 1

\* Mutant: the edit of the next one in the list.
WithNext(r, edit) == [r EXCEPT !.mine = @ \cup {edit + 1}]

With(r, edit) == [r EXCEPT !.mine = @ \cup {edit}]

\* A button in the table whose write is computed from the rows rendered.  An open
\* dialog covers the page: nothing behind it can be used.
Press(p, w) ==
    /\ w.from = "rendered" /\ Flushed /\ Table
    /\ form.state = "closed"
    /\ NewEdit
    /\ Send(p, w, used + 1, With(shown.row, used + 1))
    /\ Rush
    /\ UNCHANGED <<page, row, shown, err, typed, due, asks, form, acked, seen>>

\* A confirmed command: on a row of the table, or on the row of the open dialog,
\* whose form may have been sent already.
Order(p, w) ==
    /\ Flushed
    /\ \/ w.from = "row" /\ Table /\ form.state = "closed"
       \/ w.from = "inside" /\ form.state # "closed"
    /\ NewEdit
    /\ Send(p, w, used + 1, With(NoRow, used + 1))
    /\ Rush
    /\ Rendered
    /\ UNCHANGED <<page, row, shown, err, typed, asks, form, acked, seen>>

\* The dialog copies the row of the table, and the user edits the copy; or it is
\* opened from the head of the page, whatever the table shows, with an empty form.
OpenForm(w) ==
    /\ w.from \in {"form", "new"} /\ Flushed
    /\ w.from = "form" => Table
    /\ form.state = "closed"
    /\ NewEdit
    /\ form' = [state |-> "open", by |-> w, edit |-> used + 1,
                row |-> With(IF w.from = "form" THEN shown.row ELSE NoRow, used + 1)]
    /\ Rush
    /\ Rendered
    /\ UNCHANGED <<page, row, shown, err, typed, asks, puts, acked, left, seen>>

SubmitForm(p) ==
    /\ form.state = "open" /\ Flushed
    /\ Send(p, form.by, form.edit, form.row)
    /\ form' = [form EXCEPT !.state = "busy"]
    /\ Rush
    /\ UNCHANGED <<page, row, shown, err, typed, due, asks, used, acked, seen>>

\* The dialog can be closed at any time, also while its write is in flight.
CloseForm ==
    /\ form.state # "closed" /\ Flushed
    /\ form' = Closed
    /\ Rendered
    /\ UNCHANGED <<page, row, shown, err, typed, asks, puts,
                   used, acked, left, seen, rush>>

\* The inputs of the page itself: its state is the form.
TypeDraft(w) ==
    /\ w.from = "page" /\ Flushed /\ Table
    /\ NewEdit
    /\ shown' = [shown EXCEPT !.row = With(@, used + 1)]
    /\ Rush
    /\ Rendered
    /\ UNCHANGED <<page, row, err, typed, asks, form, puts, acked, left, seen>>

SavePage(p, w) ==
    /\ w.from = "page" /\ Flushed /\ Table
    /\ ~Writing /\ used > 0
    /\ Send(p, w, used, shown.row)
    /\ Rush
    /\ Rendered
    /\ UNCHANGED <<page, row, shown, err, typed, asks, form, used, acked, seen>>

\* A new text while a write is under way: its reload has the old one.
Outrun == IF Writing THEN {"text"} ELSE {}

\* Mutant: the timer is started by the first letter only.
TypeOnce ==
    /\ page.again \in {"query", "address"} /\ form.state = "closed"
    /\ typed < MaxTyped[page.again] /\ typed' = typed + 1
    /\ due' = (due \/ typed = 0)
    /\ rush' = rush \cup Outrun
    /\ UNCHANGED <<page, row, shown, err, asks, form, puts, used, acked, left, seen>>

\* The text of the search, or of the address, changes: the timer starts again.
\* A text that is no address stops it and forgets the answer; a lookup that is
\* under way is not stopped.
Type ==
    /\ page.again \in {"query", "address"} /\ form.state = "closed"
    /\ typed < MaxTyped[page.again] /\ typed' = typed + 1
    /\ \/ /\ due' = TRUE /\ UNCHANGED shown
          /\ rush' = rush \cup Outrun
       \/ /\ page.again = "address" /\ due' = FALSE /\ shown' = Loading
          /\ rush' = rush \cup (IF Asking THEN {"text"} ELSE {})
    /\ UNCHANGED <<page, row, err, asks, form, puts, used, acked, left, seen>>

\* The button under the error of useResource.
Retry ==
    /\ page.again = "nonce" /\ err /\ Flushed /\ form.state = "closed"
    /\ due' = TRUE
    /\ UNCHANGED <<page, row, shown, err, typed, asks, form, puts,
                   used, acked, left, seen, rush>>

Dismiss ==
    /\ page.alert = "dismissible" /\ err /\ Flushed /\ form.state = "closed"
    /\ err' = FALSE
    /\ Rendered
    /\ UNCHANGED <<page, row, shown, typed, asks, form, puts,
                   used, acked, left, seen, rush>>

-----------------------------------------------------------------------------
(* Writing.                                                                *)

\* A body made from rows replaces the row, other people's part included; a
\* command changes what it names.
Applied(put) ==
    [IF put.by.from \in {"rendered", "form", "page"}
     THEN put.body ELSE With(row, put.edit) EXCEPT !.at = row.at + 1]

\* The server applies the write or refuses it, or its answer is lost.
Arrive(p) ==
    /\ puts[p].state = "sent"
    /\ \/ row' = Applied(puts[p]) /\ puts' = [puts EXCEPT ![p].state = "done"]
       \/ row' = Applied(puts[p]) /\ puts' = [puts EXCEPT ![p].state = "refused"]
       \/ UNCHANGED row /\ puts' = [puts EXCEPT ![p].state = "refused"]
    /\ UNCHANGED <<page, shown, err, typed, due, asks, form,
                   used, acked, left, seen, rush>>

\* Writes sent from a dialog of the page.
InDialog(w) == w.from \in {"form", "new", "inside"}

\* Mutant: the dialog closes and the table is left as it was.
ConfirmedUnloaded(p) ==
    /\ puts[p].state = "done"
    /\ puts' = [puts EXCEPT ![p] = NoPut]
    /\ acked' = acked \cup {puts[p].edit}
    /\ form' = IF InDialog(puts[p].by) THEN Closed ELSE form
    /\ Rendered
    /\ UNCHANGED <<page, row, shown, asks, err, typed, used, left, seen, rush>>

\* Whichever dialog is open by then, the answer to an earlier one closes it.
Confirmed(p) ==
    /\ puts[p].state = "done"
    /\ puts' = [puts EXCEPT ![p] = NoPut]
    /\ acked' = acked \cup {puts[p].edit}
    /\ form' = IF InDialog(puts[p].by) THEN Closed ELSE form
    /\ IF "ok" \in puts[p].by.loads
       THEN Load(puts[p].key) ELSE Rendered /\ UNCHANGED <<asks, rush>>
    /\ UNCHANGED <<page, row, shown, err, typed, used, left, seen>>

Refused(p) ==
    /\ puts[p].state = "refused"
    /\ puts' = [puts EXCEPT ![p] = NoPut]
    /\ form' = IF form.state = "busy" /\ form.edit = puts[p].edit
               THEN [form EXCEPT !.state = "open"] ELSE form
    /\ err' = (err \/ puts[p].by.tells)
    /\ IF "refused" \in puts[p].by.loads
       THEN Load(puts[p].key) ELSE Rendered /\ UNCHANGED <<asks, rush>>
    /\ UNCHANGED <<page, row, shown, typed, used, acked, left, seen>>

Answer(p) == Confirmed(p) \/ Refused(p)

\* Another administrator changes the row.
OthersWrite ==
    /\ left > 0 /\ left' = left - 1
    /\ row' = [row EXCEPT !.theirs = @ + 1, !.at = @ + 1]
    /\ UNCHANGED <<page, shown, err, typed, due, asks, form, puts,
                   used, acked, seen, rush>>

User ==
    \/ \E p \in 1 .. MaxPuts, w \in page.writes :
          Press(p, w) \/ Order(p, w) \/ SavePage(p, w)
    \/ \E p \in 1 .. MaxPuts : SubmitForm(p)
    \/ \E w \in page.writes : OpenForm(w) \/ TypeDraft(w)
    \/ CloseForm \/ Type \/ Retry \/ Dismiss

\* What goes on when nobody does anything.
Machine ==
    \/ RunEffect
    \/ \E s \in 1 .. MaxAsks : Read(s) \/ Deliver(s)
    \/ \E p \in 1 .. MaxPuts : Arrive(p) \/ Answer(p)

Next == Machine \/ User \/ OthersWrite

\* React runs its effects, the network answers or fails, and the client handles
\* what came back; nothing makes the user do anything.
Fairness ==
    /\ WF_vars(RunEffect)
    /\ \A s \in 1 .. MaxAsks : WF_vars(Read(s)) /\ WF_vars(Deliver(s))
    /\ \A p \in 1 .. MaxPuts : WF_vars(Arrive(p)) /\ WF_vars(Answer(p))

Spec == Init /\ [][Next]_vars /\ Fairness

-----------------------------------------------------------------------------
\* Types.
TypeOK ==
    /\ page \in PageRecord
    /\ row \in Row
    /\ shown \in Shown
    /\ err \in BOOLEAN
    /\ typed \in Nat
    /\ due \in BOOLEAN
    /\ asks \in [1 .. MaxAsks -> Ask]
    /\ form \in Dialog
    /\ puts \in [1 .. MaxPuts -> Put]
    /\ used \in 0 .. MaxEdits
    /\ acked \in SUBSET (Edit \cup {0})
    /\ left \in 0 .. MaxWrites
    /\ seen \in Nat
    /\ rush \in SUBSET {"load", "write", "asks", "text"}

\* The rows on the screen are never older than rows the page has shown before,
\* however its answers overtake each other, if the cleanup of the effect drops
\* late ones (use-resource.ts) or no two requests were in flight at once.
NewestShown ==
    (page.guarded \/ "asks" \notin rush) /\ shown.state = "rows" => shown.row.at = seen

Whole(w) == w.from \in {"rendered", "form"}
InPage == \E w \in page.writes : w.from = "page"

\* A change that was answered with success is in the row for good: neither a
\* later write of the same user nor a retry takes it back.  A page that empties
\* its state before it asks needs the user to wait for the answer to a write;
\* the others need the user to wait for the rows that follow it as well, and
\* need those rows not to have been overtaken by older ones.
OwnEditsKept ==
    ~InPage /\ "write" \notin rush /\ (page.blanks \/ rush = {})
       => acked \subseteq row.mine

\* At rest, a table shows every change of its own user that was answered with
\* success, where each write asks for the rows again, and under the same condition
\* on what overlaps.
RestingIsCurrent ==
    Resting /\ Table /\ "write" \notin rush /\ (page.blanks \/ rush = {})
    /\ (\A w \in page.writes : "ok" \in w.loads)
       => acked \subseteq shown.row.mine

\* At rest the rows, or the answer about an address, are those of the text on the
\* screen, however the user types while answers are on their way: unless two GETs
\* of the page met, or the text was changed while a write was under way, whose
\* reload asks with the old one, or was emptied while a lookup was.
AnswersTyped ==
    page.again \in {"query", "address"} /\ rush \cap {"asks", "text"} = {}
    /\ ~due /\ ~Asking /\ shown.state = "rows"
       => shown.key = typed

\* An empty table means that there are no rows, not that they could not be had
\* (states.tsx:4-5); the roles page, whose error can be dismissed, is left out.
NoSilentEmpty == shown.state = "empty" /\ page.alert # "dismissible" => err

\* What the tab has still to do, in the order in which one thing can bring about
\* another: writes to be answered, writes to arrive, the effect, GETs to come
\* back, GETs to be read.
Work ==
    <<{p \in 1 .. MaxPuts : puts[p].state # "free"},
      {p \in 1 .. MaxPuts : puts[p].state = "sent"},
      {e \in {"effect"} : due},
      {s \in 1 .. MaxAsks : asks[s].state # "free"},
      {s \in 1 .. MaxAsks : asks[s].state = "asked"}>>

\* Less of one thing, and of those before it as much.
Less(a, b) ==
    \E i \in 1 .. 5 : /\ a[i] \subseteq b[i] /\ a[i] # b[i]
                     /\ \A j \in 1 .. i - 1 : a[j] = b[j]

\* An answer never brings about another request, unless the effect runs after
\* every render: what goes on by itself makes the tab's work less with each step,
\* so the page asks only as often as the user does something.
WorkRunsOut == [][Machine /\ page.again # "render" => Less(Work', Work)]_vars

\* A page asks only as often as something happened: it comes to rest again and
\* again, unless its effect runs after every render.
Settles == page.again # "render" => []<>Resting
=============================================================================
