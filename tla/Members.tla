------------------------------- MODULE Members -------------------------------
(***************************************************************************)
(* Who belongs to a tenant and with which roles: AddMember, SetMemberRoles *)
(* and RemoveMember (internal/core/handlers/rbac.go) over memberships and  *)
(* membership_roles (00001_core.sql).                                      *)
(*                                                                         *)
(* Each request is one transaction at READ COMMITTED (TenantDB.Tx): every  *)
(* statement is an action and sees what was committed when it starts.  A   *)
(* statement that meets a row another open transaction has deleted or      *)
(* inserted waits for that transaction to end.                             *)
(*                                                                         *)
(* The roles are those SeedTenantRoles gives a tenant, each implying the   *)
(* one below, and the rights of each stay what they are: a role is within  *)
(* an actor's grants when the actor holds one at least as high.  Managing  *)
(* says which of them carry core.members.manage; Asks is the set of role   *)
(* sets that requests ask for.  The cache of grants, which can be 30       *)
(* seconds old, is left out: mine is what the actor holds at the start.    *)
(* A member that was removed is not added again: a membership's id is new  *)
(* each time.                                                              *)
(***************************************************************************)
EXTENDS Integers

CONSTANTS Member, Founder, Request, Managing, Asks, None

Role == {"user", "manager", "admin"}

ASSUME FounderIsMember == Founder \in Member
ASSUME AdminsManage == Managing \subseteq Role /\ "admin" \in Managing
ASSUME AsksAreRoles == Asks \subseteq SUBSET Role

VARIABLES
    members,  \* rows of memberships: "never", "in" or "gone"
    held,     \* rows of membership_roles
    pc,       \* the next statement of each request
    job,      \* its kind, actor, target and roles, and the actor's own roles
    todo,     \* the roles it has still to insert
    snap,     \* the rows the DELETE in progress saw when it started, and that are there
    del,      \* the rows it has deleted, not yet committed
    ins,      \* the rows it has inserted, not yet committed
    met,      \* the open changes that met another one, of any member ...
    clash     \* ... and of the same member

table == <<members, held>>
own == <<job, todo, snap, del, ins>>
history == <<met, clash>>
vars == <<table, pc, own, history>>

Jobs == [kind: {"add", "set", "remove"}, actor: Member, target: Member,
         codes: SUBSET Role, mine: SUBSET Role]
PC == {"idle", "add", "check", "delete", "deleting", "insert", "drop", "admin", "commit"}

RowsOf(m) == {m} \X Role

TypeOK ==
    /\ members \in [Member -> {"never", "in", "gone"}]
    /\ held \subseteq Member \X Role
    /\ pc \in [Request -> PC]
    /\ job \in [Request -> Jobs \cup {None}]
    /\ \A r \in Request :
        IF pc[r] = "idle" THEN job[r] = None /\ del[r] = {} /\ ins[r] = {}
        ELSE /\ job[r] \in Jobs
             /\ snap[r] \cup del[r] \cup ins[r] \subseteq RowsOf(job[r].target)
    /\ todo \in [Request -> SUBSET Role]
    /\ snap \in [Request -> SUBSET (Member \X Role)]
    /\ del \in [Request -> SUBSET (Member \X Role)]
    /\ ins \in [Request -> SUBSET (Member \X Role)]
    /\ clash \subseteq met /\ met \subseteq {r \in Request : pc[r] # "idle"}

Init ==
    /\ members = [m \in Member |-> IF m = Founder THEN "in" ELSE "never"]
    /\ held = {<<Founder, "admin">>}
    /\ pc = [r \in Request |-> "idle"]
    /\ job = [r \in Request |-> None]
    /\ todo = [r \in Request |-> {}]
    /\ snap = [r \in Request |-> {}]
    /\ del = [r \in Request |-> {}]
    /\ ins = [r \in Request |-> {}]
    /\ met = {}
    /\ clash = {}

-----------------------------------------------------------------------------
Rank(c) == CASE c = "user" -> 1 [] c = "manager" -> 2 [] c = "admin" -> 3

\* roleWithinGrants
Within(c, mine) == \E d \in mine : Rank(c) <= Rank(d)

RolesOf(m) == {c \in Role : <<m, c>> \in held}

\* What the statements of r see.
Visible(r) == (held \ del[r]) \cup ins[r]

Open(r) == pc[r] # "idle"
Others(r) == {x \in Request \ {r} : Open(x)}
Adding(x, m) == pc[x] \in {"delete", "deleting", "insert", "commit"} /\ job[x].kind = "add"
                /\ job[x].target = m
Dropping(x, m) == pc[x] \in {"admin", "commit"} /\ job[x].kind = "remove" /\ job[x].target = m

Goto(r, label) == pc' = [pc EXCEPT ![r] = label]

\* The changes that are open, and those of m; whoever meets one when r begins.
Changes == {x \in Request : Open(x) /\ job[x].kind # "add"}
ChangesOf(m) == {x \in Changes : job[x].target = m}
Meeting(r, open) == IF open = {} THEN {} ELSE open \cup {r}

\* The transaction is over, and with it what it held.
End(r) ==
    /\ Goto(r, "idle")
    /\ job' = [job EXCEPT ![r] = None]
    /\ todo' = [todo EXCEPT ![r] = {}]
    /\ del' = [del EXCEPT ![r] = {}]
    /\ ins' = [ins EXCEPT ![r] = {}]
    /\ met' = met \ {r}
    /\ clash' = clash \ {r}

\* Rows that are deleted for good are no longer those another statement saw, also
\* where they were inserted again: such a row is another one.
Forget(r, deleted) ==
    snap' = [x \in Request |-> IF x = r THEN {} ELSE snap[x] \ deleted]

\* A refusal, an error or a lost connection: everything is rolled back.
Rollback(r) == End(r) /\ Forget(r, {}) /\ UNCHANGED table

-----------------------------------------------------------------------------
(* The request passed requirePermission: its actor holds a managing role. *)
Begin(r, kind, u, m, codes) ==
    /\ pc[r] = "idle" /\ members[u] = "in" /\ RolesOf(u) \cap Managing # {}
    /\ Goto(r, IF kind = "add" THEN "add" ELSE "check")
    /\ job' = [job EXCEPT ![r] = [kind |-> kind, actor |-> u, target |-> m,
                                  codes |-> codes, mine |-> RolesOf(u)]]
    /\ IF kind = "add" THEN UNCHANGED history
       ELSE /\ met' = met \cup Meeting(r, Changes)
            /\ clash' = clash \cup Meeting(r, ChangesOf(m))
    /\ UNCHANGED <<table, todo, snap, del, ins>>

\* Mutant: the roles of someone who is already a member are written over.
InsertMembershipAnyway(r) ==
    LET m == job[r].target
    IN  /\ pc[r] = "add"
        /\ ~ \E x \in Others(r) : Adding(x, m) \/ Dropping(x, m)
        /\ members[m] # "gone"
        /\ Goto(r, "delete")
        /\ UNCHANGED <<table, own, history>>

(* INSERT .. ON CONFLICT, which tells a new membership from one that was
   there: that one is answered 409 and left alone. *)
InsertMembership(r) ==
    LET m == job[r].target
    IN  /\ pc[r] = "add"
        /\ ~ \E x \in Others(r) : Adding(x, m) \/ Dropping(x, m)
        /\ members[m] # "gone"
        /\ IF members[m] = "in" THEN Rollback(r)
           ELSE Goto(r, "delete") /\ UNCHANGED <<table, own, history>>

(* The roles the member has now must be ones the actor could give: all of
   them to remove the member, those that are not kept to set new ones. *)
CheckExisting(r) ==
    LET m == job[r].target
        lost == IF job[r].kind = "remove" THEN RolesOf(m) ELSE RolesOf(m) \ job[r].codes
    IN  /\ pc[r] = "check"
        /\ IF members[m] = "in" /\ \A c \in lost : Within(c, job[r].mine)
           THEN /\ Goto(r, IF job[r].kind = "remove" THEN "drop" ELSE "delete")
                /\ UNCHANGED <<table, own, history>>
           ELSE Rollback(r)

\* Mutant: WHERE membership_id forgotten.
DeleteRolesOfAll(r) ==
    /\ pc[r] = "delete"
    /\ snap' = [snap EXCEPT ![r] = Visible(r)]
    /\ Goto(r, "deleting")
    /\ UNCHANGED <<table, job, todo, del, ins, history>>

(* DELETE FROM membership_roles: the statement starts with the rows it sees ... *)
DeleteRoles(r) ==
    /\ pc[r] = "delete"
    /\ snap' = [snap EXCEPT ![r] = Visible(r) \cap RowsOf(job[r].target)]
    /\ Goto(r, "deleting")
    /\ UNCHANGED <<table, job, todo, del, ins, history>>

(* ... waits for those that others are deleting, and deletes those that are
   still there.  Rows that came in the meantime it has not seen, a row that was
   deleted and inserted again among them. *)
DeletedRoles(r) ==
    /\ pc[r] = "deleting"
    /\ \A x \in Others(r) : del[x] \cap snap[r] = {}
    /\ ~ \E x \in Others(r) : snap[r] # {} /\ Dropping(x, job[r].target)
    /\ del' = [del EXCEPT ![r] = snap[r] \cap held]
    /\ snap' = [snap EXCEPT ![r] = {}]
    /\ todo' = [todo EXCEPT ![r] = job[r].codes]
    /\ Goto(r, "insert")
    /\ UNCHANGED <<table, job, ins, history>>

\* Mutant: roleWithinGrants forgotten for the roles that are given.
InsertRoleUnchecked(r, c) ==
    LET m == job[r].target
        p == <<m, c>>
    IN  /\ pc[r] = "insert" /\ c \in todo[r]
        /\ ~ \E x \in Others(r) : p \in ins[x] \cup del[x] \/ Dropping(x, m)
        /\ p \notin Visible(r) /\ (members[m] = "in" \/ job[r].kind = "add")
        /\ ins' = [ins EXCEPT ![r] = @ \cup {p}]
        /\ todo' = [todo EXCEPT ![r] = @ \ {c}]
        /\ UNCHANGED <<table, pc, job, snap, del, history>>

(* One role of the new set.  It must be within the actor's grants; the row
   must not exist (the primary key) and the membership must (the foreign key);
   either is waited for while another transaction is about to decide it. *)
InsertRole(r, c) ==
    LET m == job[r].target
        p == <<m, c>>
    IN  /\ pc[r] = "insert" /\ c \in todo[r]
        /\ ~ \E x \in Others(r) : p \in ins[x] \cup del[x] \/ Dropping(x, m)
        /\ IF Within(c, job[r].mine) /\ p \notin Visible(r)
              /\ (members[m] = "in" \/ job[r].kind = "add")
           THEN /\ ins' = [ins EXCEPT ![r] = @ \cup {p}]
                /\ todo' = [todo EXCEPT ![r] = @ \ {c}]
                /\ UNCHANGED <<table, pc, job, snap, del, history>>
           ELSE Rollback(r)

\* Every role is in: SetMemberRoles goes on to tenantHasAdmin.
InsertedRoles(r) ==
    /\ pc[r] = "insert" /\ todo[r] = {}
    /\ Goto(r, IF job[r].kind = "set" THEN "admin" ELSE "commit")
    /\ UNCHANGED <<table, own, history>>

\* Mutant: a soft delete, without the cascade to membership_roles.
DropMembershipOnly(r) ==
    /\ pc[r] = "drop" /\ members[job[r].target] = "in" /\ job[r].target # job[r].actor
    /\ Goto(r, "admin")
    /\ UNCHANGED <<table, own, history>>

(* DELETE FROM memberships with the cascade to membership_roles.  Nobody
   removes himself; a membership that is not there is answered 404. *)
DropMembership(r) ==
    LET m == job[r].target
    IN  /\ pc[r] = "drop"
        /\ ~ \E x \in Others(r) : Dropping(x, m) \/ (del[x] \cup ins[x]) \cap RowsOf(m) # {}
        /\ IF m # job[r].actor /\ members[m] = "in"
           THEN /\ del' = [del EXCEPT ![r] = held \cap RowsOf(m)]
                /\ Goto(r, "admin")
                /\ UNCHANGED <<table, job, todo, snap, ins, history>>
           ELSE Rollback(r)

\* Mutant: the answer of tenantHasAdmin ignored.
HasAdminIgnored(r) ==
    /\ pc[r] = "admin"
    /\ Goto(r, "commit") /\ UNCHANGED <<table, own, history>>

(* tenantHasAdmin: is there an admin after the change?  The transaction sees
   its own rows and the committed ones, not what others are about to commit. *)
HasAdmin(r) ==
    /\ pc[r] = "admin"
    /\ IF \E m \in Member : <<m, "admin">> \in Visible(r)
       THEN Goto(r, "commit") /\ UNCHANGED <<table, own, history>>
       ELSE Rollback(r)

Commit(r) ==
    LET m == job[r].target
    IN  /\ pc[r] = "commit"
        /\ held' = Visible(r)
        /\ members' = [members EXCEPT ![m] = CASE job[r].kind = "add" -> "in"
                                                [] job[r].kind = "set" -> @
                                                [] job[r].kind = "remove" -> "gone"]
        /\ End(r) /\ Forget(r, del[r])

\* A statement fails, a deadlock is broken, the caller or the server is gone.
Abort(r) == Open(r) /\ Rollback(r)

Handle(r) ==
    \/ \E u, m \in Member, codes \in Asks :
        \/ Begin(r, "add", u, m, IF codes = {} THEN {"user"} ELSE codes)
        \/ Begin(r, "set", u, m, codes)
    \/ \E u, m \in Member : Begin(r, "remove", u, m, {})
    \/ InsertMembership(r) \/ CheckExisting(r)
    \/ DeleteRoles(r) \/ DeletedRoles(r)
    \/ \E c \in Role : InsertRole(r, c)
    \/ InsertedRoles(r) \/ DropMembership(r) \/ HasAdmin(r) \/ Commit(r) \/ Abort(r)

Next == \E r \in Request : Handle(r)

Spec == Init /\ [][Next]_vars

-----------------------------------------------------------------------------
(* Properties *)

AdminLeft == \E m \in Member : members[m] = "in" /\ <<m, "admin">> \in held

(* The rows of membership_roles are those of members (the foreign key and its
   cascade, against grants and removals at the same time). *)
RolesOfMembers == \A m \in Member : RolesOf(m) # {} => members[m] = "in"

(* Only a change that met another one can take the last admin (rbac.go:403),
   whoever is added while it is on its way. *)
AdminKept == [][AdminLeft /\ ~AdminLeft' => \E r \in met : Commit(r)]_vars

(* A member's roles change only when a request about it commits, and then they
   are exactly those it asked for (rbac.go:591), unless it met another change of
   the same member: whoever is added, and whoever else is changed or removed,
   while it is on its way. *)
ChangeReplaces ==
    [][\A m \in Member :
           LET Last == {r \in Request : Commit(r) /\ job[r].target = m}
           IN  /\ RolesOf(m)' # RolesOf(m) => Last # {}
               /\ \A r \in Last \ clash : RolesOf(m)' = job[r].codes]_vars

(* However requests interleave, no member gains a role that the request that
   gives it was not entitled to give: within what its actor held (rbac.go:31). *)
NothingBeyondOwnGrants ==
    [][\A m \in Member : \A c \in RolesOf(m)' \ RolesOf(m) :
           \E r \in Request : /\ pc[r] = "commit" /\ pc'[r] = "idle"
                              /\ job[r].target = m /\ Within(c, job[r].mine)]_vars

(* Adding someone never changes the roles of a member (rbac.go:563). *)
AddKeepsMembers ==
    [][\A r \in Request : pc[r] = "commit" /\ job[r].kind = "add" /\ pc'[r] = "idle" =>
           \A m \in Member : members[m] = "in" => RolesOf(m)' = RolesOf(m)]_vars

(* "байгууллагад дор хаяж нэг админ үлдэх ёстой" (rbac.go:632). *)
AdminAlwaysLeft == AdminLeft

(* SetMemberRoles replaces a member's roles (rbac.go:591 "role-уудыг солино"):
   a member has the roles that one request asked for, and no more. *)
RolesReplaced == \A m \in Member : RolesOf(m) \in Asks \cup {{}}
=============================================================================
