---------------------------- MODULE Members_proofs ----------------------------
(***************************************************************************)
(* Proofs about Members.  What a transaction has deleted and inserted are  *)
(* rows of its target; who drops a membership and who inserts a role of it *)
(* exclude each other; and what a change has read of its target stays true *)
(* until it commits, unless it met another change of the same member.      *)
(***************************************************************************)
EXTENDS Members, TLAPS

-----------------------------------------------------------------------------
(* Types.                                                                  *)

Rows == Member \X Role

TablesTyped ==
    /\ members \in [Member -> {"never", "in", "gone"}]
    /\ held \subseteq Rows

RequestsTyped ==
    /\ pc \in [Request -> PC]
    /\ job \in [Request -> Jobs \cup {None}]
    /\ todo \in [Request -> SUBSET Role]
    /\ snap \in [Request -> SUBSET Rows]
    /\ del \in [Request -> SUBSET Rows]
    /\ ins \in [Request -> SUBSET Rows]

\* The work of a request: none, or on the rows of its target.
Works(r) ==
    IF pc[r] = "idle" THEN job[r] = None /\ snap[r] = {} /\ del[r] = {} /\ ins[r] = {}
    ELSE /\ job[r] \in Jobs
         /\ snap[r] \cup del[r] \cup ins[r] \subseteq RowsOf(job[r].target)

TInv == TablesTyped /\ RequestsTyped /\ \A r \in Request : Works(r)

LEMMA RoleSets == Role \in SUBSET Role /\ {"user"} \in SUBSET Role
BY DEF Role

\* What a step of one request leaves alone of the others.
OwnStep(r) ==
    \A x \in Request \ {r} :
        /\ pc'[x] = pc[x] /\ job'[x] = job[x] /\ todo'[x] = todo[x]
        /\ snap'[x] = snap[x] \/ (Commit(r) /\ snap'[x] = snap[x] \ del[r])
        /\ del'[x] = del[x] /\ ins'[x] = ins[x]

LEMMA RollbackOwn ==
    ASSUME TInv, NEW r \in Request, Rollback(r) PROVE OwnStep(r)
<1>1. \A x \in Request \ {r} : snap'[x] = snap[x]
  BY DEF Rollback, Forget
<1> QED BY <1>1 DEF TInv, RequestsTyped, OwnStep, Rollback, End, Goto

LEMMA HandleOwn ==
    ASSUME TInv, NEW r \in Request, Handle(r) PROVE OwnStep(r)
<1>1. CASE Commit(r)
  <2>1. \A x \in Request \ {r} : snap'[x] = snap[x] \ del[r]
    BY <1>1 DEF Commit, Forget
  <2> QED BY <1>1, <2>1 DEF TInv, RequestsTyped, OwnStep, Commit, End, Goto
<1>2. CASE ~Commit(r) /\ ~Rollback(r)
  BY <1>2
  DEF TInv, RequestsTyped, OwnStep, Handle, Begin, InsertMembership, CheckExisting, DeleteRoles,
      DeletedRoles, InsertRole, InsertedRoles, DropMembership, HasAdmin, Abort, Goto, own
<1> QED BY <1>1, <1>2, RollbackOwn

LEMMA EndTyped ==
    ASSUME TInv, NEW r \in Request, End(r)
    PROVE  pc'[r] = "idle" /\ job'[r] = None /\ del'[r] = {} /\ ins'[r] = {}
BY DEF TInv, RequestsTyped, End, Goto

LEMMA ForgetTyped ==
    ASSUME TInv, NEW r \in Request, NEW deleted, End(r), Forget(r, deleted)
    PROVE  RequestsTyped' /\ Works(r)'
<1>1. snap' \in [Request -> SUBSET Rows] /\ snap'[r] = {}
  BY DEF TInv, RequestsTyped, Forget
<1> QED BY <1>1, EndTyped DEF TInv, RequestsTyped, Works, End, Goto, PC

LEMMA SameTables == ASSUME TInv, UNCHANGED table PROVE TablesTyped'
BY DEF TInv, TablesTyped, table

\* A step of r keeps the types of r's own work, and the tables'.
Keeps(r) == TablesTyped' /\ RequestsTyped' /\ Works(r)'

LEMMA RollbackTyped == ASSUME TInv, NEW r \in Request, Rollback(r) PROVE Keeps(r)
BY ForgetTyped, SameTables DEF Rollback, Keeps

\* The next statement, and nothing else.
LEMMA GotoTyped ==
    ASSUME TInv, NEW r \in Request, pc[r] # "idle", NEW l \in PC \ {"idle"}, Goto(r, l),
           UNCHANGED <<table, own>>
    PROVE  Keeps(r)
<1>1. TablesTyped'
  BY SameTables
<1>2. RequestsTyped'
  BY DEF TInv, RequestsTyped, Goto, own
<1>3. Works(r)'
  BY DEF TInv, RequestsTyped, Works, Goto, own
<1> QED BY <1>1, <1>2, <1>3 DEF Keeps

LEMMA BeginTyped ==
    ASSUME TInv, NEW r \in Request, NEW kind \in {"add", "set", "remove"},
           NEW u \in Member, NEW m \in Member, NEW codes \in SUBSET Role,
           Begin(r, kind, u, m, codes)
    PROVE  Keeps(r)
<1> DEFINE j == [kind |-> kind, actor |-> u, target |-> m, codes |-> codes, mine |-> RolesOf(u)]
<1>1. j \in Jobs
  BY DEF Jobs, RolesOf
<1> HIDE DEF j
<1>2. job' = [job EXCEPT ![r] = j] /\ pc[r] = "idle"
  BY DEF Begin, j
<1>3. pc' = [pc EXCEPT ![r] = IF kind = "add" THEN "add" ELSE "check"]
  BY DEF Begin, Goto
<1>4. TablesTyped'
  BY SameTables DEF Begin
<1>5. UNCHANGED <<todo, snap, del, ins>>
  BY DEF Begin
<1>6. RequestsTyped'
  BY <1>1, <1>2, <1>3, <1>5 DEF TInv, RequestsTyped, PC
<1>7. job'[r] = j /\ pc'[r] # "idle"
      /\ snap'[r] = {} /\ del'[r] = {} /\ ins'[r] = {}
  BY <1>2, <1>3, <1>5 DEF TInv, RequestsTyped, Works
<1>8. Works(r)'
  BY <1>1, <1>7 DEF Works
<1> QED BY <1>4, <1>6, <1>8 DEF Keeps

LEMMA DeleteTyped ==
    ASSUME TInv, NEW r \in Request, DeleteRoles(r) \/ DeletedRoles(r) PROVE Keeps(r)
<1>0. /\ pc[r] \in {"delete", "deleting"} /\ job[r] \in Jobs
      /\ snap[r] \cup del[r] \cup ins[r] \subseteq RowsOf(job[r].target)
      /\ job[r].codes \in SUBSET Role /\ job[r].target \in Member
  BY DEF TInv, Works, Jobs, DeleteRoles, DeletedRoles
<1>1. TablesTyped'
  BY SameTables DEF DeleteRoles, DeletedRoles
<1>2. CASE DeleteRoles(r)
  <2> DEFINE S == Visible(r) \cap RowsOf(job[r].target)
  <2>1. S \subseteq RowsOf(job[r].target) /\ S \in SUBSET Rows
    BY <1>0 DEF RowsOf, Rows
  <2> HIDE DEF S
  <2>2. snap' = [snap EXCEPT ![r] = S] /\ pc' = [pc EXCEPT ![r] = "deleting"]
        /\ UNCHANGED <<job, todo, del, ins>>
    BY <1>2 DEF DeleteRoles, Goto, S
  <2>3. RequestsTyped'
    BY <2>1, <2>2 DEF TInv, RequestsTyped, PC
  <2>4. Works(r)'
    BY <1>0, <2>1, <2>2 DEF TInv, RequestsTyped, Works
  <2> QED BY <1>1, <2>3, <2>4 DEF Keeps
<1>3. CASE DeletedRoles(r)
  <2>1. /\ del' = [del EXCEPT ![r] = snap[r] \cap held]
        /\ snap' = [snap EXCEPT ![r] = {}]
        /\ todo' = [todo EXCEPT ![r] = job[r].codes]
        /\ pc' = [pc EXCEPT ![r] = "insert"]
        /\ UNCHANGED <<job, ins>>
    BY <1>3 DEF DeletedRoles, Goto
  <2>2. RequestsTyped'
    BY <1>0, <2>1 DEF TInv, RequestsTyped, PC
  <2>3. Works(r)'
    BY <1>0, <2>1 DEF TInv, RequestsTyped, Works
  <2> QED BY <1>1, <2>2, <2>3 DEF Keeps
<1> QED BY <1>2, <1>3

LEMMA InsertTyped ==
    ASSUME TInv, NEW r \in Request, NEW c \in Role, InsertRole(r, c) PROVE Keeps(r)
<1>1. CASE Rollback(r)
  BY <1>1, RollbackTyped
<1>2. CASE ~Rollback(r)
  <2> DEFINE p == <<job[r].target, c>>
  <2>1. /\ pc[r] = "insert" /\ job[r] \in Jobs
        /\ snap[r] \cup del[r] \cup ins[r] \subseteq RowsOf(job[r].target)
    BY DEF TInv, Works, InsertRole
  <2>2. job[r].target \in Member /\ p \in RowsOf(job[r].target) /\ p \in Rows
    BY <2>1 DEF Jobs, RowsOf, Rows
  <2>3. /\ ins' = [ins EXCEPT ![r] = ins[r] \cup {p}]
        /\ todo' = [todo EXCEPT ![r] = todo[r] \ {c}]
        /\ UNCHANGED <<table, pc, job, snap, del, history>>
    BY <1>2 DEF InsertRole
  <2> HIDE DEF p
  <2>4. RequestsTyped'
    BY <2>2, <2>3 DEF TInv, RequestsTyped
  <2>5. Works(r)'
    BY <2>1, <2>2, <2>3 DEF TInv, RequestsTyped, Works
  <2> QED BY <2>3, <2>4, <2>5, SameTables DEF Keeps
<1> QED BY <1>1, <1>2

LEMMA DropTyped ==
    ASSUME TInv, NEW r \in Request, DropMembership(r) PROVE Keeps(r)
<1>1. CASE Rollback(r)
  BY <1>1, RollbackTyped
<1>2. CASE ~Rollback(r)
  <2>1. /\ pc[r] = "drop" /\ job[r] \in Jobs
        /\ snap[r] \cup del[r] \cup ins[r] \subseteq RowsOf(job[r].target)
    BY DEF TInv, Works, DropMembership
  <2> DEFINE D == held \cap RowsOf(job[r].target)
  <2>2. D \subseteq RowsOf(job[r].target) /\ D \in SUBSET Rows
    BY DEF TInv, TablesTyped
  <2>3. /\ del' = [del EXCEPT ![r] = D] /\ pc' = [pc EXCEPT ![r] = "admin"]
        /\ UNCHANGED <<table, job, todo, snap, ins, history>>
    BY <1>2 DEF DropMembership, Goto
  <2> HIDE DEF D
  <2>4. RequestsTyped'
    BY <2>2, <2>3 DEF TInv, RequestsTyped, PC
  <2>5. Works(r)'
    BY <2>1, <2>2, <2>3 DEF TInv, RequestsTyped, Works
  <2> QED BY <2>3, <2>4, <2>5, SameTables DEF Keeps
<1> QED BY <1>1, <1>2

LEMMA CommitTyped == ASSUME TInv, NEW r \in Request, Commit(r) PROVE Keeps(r)
<1>1. pc[r] = "commit" /\ job[r] \in Jobs
  BY DEF TInv, Works, Commit
<1>2. job[r].kind \in {"add", "set", "remove"} /\ job[r].target \in Member
      /\ job[r].codes \in SUBSET Role
  BY <1>1 DEF Jobs
<1>3. held' \subseteq Rows
  BY DEF Commit, Visible, TInv, TablesTyped, RequestsTyped
<1>4. members' \in [Member -> {"never", "in", "gone"}]
  <2>1. CASE job[r].kind = "add"
    BY <1>2, <2>1 DEF Commit, TInv, TablesTyped
  <2>2. CASE job[r].kind = "set"
    BY <1>2, <2>2 DEF Commit, TInv, TablesTyped
  <2>3. CASE job[r].kind = "remove"
    BY <1>2, <2>3 DEF Commit, TInv, TablesTyped
  <2> QED BY <1>2, <2>1, <2>2, <2>3
<1>5. TablesTyped'
  BY <1>3, <1>4 DEF TablesTyped
<1> QED BY <1>5, ForgetTyped DEF Commit, Keeps

LEMMA HandleTyped == ASSUME TInv, NEW r \in Request, Handle(r) PROVE TInv'
<1>1. Keeps(r)
  <2>1. ASSUME NEW u \in Member, NEW m \in Member, NEW codes \in Asks,
               \/ Begin(r, "add", u, m, IF codes = {} THEN {"user"} ELSE codes)
               \/ Begin(r, "set", u, m, codes)
        PROVE  Keeps(r)
    <3>1. codes \in SUBSET Role /\ (IF codes = {} THEN {"user"} ELSE codes) \in SUBSET Role
      BY AsksAreRoles, RoleSets
    <3> QED BY <2>1, <3>1, BeginTyped
  <2>2. ASSUME NEW u \in Member, NEW m \in Member, Begin(r, "remove", u, m, {})
        PROVE  Keeps(r)
    BY <2>2, BeginTyped
  <2>3. CASE InsertMembership(r) \/ CheckExisting(r) \/ InsertedRoles(r) \/ HasAdmin(r)
    <3>1. CASE Rollback(r)
      BY <3>1, RollbackTyped
    <3>2. CASE ~Rollback(r)
      <4>1. PICK l \in PC \ {"idle"} : Goto(r, l) /\ UNCHANGED <<table, own, history>>
        BY <2>3, <3>2 DEF InsertMembership, CheckExisting, InsertedRoles, HasAdmin, PC
      <4>2. pc[r] # "idle"
        BY <2>3 DEF InsertMembership, CheckExisting, InsertedRoles, HasAdmin
      <4> QED BY <4>1, <4>2, GotoTyped
    <3> QED BY <3>1, <3>2
  <2>4. CASE Abort(r)
    BY <2>4, RollbackTyped DEF Abort
  <2> QED
    BY <2>1, <2>2, <2>3, <2>4, DeleteTyped, InsertTyped, DropTyped, CommitTyped DEF Handle
<1>2. ASSUME NEW x \in Request \ {r} PROVE Works(x)'
  BY <1>2, HandleOwn DEF TInv, Works, OwnStep
<1> QED BY <1>1, <1>2 DEF Keeps, TInv

LEMMA InitTyped == Init => TInv
<1> SUFFICES ASSUME Init PROVE TInv
  OBVIOUS
<1>1. TablesTyped
  <2>1. held \subseteq Rows
    BY FounderIsMember DEF Init, Rows, Role
  <2>2. members \in [Member -> {"never", "in", "gone"}]
    BY DEF Init
  <2> QED BY <2>1, <2>2 DEF TablesTyped
<1>2. RequestsTyped
  BY DEF Init, RequestsTyped, PC
<1> QED BY <1>1, <1>2 DEF Init, TInv, Works

LEMMA StepTyped == TInv /\ [Next]_vars => TInv'
<1>1. ASSUME TInv, UNCHANGED vars PROVE TInv'
  BY <1>1 DEF vars, table, own, history, TInv, TablesTyped, RequestsTyped, Works
<1> QED BY <1>1, HandleTyped DEF Next

-----------------------------------------------------------------------------
(* Who has met whom.                                                       *)

Along(r) == pc[r] # "idle" /\ pc'[r] # "idle" /\ UNCHANGED <<job, history>>

Begins(r) ==
    \E kind \in {"add", "set", "remove"}, u, m \in Member, codes \in SUBSET Role :
        Begin(r, kind, u, m, codes) /\ (kind = "remove" => codes = {})

\* A step begins a request, ends it, or leaves what it is about as it is.
LEMMA HandleKind ==
    ASSUME TInv, NEW r \in Request, Handle(r) PROVE Begins(r) \/ End(r) \/ Along(r)
<1>1. ASSUME NEW u \in Member, NEW m \in Member, NEW codes \in Asks,
             \/ Begin(r, "add", u, m, IF codes = {} THEN {"user"} ELSE codes)
             \/ Begin(r, "set", u, m, codes)
      PROVE  Begins(r)
  <2>1. codes \in SUBSET Role /\ (IF codes = {} THEN {"user"} ELSE codes) \in SUBSET Role
    BY AsksAreRoles, RoleSets
  <2> QED BY <1>1, <2>1 DEF Begins
<1>2. ASSUME NEW u \in Member, NEW m \in Member, Begin(r, "remove", u, m, {})
      PROVE  Begins(r)
  BY <1>2 DEF Begins
<1>3. CASE InsertMembership(r) \/ CheckExisting(r) \/ DeleteRoles(r) \/ DeletedRoles(r)
           \/ InsertedRoles(r) \/ DropMembership(r) \/ HasAdmin(r)
  BY <1>3
  DEF InsertMembership, CheckExisting, DeleteRoles, DeletedRoles, InsertedRoles, DropMembership,
      HasAdmin, Rollback, Goto, Along, own, TInv, RequestsTyped
<1>4. ASSUME NEW c \in Role, InsertRole(r, c) PROVE End(r) \/ Along(r)
  BY <1>4 DEF InsertRole, Rollback, Along
<1>5. CASE Commit(r) \/ Abort(r)
  BY <1>5 DEF Commit, Abort, Rollback
<1> QED BY <1>1, <1>2, <1>3, <1>4, <1>5 DEF Handle

\* Two changes that are open at once have met.
Meet ==
    \A r, x \in Changes :
        r # x => r \in met /\ (job[r].target = job[x].target => r \in clash)

HInv ==
    /\ clash \subseteq met
    /\ met \subseteq {r \in Request : pc[r] # "idle"}
    /\ Meet
    /\ \A r \in Request : pc[r] # "idle" /\ job[r].kind = "remove" => job[r].codes = {}

LEMMA BeginsHistory ==
    ASSUME TInv, HInv, NEW r \in Request, Handle(r), Begins(r) PROVE HInv'
<1>1. PICK kind \in {"add", "set", "remove"}, u \in Member, m \in Member, codes \in SUBSET Role :
          Begin(r, kind, u, m, codes) /\ (kind = "remove" => codes = {})
  BY DEF Begins
<1>2. /\ pc[r] = "idle" /\ pc'[r] # "idle"
      /\ job'[r].kind = kind /\ job'[r].target = m /\ job'[r].codes = codes
  BY <1>1 DEF Begin, Goto, TInv, RequestsTyped
<1>3. OwnStep(r) /\ r \notin Changes /\ Changes \subseteq Request
  BY <1>2, HandleOwn DEF Changes, Open
<1>4. /\ met' = IF kind = "add" THEN met ELSE met \cup Meeting(r, Changes)
      /\ clash' = IF kind = "add" THEN clash ELSE clash \cup Meeting(r, ChangesOf(m))
  BY <1>1 DEF Begin, history
<1>5. Changes' = IF kind = "add" THEN Changes ELSE Changes \cup {r}
  BY <1>2, <1>3 DEF OwnStep, Changes, Open
<1>6. Meeting(r, ChangesOf(m)) \subseteq Meeting(r, Changes)
      /\ Meeting(r, Changes) \subseteq Changes \cup {r}
  BY DEF Meeting, ChangesOf
<1>7. clash' \subseteq met'
  BY <1>4, <1>6 DEF HInv
<1>8. met' \subseteq {x \in Request : pc'[x] # "idle"}
  <2>1. ASSUME NEW x \in met' PROVE x \in Request /\ pc'[x] # "idle"
    <3>1. x \in met \/ x \in Changes \/ x = r
      BY <1>4, <1>6
    <3> QED BY <1>2, <1>3, <3>1 DEF HInv, Changes, Open, OwnStep
  <2> QED BY <2>1
<1>9. Meet'
  <2> SUFFICES ASSUME NEW x \in Changes', NEW y \in Changes', x # y
               PROVE  x \in met' /\ (job'[x].target = job'[y].target => x \in clash')
    BY DEF Meet
  <2>1. CASE x # r /\ y # r
    <3>1. x \in Changes /\ y \in Changes
      BY <1>5, <2>1
    <3>2. x \in met /\ (job[x].target = job[y].target => x \in clash)
      BY <3>1 DEF HInv, Meet
    <3> QED BY <1>3, <1>4, <2>1, <3>1, <3>2 DEF OwnStep
  <2>2. CASE x = r \/ y = r
    <3>0. kind # "add" /\ Changes' = Changes \cup {r}
      BY <1>3, <1>5, <2>2
    <3>1. PICK z \in Changes : ((x = r /\ y = z) \/ (x = z /\ y = r)) /\ z # r
      <4>1. CASE x = r
        BY <1>3, <3>0, <4>1
      <4>2. CASE y = r
        BY <1>3, <3>0, <4>2
      <4> QED BY <2>2, <4>1, <4>2
    <3>2. met' = met \cup Changes \cup {r}
      BY <1>4, <3>0, <3>1 DEF Meeting
    <3>3. job'[z] = job[z] /\ job'[r].target = m
      BY <1>2, <1>3, <3>1 DEF OwnStep
    <3>4. job[z].target = m => {r, z} \subseteq clash'
      BY <1>4, <3>0, <3>1 DEF Meeting, ChangesOf
    <3> QED BY <3>1, <3>2, <3>3, <3>4
  <2> QED BY <2>1, <2>2
<1>10. \A x \in Request : pc'[x] # "idle" /\ job'[x].kind = "remove" => job'[x].codes = {}
  BY <1>1, <1>2, <1>3 DEF HInv, OwnStep
<1> QED BY <1>7, <1>8, <1>9, <1>10 DEF HInv

LEMMA EndHistory ==
    ASSUME TInv, HInv, NEW r \in Request, Handle(r), End(r) PROVE HInv'
<1>1. OwnStep(r) /\ pc'[r] = "idle"
  BY HandleOwn, EndTyped
<1>2. met' = met \ {r} /\ clash' = clash \ {r}
  BY DEF End
<1>3. Changes' = Changes \ {r}
  BY <1>1 DEF OwnStep, Changes, Open
<1>4. Meet'
  <2> SUFFICES ASSUME NEW x \in Changes \ {r}, NEW y \in Changes \ {r}, x # y
               PROVE  x \in met' /\ (job'[x].target = job'[y].target => x \in clash')
    BY <1>3 DEF Meet
  <2>1. x \in Request \ {r} /\ y \in Request \ {r}
    BY DEF Changes
  <2>2. x \in met /\ (job[x].target = job[y].target => x \in clash)
    BY DEF HInv, Meet
  <2> QED BY <1>1, <1>2, <2>1, <2>2 DEF OwnStep
<1>5. clash' \subseteq met' /\ met' \subseteq {x \in Request : pc'[x] # "idle"}
  BY <1>1, <1>2 DEF HInv, OwnStep
<1>6. \A x \in Request : pc'[x] # "idle" /\ job'[x].kind = "remove" => job'[x].codes = {}
  BY <1>1 DEF HInv, OwnStep
<1> QED BY <1>4, <1>5, <1>6 DEF HInv

LEMMA AlongHistory ==
    ASSUME TInv, HInv, NEW r \in Request, Handle(r), Along(r) PROVE HInv'
<1>1. OwnStep(r) /\ UNCHANGED <<job, met, clash>>
  BY HandleOwn DEF Along, history
<1>2. \A x \in Request : pc'[x] = "idle" <=> pc[x] = "idle"
  BY <1>1 DEF Along, OwnStep
<1>3. Changes' = Changes
  BY <1>1, <1>2 DEF Changes, Open
<1> QED BY <1>1, <1>2, <1>3 DEF HInv, Meet

LEMMA StepHistory == TInv /\ HInv /\ [Next]_vars => HInv'
<1>1. ASSUME HInv, UNCHANGED vars PROVE HInv'
  BY <1>1 DEF vars, own, history, HInv, Meet, Changes, Open
<1> QED BY <1>1, HandleKind, BeginsHistory, EndHistory, AlongHistory DEF Next

LEMMA InitHistory == Init => HInv
BY DEF Init, HInv, Meet, Changes, Open

\* Every variable has its type; what a transaction has read, deleted and
\* inserted are rows of its target; and who has met another one is open.
THEOREM TypeCorrect == Spec => []TypeOK
<1>1. TInv /\ HInv => TypeOK
  BY DEF TInv, TablesTyped, RequestsTyped, Works, HInv, TypeOK, Rows
<1> QED BY InitTyped, StepTyped, InitHistory, StepHistory, <1>1, PTL DEF Spec

-----------------------------------------------------------------------------
(* What a request has done so far, and what it keeps others from.          *)

\* The statements of each kind of request.
Route(r) ==
    pc[r] # "idle" =>
        \/ job[r].kind = "add" /\ pc[r] \in {"add", "delete", "deleting", "insert", "commit"}
        \/ job[r].kind = "set"
           /\ pc[r] \in {"check", "delete", "deleting", "insert", "admin", "commit"}
        \/ job[r].kind = "remove" /\ pc[r] \in {"check", "drop", "admin", "commit"}

\* Nothing is inserted by a removal, nor what the actor may not give.
Entitled(r) ==
    \A m \in Member, c \in Role :
        <<m, c>> \in ins[r] => /\ job[r].kind # "remove"
                               /\ m = job[r].target
                               /\ Within(c, job[r].mine)

\* The membership was found, or found missing, and a role that was inserted
\* keeps it from being dropped.
Found(r) ==
    /\ pc[r] \notin {"idle", "add", "check"}
         => (job[r].kind = "add" <=> members[job[r].target] = "never")
    /\ ins[r] # {} /\ job[r].kind = "set" => members[job[r].target] = "in"

\* A removal deletes all roles of the member.
Covers(r) ==
    \A m \in Member, c \in Role :
        Dropping(r, m) /\ <<m, c>> \in held => <<m, c>> \in del[r]

Done(r) == Route(r) /\ Entitled(r) /\ Found(r) /\ Covers(r)

\* One transaction adds a member at a time; nobody inserts a role of a member
\* whom another transaction drops.
Apart(r, x) ==
    \A m \in Member :
        /\ ~(Adding(r, m) /\ Adding(x, m))
        /\ \A c \in Role : ~(<<m, c>> \in ins[r] /\ Dropping(x, m))

MInv ==
    /\ \A r \in Request : Done(r)
    /\ \A r, x \in Request : r # x => Apart(r, x)
    /\ RolesOfMembers

\* A step that changes no table keeps what is true of the other requests.
LEMMA OtherDone ==
    ASSUME TInv, MInv, NEW r \in Request, Handle(r), UNCHANGED table,
           NEW x \in Request \ {r}
    PROVE  Done(x)'
<1>1. Done(x) /\ OwnStep(r)
  BY HandleOwn DEF MInv
<1> QED
  BY <1>1 DEF OwnStep, Done, Route, Entitled, Found, Covers, Dropping, Within, table

LEMMA SameMembers == ASSUME MInv, UNCHANGED table PROVE RolesOfMembers'
BY DEF MInv, RolesOfMembers, RolesOf, table

LEMMA EndGood ==
    ASSUME TInv, MInv, NEW r \in Request, Rollback(r) PROVE MInv'
<1>1. pc'[r] = "idle" /\ ins'[r] = {} /\ UNCHANGED table /\ job'[r] = None
  BY EndTyped DEF Rollback
<1>2. Done(r)'
  BY <1>1 DEF Done, Route, Entitled, Found, Covers, Dropping
<1>3. OwnStep(r)
  BY RollbackOwn
<1>4. ASSUME NEW x \in Request \ {r} PROVE Done(x)'
  BY <1>1, <1>3 DEF MInv, OwnStep, Done, Route, Entitled, Found, Covers, Dropping, Within, table
<1>5. ASSUME NEW x \in Request, NEW y \in Request, x # y PROVE Apart(x, y)'
  <2>1. Apart(x, y)
    BY <1>5 DEF MInv
  <2> QED BY <1>1, <1>3, <1>5, <2>1 DEF OwnStep, Apart, Adding, Dropping
<1> QED BY <1>1, <1>2, <1>4, <1>5, SameMembers DEF MInv

\* A statement that neither inserts a role nor begins to add or to drop.
LEMMA QuietStep ==
    ASSUME TInv, MInv, NEW r \in Request, Handle(r), UNCHANGED table,
           ins'[r] \subseteq ins[r],
           \A m \in Member : Adding(r, m)' => Adding(r, m),
           \A m \in Member : Dropping(r, m)' => Dropping(r, m),
           Done(r)'
    PROVE  MInv'
<1>1. OwnStep(r)
  BY HandleOwn
<1>2. ASSUME NEW x \in Request, NEW y \in Request, x # y PROVE Apart(x, y)'
  <2>1. Apart(x, y)
    BY <1>2 DEF MInv
  <2> QED BY <1>1, <1>2, <2>1 DEF OwnStep, Apart, Adding, Dropping
<1> QED BY <1>2, OtherDone, SameMembers DEF MInv

LEMMA BeginGood ==
    ASSUME TInv, MInv, NEW r \in Request, Handle(r), NEW kind \in {"add", "set", "remove"},
           NEW u \in Member, NEW m \in Member, NEW codes, Begin(r, kind, u, m, codes)
    PROVE  MInv'
<1>1. /\ pc'[r] = (IF kind = "add" THEN "add" ELSE "check") /\ job'[r].kind = kind
      /\ ins'[r] = {} /\ UNCHANGED table
  BY DEF Begin, Goto, TInv, RequestsTyped, Works
<1>2. Done(r)'
  BY <1>1 DEF Done, Route, Entitled, Found, Covers, Dropping
<1> QED BY <1>1, <1>2, QuietStep DEF Adding, Dropping

LEMMA InsertMembershipGood ==
    ASSUME TInv, MInv, NEW r \in Request, Handle(r), InsertMembership(r) PROVE MInv'
<1>1. CASE Rollback(r)
  BY <1>1, EndGood
<1>2. CASE ~Rollback(r)
  <2>1. /\ pc[r] = "add" /\ pc'[r] = "delete" /\ members[job[r].target] = "never"
        /\ UNCHANGED <<table, own>>
    BY <1>2 DEF InsertMembership, Goto, TInv, TablesTyped, RequestsTyped, Works, Jobs
  <2>2. \A x \in Request \ {r} : ~Adding(x, job[r].target)
    BY DEF InsertMembership, Others, Open, Adding
  <2>3. OwnStep(r) /\ Done(r) /\ job[r].kind = "add"
    BY <2>1, HandleOwn DEF MInv, Done, Route
  <2>4. Done(r)'
    BY <2>1, <2>3 DEF own, table, Done, Route, Entitled, Found, Covers, Dropping, Within
  <2>5. ASSUME NEW x \in Request, NEW y \in Request, x # y PROVE Apart(x, y)'
    <3>1. Apart(x, y)
      BY <2>5 DEF MInv
    <3> QED BY <2>1, <2>2, <2>3, <2>5, <3>1 DEF own, OwnStep, Apart, Adding, Dropping
  <2> QED BY <2>1, <2>4, <2>5, OtherDone, SameMembers DEF MInv
<1> QED BY <1>1, <1>2

LEMMA CheckGood ==
    ASSUME TInv, MInv, NEW r \in Request, Handle(r), CheckExisting(r) PROVE MInv'
<1>1. CASE Rollback(r)
  BY <1>1, EndGood
<1>2. CASE ~Rollback(r)
  <2>1. /\ pc[r] = "check" /\ members[job[r].target] = "in"
        /\ pc'[r] = (IF job[r].kind = "remove" THEN "drop" ELSE "delete")
        /\ UNCHANGED <<table, own>>
    BY <1>2 DEF CheckExisting, Goto, TInv, RequestsTyped
  <2>2. Done(r) /\ job[r].kind \in {"set", "remove"}
    BY <2>1 DEF MInv, Done, Route
  <2>3. Done(r)'
    BY <2>1, <2>2 DEF own, table, Done, Route, Entitled, Found, Covers, Dropping, Within
  <2> QED BY <2>1, <2>2, <2>3, QuietStep DEF own, Adding, Dropping
<1> QED BY <1>1, <1>2

LEMMA DeleteGood ==
    ASSUME TInv, MInv, NEW r \in Request, Handle(r), DeleteRoles(r) \/ DeletedRoles(r)
    PROVE  MInv'
<1>1. /\ pc[r] \in {"delete", "deleting"} /\ pc'[r] \in {"deleting", "insert"}
      /\ UNCHANGED <<table, job, ins>>
  BY DEF DeleteRoles, DeletedRoles, Goto, TInv, RequestsTyped
<1>2. Done(r) /\ job[r].kind \in {"add", "set"}
  BY <1>1 DEF MInv, Done, Route
<1>3. Done(r)'
  BY <1>1, <1>2 DEF table, Done, Route, Entitled, Found, Covers, Dropping, Within
<1> QED BY <1>1, <1>2, <1>3, QuietStep DEF Adding, Dropping

LEMMA InsertedGood ==
    ASSUME TInv, MInv, NEW r \in Request, Handle(r), InsertedRoles(r) PROVE MInv'
<1>1. /\ pc[r] = "insert" /\ pc'[r] = (IF job[r].kind = "set" THEN "admin" ELSE "commit")
      /\ UNCHANGED <<table, own>>
  BY DEF InsertedRoles, Goto, TInv, RequestsTyped
<1>2. Done(r) /\ job[r].kind \in {"add", "set"}
  BY <1>1 DEF MInv, Done, Route
<1>3. Done(r)'
  BY <1>1, <1>2 DEF own, table, Done, Route, Entitled, Found, Covers, Dropping, Within
<1> QED BY <1>1, <1>2, <1>3, QuietStep DEF own, Adding, Dropping

LEMMA HasAdminGood ==
    ASSUME TInv, MInv, NEW r \in Request, Handle(r), HasAdmin(r) PROVE MInv'
<1>1. CASE Rollback(r)
  BY <1>1, EndGood
<1>2. CASE ~Rollback(r)
  <2>1. pc[r] = "admin" /\ pc'[r] = "commit" /\ UNCHANGED <<table, own>>
    BY <1>2 DEF HasAdmin, Goto, TInv, RequestsTyped
  <2>2. Done(r) /\ job[r].kind \in {"set", "remove"}
    BY <2>1 DEF MInv, Done, Route
  <2>3. Done(r)'
    BY <2>1, <2>2 DEF own, table, Done, Route, Entitled, Found, Covers, Dropping, Within
  <2> QED BY <2>1, <2>2, <2>3, QuietStep DEF own, Adding, Dropping
<1> QED BY <1>1, <1>2

LEMMA InsertGood ==
    ASSUME TInv, MInv, NEW r \in Request, Handle(r), NEW c \in Role, InsertRole(r, c)
    PROVE  MInv'
<1>1. CASE Rollback(r)
  BY <1>1, EndGood
<1>2. CASE ~Rollback(r)
  <2> DEFINE t == job[r].target
  <2>1. /\ pc[r] = "insert" /\ t \in Member
        /\ ins'[r] = ins[r] \cup {<<t, c>>}
        /\ Within(c, job[r].mine)
        /\ members[t] = "in" \/ job[r].kind = "add"
        /\ UNCHANGED <<table, pc, job, snap, del>>
    BY <1>2 DEF InsertRole, TInv, RequestsTyped, Works, Jobs
  <2>2. \A x \in Request \ {r} : ~Dropping(x, t)
    BY DEF InsertRole, Others, Open, Dropping
  <2>3. OwnStep(r) /\ Done(r) /\ job[r].kind \in {"add", "set"}
    BY <2>1, HandleOwn DEF MInv, Done, Route
  <2>4. Entitled(r)'
    <3> SUFFICES ASSUME NEW m \in Member, NEW d \in Role, <<m, d>> \in ins'[r]
                 PROVE  /\ job[r].kind # "remove" /\ m = t
                        /\ Within(d, job[r].mine)
      BY <2>1 DEF Entitled, Within
    <3>1. CASE <<m, d>> \in ins[r]
      BY <2>3, <3>1 DEF Done, Entitled
    <3>2. CASE <<m, d>> = <<t, c>>
      BY <2>1, <2>3, <3>2
    <3> QED BY <2>1, <3>1, <3>2
  <2>5. Done(r)'
    BY <2>1, <2>3, <2>4 DEF table, Done, Route, Found, Covers, Dropping
  <2>6. ASSUME NEW x \in Request, NEW y \in Request, x # y PROVE Apart(x, y)'
    <3>1. Apart(x, y)
      BY <2>6 DEF MInv
    <3>2. CASE x = r
      BY <2>1, <2>2, <2>3, <2>6, <3>1, <3>2 DEF OwnStep, Apart, Adding, Dropping
    <3>3. CASE x # r
      BY <2>1, <2>3, <2>6, <3>1, <3>3 DEF OwnStep, Apart, Adding, Dropping
    <3> QED BY <3>2, <3>3
  <2> QED BY <2>1, <2>5, <2>6, OtherDone, SameMembers DEF MInv
<1> QED BY <1>1, <1>2

LEMMA DropGood ==
    ASSUME TInv, MInv, NEW r \in Request, Handle(r), DropMembership(r) PROVE MInv'
<1>1. CASE Rollback(r)
  BY <1>1, EndGood
<1>2. CASE ~Rollback(r)
  <2> DEFINE t == job[r].target
  <2>1. /\ pc[r] = "drop" /\ pc'[r] = "admin" /\ t \in Member
        /\ del'[r] = held \cap RowsOf(t)
        /\ UNCHANGED <<table, job, ins>>
    BY <1>2 DEF DropMembership, Goto, TInv, RequestsTyped, Works, Jobs
  <2>2. OwnStep(r) /\ Done(r) /\ job[r].kind = "remove"
    BY <2>1, HandleOwn DEF MInv, Done, Route
  <2>3. \A x \in Request \ {r} : \A c \in Role : <<t, c>> \notin ins[x]
    BY DEF DropMembership, Others, Open, RowsOf, TInv, Works
  <2>4. Done(r)'
    BY <2>1, <2>2 DEF table, Done, Route, Entitled, Found, Covers, Dropping, Within, RowsOf
  <2>5. ASSUME NEW x \in Request, NEW y \in Request, x # y PROVE Apart(x, y)'
    <3>1. Apart(x, y)
      BY <2>5 DEF MInv
    <3>2. CASE y = r
      BY <2>1, <2>2, <2>3, <2>5, <3>1, <3>2 DEF OwnStep, Apart, Adding, Dropping
    <3>3. CASE y # r
      BY <2>1, <2>2, <2>5, <3>1, <3>3 DEF OwnStep, Apart, Adding, Dropping
    <3> QED BY <3>2, <3>3
  <2> QED BY <2>1, <2>4, <2>5, OtherDone, SameMembers DEF MInv
<1> QED BY <1>1, <1>2

\* What a commit does to the tables.
LEMMA CommitEffect ==
    ASSUME TInv, MInv, NEW r \in Request, Commit(r)
    PROVE  /\ job[r].target \in Member /\ job[r].codes \in SUBSET Role
           /\ pc[r] = "commit" /\ job[r] \in Jobs
           /\ pc'[r] = "idle" /\ job'[r] = None /\ ins'[r] = {}
           /\ held' = (held \ del[r]) \cup ins[r]
           /\ \A m \in Member \ {job[r].target} : members'[m] = members[m]
           /\ job[r].kind = "add" => members'[job[r].target] = "in"
                                     /\ members[job[r].target] = "never"
           /\ job[r].kind = "set" => members'[job[r].target] = members[job[r].target]
           /\ job[r].kind = "remove" => members'[job[r].target] = "gone"
           /\ job[r].kind # "add" => members[job[r].target] # "never"
           /\ job[r].kind \in {"add", "set", "remove"}
<1>1. /\ job[r].target \in Member /\ job[r].codes \in SUBSET Role
      /\ job[r].kind \in {"add", "set", "remove"}
      /\ pc[r] = "commit" /\ job[r] \in Jobs
  BY DEF Commit, TInv, Works, Jobs
<1>2. pc'[r] = "idle" /\ job'[r] = None /\ ins'[r] = {}
  BY EndTyped DEF Commit
<1>3. held' = (held \ del[r]) \cup ins[r]
  BY DEF Commit, Visible
<1>4. Found(r)
  BY DEF MInv, Done
<1>5. members' = [members EXCEPT ![job[r].target] =
                    CASE job[r].kind = "add" -> "in"
                      [] job[r].kind = "set" -> members[job[r].target]
                      [] job[r].kind = "remove" -> "gone"]
  BY DEF Commit
<1>6. \A m \in Member \ {job[r].target} : members'[m] = members[m]
  BY <1>1, <1>5 DEF TInv, TablesTyped
<1>7. job[r].kind = "add" => members'[job[r].target] = "in"
  BY <1>1, <1>5 DEF TInv, TablesTyped
<1>8. job[r].kind = "set" => members'[job[r].target] = members[job[r].target]
  BY <1>1, <1>5 DEF TInv, TablesTyped
<1>9. job[r].kind = "remove" => members'[job[r].target] = "gone"
  BY <1>1, <1>5 DEF TInv, TablesTyped
<1> QED BY <1>1, <1>2, <1>3, <1>4, <1>6, <1>7, <1>8, <1>9 DEF Found

LEMMA CommitGood ==
    ASSUME TInv, MInv, NEW r \in Request, Handle(r), Commit(r) PROVE MInv'
<1> DEFINE t == job[r].target
<1>1. OwnStep(r) /\ Done(r)
  BY HandleOwn DEF MInv
<1>2. Done(r)'
  BY CommitEffect DEF Done, Route, Entitled, Found, Covers, Dropping
<1>3. ASSUME NEW x \in Request \ {r} PROVE Done(x)'
  <2>1. Done(x) /\ Apart(x, r) /\ Apart(r, x)
    BY <1>3 DEF MInv
  <2>2. Route(x)' /\ Entitled(x)'
    BY <1>1, <2>1 DEF OwnStep, Done, Route, Entitled, Within
  <2>3. Covers(x)'
    <3> SUFFICES ASSUME NEW m \in Member, NEW c \in Role, Dropping(x, m)', <<m, c>> \in held'
                 PROVE  <<m, c>> \in del'[x]
      BY DEF Covers
    <3>1. Dropping(x, m)
      BY <1>1 DEF OwnStep, Dropping
    <3>2. <<m, c>> \notin ins[r]
      BY <2>1, <3>1 DEF Apart
    <3>3. <<m, c>> \in held
      BY <3>2, CommitEffect
    <3> QED BY <1>1, <2>1, <3>1, <3>3 DEF OwnStep, Done, Covers
  <2>4. Found(x)'
    <3> SUFFICES ASSUME pc[x] # "idle" PROVE Found(x)'
      BY <1>1, <1>3 DEF OwnStep, Found, TInv, Works
    <3> DEFINE y == job[x].target
    <3>1. y \in Member /\ job'[x] = job[x] /\ pc'[x] = pc[x] /\ ins'[x] = ins[x]
      BY <1>1 DEF OwnStep, TInv, Works, Jobs
    <3>2. pc'[x] \notin {"idle", "add", "check"}
            => (job'[x].kind = "add" <=> members'[y] = "never")
      <4> SUFFICES ASSUME pc[x] \notin {"idle", "add", "check"}
                   PROVE  job[x].kind = "add" <=> members'[y] = "never"
        BY <3>1
      <4>1. job[x].kind = "add" <=> members[y] = "never"
        BY <2>1 DEF Done, Found
      <4>2. CASE y # t
        BY <3>1, <4>1, <4>2, CommitEffect
      <4>3. CASE y = t /\ job[r].kind = "add"
        <5>1. members[y] = "never" /\ job[x].kind = "add"
          BY <4>1, <4>3, CommitEffect
        <5>2. Adding(x, y) /\ Adding(r, y)
          BY <2>1, <4>3, <5>1, CommitEffect DEF Adding, Done, Route
        <5> QED BY <2>1, <3>1, <5>2 DEF Apart
      <4>4. CASE y = t /\ job[r].kind # "add"
        BY <4>1, <4>4, CommitEffect
      <4> QED BY <4>2, <4>3, <4>4
    <3>3. ins'[x] # {} /\ job'[x].kind = "set" => members'[y] = "in"
      <4> SUFFICES ASSUME ins[x] # {}, job[x].kind = "set" PROVE members'[y] = "in"
        BY <3>1
      <4>1. members[y] = "in"
        BY <2>1 DEF Done, Found
      <4>2. PICK p \in ins[x] : TRUE
        OBVIOUS
      <4>3. PICK c \in Role : <<y, c>> \in ins[x]
        BY <4>2 DEF TInv, Works, RowsOf
      <4>4. ~Dropping(r, y)
        BY <2>1, <3>1, <4>3 DEF Apart
      <4>5. y = t => job[r].kind # "remove"
        BY <4>4, CommitEffect DEF Dropping
      <4> QED BY <3>1, <4>1, <4>5, CommitEffect
    <3> QED BY <3>1, <3>2, <3>3 DEF Found
  <2> QED BY <2>2, <2>3, <2>4 DEF Done
<1>4. ASSUME NEW x \in Request, NEW y \in Request, x # y PROVE Apart(x, y)'
  <2>1. Apart(x, y)
    BY <1>4 DEF MInv
  <2> QED BY <1>1, <1>4, <2>1, CommitEffect DEF OwnStep, Apart, Adding, Dropping
<1>5. RolesOfMembers'
  <2> SUFFICES ASSUME NEW m \in Member, NEW c \in Role, <<m, c>> \in held'
               PROVE  members'[m] = "in"
    BY DEF RolesOfMembers, RolesOf
  <2>1. CASE <<m, c>> \in ins[r]
    <3>1. m = t /\ job[r].kind # "remove"
      BY <1>1, <2>1 DEF Done, Entitled
    <3> QED BY <1>1, <2>1, <3>1, CommitEffect DEF Done, Found
  <2>2. CASE <<m, c>> \in held \ del[r]
    <3>1. members[m] = "in"
      BY <2>2 DEF MInv, RolesOfMembers, RolesOf
    <3>2. ~(m = t /\ job[r].kind = "remove")
      BY <1>1, <2>2, CommitEffect DEF Done, Covers, Dropping
    <3> QED BY <3>1, <3>2, CommitEffect
  <2> QED BY <2>1, <2>2, CommitEffect
<1> QED BY <1>2, <1>3, <1>4, <1>5 DEF MInv

LEMMA HandleGood == ASSUME TInv, MInv, NEW r \in Request, Handle(r) PROVE MInv'
BY BeginGood, InsertMembershipGood, CheckGood, DeleteGood, InsertGood, InsertedGood, DropGood,
   HasAdminGood, CommitGood, EndGood DEF Handle, Abort

LEMMA InitGood == Init => MInv
<1> SUFFICES ASSUME Init PROVE MInv
  OBVIOUS
<1>1. \A r \in Request : Done(r)
  BY DEF Init, Done, Route, Entitled, Found, Covers, Dropping
<1>2. \A r, x \in Request : Apart(r, x)
  BY DEF Init, Apart, Adding, Dropping
<1>3. RolesOfMembers
  BY FounderIsMember DEF Init, RolesOfMembers, RolesOf
<1> QED BY <1>1, <1>2, <1>3 DEF MInv

LEMMA StepGood == TInv /\ MInv /\ [Next]_vars => MInv'
<1>1. ASSUME TInv, MInv, UNCHANGED vars PROVE MInv'
  BY <1>1
  DEF vars, table, own, history, MInv, Done, Route, Entitled, Found, Covers, Apart, Adding,
      Dropping, Within, RolesOfMembers, RolesOf
<1> QED BY <1>1, HandleGood DEF Next

\* Every row of membership_roles belongs to a member, whatever overlaps.
THEOREM RolesHaveMembers == Spec => []RolesOfMembers
<1>1. MInv => RolesOfMembers
  BY DEF MInv
<1> QED BY InitTyped, StepTyped, InitGood, StepGood, <1>1, PTL DEF Spec

\* Only a commit changes the roles, and it changes those of its target.
LEMMA HeldByCommit ==
    ASSUME TInv, NEW r \in Request, Handle(r) PROVE UNCHANGED table \/ Commit(r)
BY DEF Handle, Begin, InsertMembership, CheckExisting, DeleteRoles, DeletedRoles, InsertRole,
       InsertedRoles, DropMembership, HasAdmin, Abort, Rollback, table

\* No member gains a role beyond what the actor of the request that gives it held.
THEOREM NobodyRises == Spec => NothingBeyondOwnGrants
<1> DEFINE Rise ==
      \A m \in Member : \A c \in RolesOf(m)' \ RolesOf(m) :
           \E r \in Request : /\ pc[r] = "commit" /\ pc'[r] = "idle"
                              /\ job[r].target = m /\ Within(c, job[r].mine)
<1>1. TInv /\ MInv /\ [Next]_vars => [Rise]_vars
  <2> SUFFICES ASSUME TInv, MInv, NEW r \in Request, Handle(r),
                      NEW m \in Member, NEW c \in RolesOf(m)' \ RolesOf(m)
               PROVE  /\ pc[r] = "commit" /\ pc'[r] = "idle"
                      /\ job[r].target = m /\ Within(c, job[r].mine)
    BY DEF Next
  <2>1. c \in Role /\ <<m, c>> \in held' /\ <<m, c>> \notin held
    BY DEF RolesOf
  <2>2. Commit(r)
    BY <2>1, HeldByCommit DEF table
  <2>3. <<m, c>> \in ins[r]
    BY <2>1, <2>2, CommitEffect
  <2>4. m = job[r].target /\ Within(c, job[r].mine)
    BY <2>1, <2>3 DEF MInv, Done, Entitled
  <2> QED BY <2>2, <2>4, CommitEffect
<1> QED BY <1>1, InitTyped, StepTyped, InitGood, StepGood, PTL DEF Spec, NothingBeyondOwnGrants

\* Whoever is added, the roles of those who are members stay as they are.
THEOREM AddChangesNobody == Spec => AddKeepsMembers
<1> DEFINE Kept ==
      \A r \in Request : pc[r] = "commit" /\ job[r].kind = "add" /\ pc'[r] = "idle" =>
           \A m \in Member : members[m] = "in" => RolesOf(m)' = RolesOf(m)
<1>1. TInv /\ MInv /\ [Next]_vars => [Kept]_vars
  <2> SUFFICES ASSUME TInv, MInv, NEW x \in Request, Handle(x), NEW r \in Request,
                      pc[r] = "commit", job[r].kind = "add", pc'[r] = "idle",
                      NEW m \in Member, members[m] = "in"
               PROVE  RolesOf(m)' = RolesOf(m)
    BY DEF Next
  <2>1. x = r
    BY HandleOwn DEF OwnStep
  <2>2. CASE held' = held
    BY <2>2 DEF RolesOf
  <2>3. CASE Commit(r)
    <3>1. m # job[r].target
      BY <2>3, CommitEffect
    <3>2. \A c \in Role : <<m, c>> \notin del[r] \cup ins[r]
      BY <2>3, <3>1 DEF TInv, Works, RowsOf
    <3>3. \A c \in Role : <<m, c>> \in held' <=> <<m, c>> \in held
      BY <2>3, <3>2, CommitEffect
    <3> QED BY <3>3 DEF RolesOf
  <2> QED BY <2>1, <2>2, <2>3, HeldByCommit DEF table
<1> QED BY <1>1, InitTyped, StepTyped, InitGood, StepGood, PTL DEF Spec, AddKeepsMembers

-----------------------------------------------------------------------------
(* Changes that meet no other change of the same member.                   *)

\* The rows of the target are deleted, and the roles that are not still to
\* be inserted are in.
Replaced(r) ==
    \A c \in Role :
        /\ <<job[r].target, c>> \in held => <<job[r].target, c>> \in del[r]
        /\ <<job[r].target, c>> \in ins[r] <=> c \in job[r].codes \ todo[r]

Untouched(r) == del[r] = {} /\ ins[r] = {}

\* What has been done when a statement is next.
Phase(r) ==
    /\ pc[r] \in {"add", "check", "delete", "deleting", "drop"} => Untouched(r)
    /\ pc[r] = "deleting" => snap[r] = held \cap RowsOf(job[r].target)
    /\ pc[r] = "insert" => Replaced(r) /\ todo[r] \subseteq job[r].codes
    /\ pc[r] \in {"admin", "commit"} /\ job[r].kind # "remove" => Replaced(r) /\ todo[r] = {}

\* tenantHasAdmin found an admin, and there still is one.
Guarded(r) ==
    pc[r] = "commit" /\ job[r].kind # "add" => \E m \in Member : <<m, "admin">> \in Visible(r)

CInv ==
    \A r \in Request : /\ r \notin clash => Phase(r)
                       /\ r \notin met => Guarded(r)

LEMMA PhaseOwn ==
    ASSUME TInv, MInv, NEW r \in Request, Handle(r), Phase(r) PROVE Phase(r)'
<1> DEFINE t == job[r].target
<1>0. Done(r)
  BY DEF MInv
<1>1. CASE End(r)
  BY <1>1, EndTyped DEF Phase
<1>2. CASE ~End(r)
  <2>1. ASSUME NEW kind \in {"add", "set", "remove"}, NEW u, NEW m, NEW codes,
               Begin(r, kind, u, m, codes)
        PROVE  Phase(r)'
    <3>1. pc'[r] \in {"add", "check"} /\ del'[r] = {} /\ ins'[r] = {}
      BY <2>1 DEF Begin, Goto, TInv, RequestsTyped, Works
    <3> QED BY <3>1 DEF Phase, Untouched
  <2>2. CASE InsertMembership(r) \/ CheckExisting(r)
    <3>1. /\ pc[r] \in {"add", "check"} /\ pc'[r] \in {"delete", "drop"}
          /\ UNCHANGED own
      BY <1>2, <2>2 DEF InsertMembership, CheckExisting, Rollback, Goto, TInv, RequestsTyped
    <3> QED BY <1>0, <3>1 DEF Phase, Untouched, own
  <2>3. CASE DeleteRoles(r)
    <3>1. /\ pc[r] = "delete" /\ pc'[r] = "deleting"
          /\ snap'[r] = Visible(r) \cap RowsOf(t) /\ UNCHANGED <<job, held, del, ins>>
      BY <2>3 DEF DeleteRoles, Goto, TInv, RequestsTyped, table
    <3>2. Visible(r) = held
      BY <1>0, <3>1 DEF Phase, Untouched, Visible
    <3> QED BY <1>0, <3>1, <3>2 DEF Phase, Untouched
  <2>4. CASE DeletedRoles(r)
    <3>1. /\ pc[r] = "deleting" /\ pc'[r] = "insert"
          /\ del'[r] = snap[r] \cap held /\ todo'[r] = job[r].codes
          /\ UNCHANGED <<job, held, ins>>
      BY <2>4 DEF DeletedRoles, Goto, TInv, RequestsTyped, table
    <3>2. snap[r] = held \cap RowsOf(t) /\ ins[r] = {}
      BY <1>0, <3>1 DEF Phase, Untouched
    <3>3. Replaced(r)'
      BY <3>1, <3>2 DEF Replaced, RowsOf
    <3> QED BY <3>1, <3>3 DEF Phase
  <2>5. ASSUME NEW c \in Role, InsertRole(r, c) PROVE Phase(r)'
    <3>1. /\ pc[r] = "insert" /\ c \in todo[r]
          /\ ins'[r] = ins[r] \cup {<<t, c>>} /\ todo'[r] = todo[r] \ {c}
          /\ UNCHANGED <<pc, job, held, del>>
      BY <1>2, <2>5 DEF InsertRole, Rollback, TInv, RequestsTyped, table
    <3>2. Replaced(r) /\ todo[r] \subseteq job[r].codes
      BY <1>0, <3>1 DEF Phase
    <3>3. Replaced(r)'
      BY <3>1, <3>2 DEF Replaced
    <3> QED BY <3>1, <3>2, <3>3 DEF Phase
  <2>6. CASE InsertedRoles(r)
    <3>1. /\ pc[r] = "insert" /\ todo[r] = {} /\ UNCHANGED <<table, own>>
          /\ pc'[r] = (IF job[r].kind = "set" THEN "admin" ELSE "commit")
      BY <2>6 DEF InsertedRoles, Goto, TInv, RequestsTyped
    <3>2. job[r].kind \in {"add", "set"} /\ Replaced(r)
      BY <1>0, <3>1 DEF Done, Route, Phase
    <3>3. Replaced(r)'
      BY <3>1, <3>2 DEF Replaced, own, table
    <3> QED BY <3>1, <3>2, <3>3 DEF Phase, own
  <2>7. CASE DropMembership(r)
    <3>1. pc[r] = "drop" /\ pc'[r] = "admin" /\ UNCHANGED job
      BY <1>2, <2>7 DEF DropMembership, Rollback, Goto, TInv, RequestsTyped
    <3> QED BY <1>0, <3>1 DEF Phase, Done, Route
  <2>8. CASE HasAdmin(r)
    <3>1. pc[r] = "admin" /\ pc'[r] = "commit" /\ UNCHANGED <<table, own>>
      BY <1>2, <2>8 DEF HasAdmin, Rollback, Goto, TInv, RequestsTyped
    <3>2. Replaced(r) => Replaced(r)'
      BY <3>1 DEF Replaced, own, table
    <3> QED BY <3>1, <3>2 DEF Phase, own
  <2> QED
    BY <1>2, <2>1, <2>2, <2>3, <2>4, <2>5, <2>6, <2>7, <2>8 DEF Handle, Commit, Abort, Rollback
<1> QED BY <1>1, <1>2

\* Whoever commits is about another member than those it has not met.
LEMMA OtherTarget ==
    ASSUME TInv, MInv, HInv, NEW r \in Request, Handle(r), Commit(r),
           NEW x \in Request \ {r}, x \notin clash,
           pc[x] \notin {"idle", "add", "check"}
    PROVE  job[x].target # job[r].target
<1>0. Done(x) /\ Done(r) /\ Apart(r, x) /\ job[x] \in Jobs /\ job[r] \in Jobs
  BY CommitEffect DEF MInv, TInv, Works
<1> SUFFICES ASSUME job[x].target = job[r].target PROVE FALSE
  OBVIOUS
<1>1. CASE job[x].kind # "add" /\ job[r].kind # "add"
  <2>1. x \in Changes /\ r \in Changes
    BY <1>1, CommitEffect DEF Changes, Open
  <2> QED BY <2>1 DEF HInv, Meet
<1>2. CASE job[x].kind = "add" /\ job[r].kind = "add"
  <2>1. Adding(x, job[r].target) /\ Adding(r, job[r].target)
    BY <1>0, <1>2, CommitEffect DEF Adding, Done, Route
  <2> QED BY <1>0, <2>1, CommitEffect DEF Apart
<1>3. CASE job[x].kind = "add" <=> job[r].kind # "add"
  BY <1>0, <1>3, CommitEffect DEF Done, Found
<1> QED BY <1>1, <1>2, <1>3

\* Nobody but those it has met commits rows of the member a request is about.
LEMMA RowsStay ==
    ASSUME TInv, MInv, HInv, NEW r \in Request, Handle(r), Commit(r),
           NEW x \in Request \ {r}, x \notin clash,
           pc[x] \notin {"idle", "add", "check"}
    PROVE  \A c \in Role : <<job[x].target, c>> \in held' <=> <<job[x].target, c>> \in held
<1>1. \A c \in Role : <<job[x].target, c>> \notin del[r] \cup ins[r]
  BY OtherTarget, CommitEffect DEF TInv, Works, RowsOf
<1> QED BY <1>1, CommitEffect

LEMMA PhaseOthers ==
    ASSUME TInv, MInv, HInv, NEW r \in Request, Handle(r),
           NEW x \in Request \ {r}, x \notin clash, Phase(x)
    PROVE  Phase(x)'
<1>1. /\ pc'[x] = pc[x] /\ job'[x] = job[x] /\ todo'[x] = todo[x]
      /\ snap'[x] = snap[x] \/ (Commit(r) /\ snap'[x] = snap[x] \ del[r])
      /\ del'[x] = del[x] /\ ins'[x] = ins[x]
  BY HandleOwn DEF OwnStep
<1>2. CASE pc[x] \in {"idle", "add", "check"}
  BY <1>1, <1>2 DEF Phase, Untouched
<1>3. CASE pc[x] \notin {"idle", "add", "check"}
  <2>1. \A c \in Role : <<job[x].target, c>> \in held' <=> <<job[x].target, c>> \in held
    BY <1>3, RowsStay, HeldByCommit DEF table
  <2>2. held' \cap RowsOf(job[x].target) = held \cap RowsOf(job[x].target)
    BY <2>1 DEF RowsOf
  <2>3. Replaced(x) => Replaced(x)'
    BY <1>1, <2>1 DEF Replaced
  <2>4. pc[x] = "deleting" => snap'[x] = snap[x]
    <3>1. Commit(r) => del[r] \cap RowsOf(job[x].target) = {}
      BY <1>3, OtherTarget, CommitEffect DEF TInv, Works, RowsOf
    <3>2. snap[x] \subseteq RowsOf(job[x].target) \/ pc[x] = "idle"
      BY DEF TInv, Works
    <3> QED BY <1>1, <3>1, <3>2
  <2> QED BY <1>1, <2>2, <2>3, <2>4 DEF Phase, Untouched
<1> QED BY <1>2, <1>3

\* Adding somebody takes no role from anybody.
LEMMA AddEnlarges ==
    ASSUME TInv, MInv, NEW r \in Request, Commit(r), job[r].kind = "add"
    PROVE  held \subseteq held'
<1>1. \A c \in Role : <<job[r].target, c>> \notin held
  BY CommitEffect DEF MInv, RolesOfMembers, RolesOf
<1>2. held \cap RowsOf(job[r].target) = {}
  BY <1>1 DEF RowsOf
<1>3. del[r] \subseteq RowsOf(job[r].target)
  BY CommitEffect DEF TInv, Works
<1> QED BY <1>2, <1>3, CommitEffect

LEMMA GuardedOwn ==
    ASSUME TInv, MInv, NEW r \in Request, Handle(r) PROVE Guarded(r)'
<1>1. CASE End(r)
  BY <1>1, EndTyped DEF Guarded
<1>2. CASE ~End(r) /\ HasAdmin(r)
  <2>1. /\ UNCHANGED <<table, own>>
        /\ \E m \in Member : <<m, "admin">> \in Visible(r)
    BY <1>2 DEF HasAdmin, Rollback
  <2> QED BY <2>1 DEF Guarded, Visible, own, table
<1>3. CASE ~End(r) /\ ~HasAdmin(r)
  <2>1. pc'[r] = "commit" => InsertedRoles(r)
    BY <1>3
    DEF Handle, Begin, InsertMembership, CheckExisting, DeleteRoles, DeletedRoles, InsertRole,
        DropMembership, Commit, Abort, Rollback, Goto, TInv, RequestsTyped
  <2>2. InsertedRoles(r) /\ pc'[r] = "commit" => job'[r].kind = "add"
    <3> SUFFICES ASSUME InsertedRoles(r), pc'[r] = "commit" PROVE job'[r].kind = "add"
      OBVIOUS
    <3>1. pc[r] = "insert" /\ job' = job /\ job[r].kind # "set"
      BY DEF InsertedRoles, Goto, own, TInv, RequestsTyped
    <3> QED BY <3>1 DEF MInv, Done, Route
  <2> QED BY <2>1, <2>2 DEF Guarded
<1> QED BY <1>1, <1>2, <1>3

LEMMA GuardedOthers ==
    ASSUME TInv, MInv, HInv, NEW r \in Request, Handle(r),
           NEW x \in Request \ {r}, x \notin met, Guarded(x)
    PROVE  Guarded(x)'
<1>1. pc'[x] = pc[x] /\ job'[x] = job[x] /\ del'[x] = del[x] /\ ins'[x] = ins[x]
  BY HandleOwn DEF OwnStep
<1> SUFFICES ASSUME pc[x] = "commit", job[x].kind # "add"
             PROVE  \E m \in Member : <<m, "admin">> \in Visible(x)'
  BY <1>1 DEF Guarded
<1>2. PICK m \in Member : <<m, "admin">> \in Visible(x)
  BY DEF Guarded
<1>3. held \subseteq held'
  <2>1. CASE Commit(r)
    <3>1. job[r].kind = "add"
      <4> SUFFICES ASSUME job[r].kind # "add" PROVE FALSE
        OBVIOUS
      <4>1. x \in Changes /\ r \in Changes
        BY <2>1, CommitEffect DEF Changes, Open
      <4> QED BY <4>1 DEF HInv, Meet
    <3> QED BY <2>1, <3>1, AddEnlarges
  <2>2. CASE UNCHANGED table
    BY <2>2 DEF table
  <2> QED BY <2>1, <2>2, HeldByCommit
<1> QED BY <1>1, <1>2, <1>3 DEF Visible

\* Only at its beginning and its end is a request added to those that have
\* met, or taken from them.
LEMMA MetBefore ==
    ASSUME TInv, NEW r \in Request, Handle(r), NEW x \in Request
    PROVE  /\ x \notin met' => x \notin met \/ (x = r /\ pc'[r] = "idle")
           /\ x \notin clash' => x \notin clash \/ (x = r /\ pc'[r] = "idle")
<1>1. CASE Begins(r)
  BY <1>1 DEF Begins, Begin, history
<1>2. CASE End(r)
  BY <1>2, EndTyped DEF End
<1>3. CASE Along(r)
  BY <1>3 DEF Along, history
<1> QED BY <1>1, <1>2, <1>3, HandleKind

LEMMA StepAlone == TInv /\ MInv /\ HInv /\ CInv /\ [Next]_vars => CInv'
<1>1. ASSUME CInv, UNCHANGED vars PROVE CInv'
  BY <1>1
  DEF vars, table, own, history, CInv, Phase, Guarded, Untouched, Replaced, Visible
<1>2. ASSUME TInv, MInv, HInv, CInv, NEW r \in Request, Handle(r), NEW x \in Request
      PROVE  (x \notin clash' => Phase(x)') /\ (x \notin met' => Guarded(x)')
  <2>1. ASSUME x \notin clash' PROVE Phase(x)'
    <3>1. CASE x = r /\ pc'[r] = "idle"
      BY <3>1 DEF Phase
    <3>2. CASE ~(x = r /\ pc'[r] = "idle")
      <4>1. x \notin clash /\ Phase(x)
        BY <1>2, <2>1, <3>2, MetBefore DEF CInv
      <4> QED BY <1>2, <4>1, PhaseOwn, PhaseOthers
    <3> QED BY <3>1, <3>2
  <2>2. ASSUME x \notin met' PROVE Guarded(x)'
    <3>1. CASE x = r
      BY <1>2, <3>1, GuardedOwn
    <3>2. CASE x # r
      <4>1. x \notin met /\ Guarded(x)
        BY <1>2, <2>2, <3>2, MetBefore DEF CInv
      <4> QED BY <1>2, <3>2, <4>1, GuardedOthers
    <3> QED BY <3>1, <3>2
  <2> QED BY <2>1, <2>2
<1> QED BY <1>1, <1>2 DEF Next, CInv

LEMMA InitAlone == Init => CInv
BY DEF Init, CInv, Phase, Guarded

\* Only a change that met another change can take the last admin.
THEOREM AdminsStay == Spec => AdminKept
<1>1. TInv /\ MInv /\ MInv' /\ CInv /\ [Next]_vars
        => [AdminLeft /\ ~AdminLeft' => \E r \in met : Commit(r)]_vars
  <2> SUFFICES ASSUME TInv, MInv, MInv', CInv, NEW r \in Request, Handle(r),
                      AdminLeft, r \notin met \/ ~Commit(r)
               PROVE  AdminLeft'
    BY DEF Next
  <2>1. PICK m \in Member : members[m] = "in" /\ <<m, "admin">> \in held
    BY DEF AdminLeft
  <2>2. CASE UNCHANGED table
    BY <2>1, <2>2 DEF table, AdminLeft
  <2>3. CASE Commit(r) /\ r \notin met
    <3>1. \E u \in Member : <<u, "admin">> \in held'
      <4>1. CASE job[r].kind = "add"
        BY <2>1, <2>3, <4>1, AddEnlarges
      <4>2. CASE job[r].kind # "add"
        BY <2>3, <4>2, CommitEffect DEF CInv, Guarded, Visible
      <4> QED BY <4>1, <4>2
    <3>2. PICK u \in Member : <<u, "admin">> \in held'
      BY <3>1
    <3>3. RolesOf(u)' # {}
      BY <3>2 DEF RolesOf, Role
    <3> QED BY <3>2, <3>3 DEF MInv, RolesOfMembers, AdminLeft
  <2> QED BY <2>2, <2>3, HeldByCommit
<1> QED
  BY <1>1, InitTyped, StepTyped, InitGood, StepGood, InitHistory, StepHistory, InitAlone, StepAlone,
     PTL DEF Spec, AdminKept

\* What the commit of a request leaves its target with.
LEMMA CommitReplaces ==
    ASSUME TInv, MInv, HInv, CInv, NEW r \in Request, Commit(r), r \notin clash
    PROVE  \A m \in Member : m = job[r].target => RolesOf(m)' = job[r].codes
<1>1. Done(r) /\ Phase(r)
  BY DEF MInv, CInv
<1> SUFFICES ASSUME NEW m \in Member, m = job[r].target PROVE RolesOf(m)' = job[r].codes
  OBVIOUS
<1>2. CASE job[r].kind = "remove"
  <2>1. job[r].codes = {}
    BY <1>2, CommitEffect DEF HInv
  <2>2. \A c \in Role : <<m, c>> \notin held'
    BY <1>1, <1>2, CommitEffect DEF Done, Entitled, Covers, Dropping
  <2> QED BY <2>1, <2>2 DEF RolesOf
<1>3. CASE job[r].kind # "remove"
  <2>1. Replaced(r) /\ todo[r] = {}
    BY <1>1, <1>3, CommitEffect DEF Phase
  <2>2. \A c \in Role : <<m, c>> \in held' <=> c \in job[r].codes
    BY <2>1, CommitEffect DEF Replaced
  <2> QED BY <2>2, CommitEffect DEF RolesOf
<1> QED BY <1>2, <1>3

\* Roles change only when a request about the member commits, and are then those
\* it asked for, unless it met another change of the same member.
THEOREM ChangesReplace == Spec => ChangeReplaces
<1> DEFINE Last(m) == {r \in Request : Commit(r) /\ job[r].target = m}
           Told == \A m \in Member :
                       /\ RolesOf(m)' # RolesOf(m) => Last(m) # {}
                       /\ \A r \in Last(m) \ clash : RolesOf(m)' = job[r].codes
<1>1. TInv /\ MInv /\ HInv /\ CInv /\ [Next]_vars => [Told]_vars
  <2> SUFFICES ASSUME TInv, MInv, HInv, CInv, NEW x \in Request, Handle(x), NEW m \in Member
               PROVE  /\ RolesOf(m)' # RolesOf(m) => Last(m) # {}
                      /\ \A r \in Last(m) \ clash : RolesOf(m)' = job[r].codes
    BY DEF Next
  <2>1. RolesOf(m)' # RolesOf(m) => Last(m) # {}
    <3> SUFFICES ASSUME RolesOf(m)' # RolesOf(m) PROVE Commit(x) /\ job[x].target = m
      OBVIOUS
    <3>1. Commit(x)
      BY HeldByCommit DEF RolesOf, table
    <3>2. job[x].target # m => \A c \in Role : <<m, c>> \notin del[x] \cup ins[x]
      BY <3>1, CommitEffect DEF TInv, Works, RowsOf
    <3> QED BY <3>1, <3>2, CommitEffect DEF RolesOf
  <2>2. \A r \in Last(m) \ clash : RolesOf(m)' = job[r].codes
    BY CommitReplaces
  <2> QED BY <2>1, <2>2
<1> QED
  BY <1>1, InitTyped, StepTyped, InitGood, StepGood, InitHistory, StepHistory, InitAlone, StepAlone,
     PTL DEF Spec, ChangeReplaces
=============================================================================
