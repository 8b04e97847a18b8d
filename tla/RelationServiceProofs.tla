------------------------- MODULE RelationServiceProofs -------------------------
(***************************************************************************)
(* Proofs of the safety properties of RelationService, for any set of      *)
(* users and any number of calls.                                          *)
(***************************************************************************)
EXTENDS RelationService, MessageStoreProofs, FiniteSetTheorems, TLAPS

-------------------------------------------------------------------------------
(* What the steps do to the calls *)

PCs == Steps \cup {"unused", "done", "lost"}

(* A call goes on, ... *)
LEMMA GotoEffect ==
    ASSUME call \in [Calls -> CallRecords], NEW n \in Calls, NEW pc \in PCs, Goto(n, pc)
    PROVE  /\ call' \in [Calls -> CallRecords]
           /\ call'[n].pc = pc
           /\ call'[n].op = call[n].op /\ call'[n].user = call[n].user
           /\ call'[n].other = call[n].other /\ call'[n].group = call[n].group
           /\ call'[n].rest = call[n].rest /\ call'[n].ok = call[n].ok
           /\ \A m \in Calls \ {n} : call'[m] = call[m]
BY DEF Goto, CallRecords, PCs

(* ... or is answered. *)
LEMMA AnswerEffect ==
    ASSUME call \in [Calls -> CallRecords], NEW n \in Calls, NEW ok \in BOOLEAN, Answer(n, ok)
    PROVE  /\ call' \in [Calls -> CallRecords]
           /\ call'[n].pc = "done" /\ call'[n].ok = ok
           /\ call'[n].op = call[n].op /\ call'[n].user = call[n].user
           /\ call'[n].other = call[n].other /\ call'[n].group = call[n].group
           /\ \A m \in Calls \ {n} : call'[m] = call[m]
BY DEF Answer, CallRecords

(* CreateGroup has one member less to insert. *)
LEMMA RestEffect ==
    ASSUME call \in [Calls -> CallRecords], NEW n \in Calls, NEW u,
           call' = [call EXCEPT ![n].rest = @ \ {u}]
    PROVE  /\ call' \in [Calls -> CallRecords]
           /\ call'[n].pc = call[n].pc /\ call'[n].ok = call[n].ok
           /\ call'[n].op = call[n].op /\ call'[n].user = call[n].user
           /\ call'[n].other = call[n].other /\ call'[n].group = call[n].group
           /\ \A m \in Calls \ {n} : call'[m] = call[m]
BY DEF CallRecords

(* The group that CreateGroup made. *)
LEMMA MadeEffect ==
    ASSUME call \in [Calls -> CallRecords], NEW n \in Calls, NEW g \in Ids,
           call' = [call EXCEPT ![n].pc = "owner", ![n].group = g]
    PROVE  /\ call' \in [Calls -> CallRecords]
           /\ call'[n].pc = "owner" /\ call'[n].group = g /\ call'[n].ok = call[n].ok
           /\ call'[n].op = call[n].op /\ call'[n].user = call[n].user
           /\ call'[n].other = call[n].other
           /\ \A m \in Calls \ {n} : call'[m] = call[m]
BY DEF CallRecords, Steps

(* A call begins. *)
LEMMA AskEffect ==
    ASSUME call \in [Calls -> CallRecords], NEW n \in Calls, Ask(n)
    PROVE  /\ call' \in [Calls -> CallRecords]
           /\ call[n].pc = "unused"
           /\ call'[n].op \in {"joinGroup", "applyGroup", "acceptGroup"} =>
                  call'[n].group \in Ids
           /\ call'[n].pc = FirstStep(call'[n].op, call'[n].user, call'[n].other)
           /\ call'[n].ok = FALSE
           /\ \A m \in Calls \ {n} : call'[m] = call[m]
           /\ UNCHANGED <<storeVars, notices>>
<1>1. PICK op \in Ops, user \in Users, other \in Users, g \in GroupNumbers \cup {NoGroup},
           members \in SUBSET Users :
               /\ Begin(n, op, user, other, g, members)
               /\ op \in {"joinGroup", "applyGroup", "acceptGroup"} => g \in GroupNumbers
  BY DEF Ask, Ops
<1>2. FirstStep(op, user, other) \in PCs
  BY DEF FirstStep, PCs, Steps
<1>3. [op |-> op, pc |-> FirstStep(op, user, other), user |-> user, other |-> other,
       group |-> g, rest |-> members \ {user}, ok |-> FALSE] \in CallRecords
  BY <1>2, GroupNumbersAssumption DEF CallRecords, PCs
<1> QED BY <1>1, <1>3, GroupNumbersAssumption DEF Begin, Ask

(* All calls under way are lost. *)
LEMMA DownEffect ==
    ASSUME call \in [Calls -> CallRecords], GoDown
    PROVE  /\ call' \in [Calls -> CallRecords]
           /\ UNCHANGED <<storeVars, notices>>
           /\ \A n \in Calls :
                  \/ call'[n] = call[n] /\ ~InCall(n)
                  \/ /\ InCall(n) /\ call'[n].pc = "lost"
                     /\ call'[n].op = call[n].op /\ call'[n].user = call[n].user
                     /\ call'[n].other = call[n].other /\ call'[n].group = call[n].group
                     /\ call'[n].ok = call[n].ok
BY DEF GoDown, CallRecords

-------------------------------------------------------------------------------
(* What the steps do to the tables *)

LEMMA InsertEffect ==
    ASSUME binlog \in Seq(Commits), NEW tbl, NEW row, Insert(tbl, row)
    PROVE  /\ Master(tbl)' = Master(tbl) \cup {row}
           /\ \A t : t # tbl => Master(t)' = Master(t)
BY CommitGrowsTable DEF Insert

LEMMA SameTables ==
    ASSUME UNCHANGED storeVars
    PROVE  /\ \A t : Master(t)' = Master(t)
           /\ \A t, k : Rows(t, k)' = Rows(t, k)
           /\ Positions' = Positions
BY DEF storeVars, Master, Rows, Positions

LEMMA TryAddEffect ==
    ASSUME binlog \in Seq(Commits), NEW n \in Calls, NEW u, NEW role, TryAddMember(n, u, role)
    PROVE  /\ \/ /\ ~IsMember(call[n].group, u)
                 /\ Insert("member", [group |-> call[n].group, user |-> u, role |-> role])
              \/ (MayFail(n) \/ IsMember(call[n].group, u)) /\ UNCHANGED storeVars
           /\ \A t : t # "member" => Master(t)' = Master(t)
           /\ Master("member") \subseteq Master("member")'
BY InsertEffect, SameTables DEF TryAddMember, AddMember

(* A step leaves the store alone or makes one commit. *)
LEMMA StepCommits ==
    ASSUME [Next]_vars
    PROVE  \/ UNCHANGED storeVars
           \/ UNCHANGED applied /\ \E tbl, new : Commit(tbl, new)
<1>1. CASE UNCHANGED vars
  BY <1>1 DEF vars
<1>2. CASE GoDown
  BY <1>2 DEF GoDown
<1>3. ASSUME NEW n \in Calls, Ask(n) PROVE UNCHANGED storeVars
  BY <1>3 DEF Ask, Begin
<1>4. ASSUME NEW n \in Calls, Step(n)
      PROVE \/ UNCHANGED storeVars
            \/ UNCHANGED applied /\ \E tbl, new : Commit(tbl, new)
  BY <1>4 DEF Step, CheckRequest, InsertRequest, Befriend, InsertGroup, InsertOwner,
              FinishGroup, InsertInitial, CheckMember, Join, InsertGroupRequest,
              AcceptMember, Notify, Refuse, Insert, Fails, TryAddMember, AddMember
<1> QED BY <1>1, <1>2, <1>3, <1>4 DEF Next

(* Tables only grow, and a prefix of the log shows what it showed. *)
LEMMA TablesGrow ==
    ASSUME binlog \in Seq(Commits), [Next]_vars
    PROVE  /\ \A t : Master(t) \subseteq Master(t)'
           /\ Positions \subseteq Positions'
           /\ \A k \in Positions : \A t : Rows(t, k)' = Rows(t, k)
           /\ \A k \in Positions' \ Positions : \A t : Rows(t, k)' = Master(t)'
<1>1. CASE UNCHANGED storeVars
  BY <1>1, SameTables
<1>2. ASSUME NEW tbl, NEW new, Commit(tbl, new)
      PROVE  /\ \A t : Master(t) \subseteq Master(t)'
             /\ Positions \subseteq Positions'
             /\ \A k \in Positions : \A t : Rows(t, k)' = Rows(t, k)
             /\ \A k \in Positions' \ Positions : \A t : Rows(t, k)' = Master(t)'
  <2>1. /\ Len(binlog) \in Nat /\ Len(binlog') = Len(binlog) + 1
        /\ Positions = 0..Len(binlog) /\ Positions' = 0..(Len(binlog) + 1)
    BY <1>2, CommitGrowsTable DEF Positions
  <2>2. \A k \in Positions : \A t : Rows(t, k)' = Rows(t, k)
    BY <1>2, <2>1, CommitGrowsTable
  <2>3. \A k \in Positions' \ Positions : k = Len(binlog')
    BY <2>1
  <2>4. \A k \in Positions' \ Positions : \A t : Rows(t, k)' = Master(t)'
    BY <2>3 DEF Master, Rows
  <2>5. \A t : Master(t) \subseteq Master(t)'
    BY <1>2, CommitGrowsTable
  <2> QED BY <2>1, <2>2, <2>4, <2>5
<1> QED BY <1>1, <1>2, StepCommits

-------------------------------------------------------------------------------
(* Types *)

(* AUTO_INCREMENT counts the rows, of which there are finitely many. *)
Counted == {"friendRequest", "groupRequest", "group"}
FiniteTables == \A t \in Counted : IsFiniteSet(Master(t))

Typed == RelationTypeOK /\ FiniteTables

LEMMA TableTypes ==
    ASSUME binlog \in Seq(Commits)
    PROVE  /\ Master("friendRequest") \subseteq FriendRequests
           /\ Master("groupRequest") \subseteq GroupRequests
           /\ Master("relation") \subseteq Relations
           /\ Master("group") \subseteq GroupRows
           /\ Master("member") \subseteq MemberRows
<1>1. \A i \in 1..Len(binlog) : binlog[i] \in Commits
  OBVIOUS
<1>2. \A t, x : x \in Master(t) => \E i \in 1..Len(binlog) : binlog[i].table = t /\ x \in binlog[i].rows
  BY DEF Master, Rows
<1> QED BY <1>1, <1>2 DEF Commits

LEMMA NextIdType ==
    ASSUME Typed, NEW t \in Counted
    PROVE  NextId(t) \in Ids
BY FS_CardinalityType DEF Typed, FiniteTables, NextId, Ids

LEMMA TypedInit == Init => Typed
<1> SUFFICES ASSUME Init PROVE Typed
  OBVIOUS
<1>1. \A t : Master(t) = {}
  BY DEF Init, Master, Rows
<1>2. FiniteTables
  BY <1>1, FS_EmptySet DEF FiniteTables
<1>3. User0 \in Users
  BY UsersAssumption DEF User0
<1>4. call \in [Calls -> CallRecords] /\ notices \in SUBSET Notices
  BY <1>3 DEF Init, CallRecords, Ops, NoGroup
<1>5. binlog \in Seq(Commits) /\ applied \in [Slaves -> Positions]
  BY DEF Init, Positions
<1> QED BY <1>2, <1>4, <1>5 DEF Typed, RelationTypeOK

(* A row of the right type keeps the store typed. *)
LEMMA InsertTyped ==
    ASSUME Typed, NEW tbl, NEW row, Insert(tbl, row),
           \/ tbl = "friendRequest" /\ row \in FriendRequests
           \/ tbl = "groupRequest" /\ row \in GroupRequests
           \/ tbl = "relation" /\ row \in Relations
           \/ tbl = "group" /\ row \in GroupRows
           \/ tbl = "member" /\ row \in MemberRows
    PROVE  binlog' \in Seq(Commits) /\ (applied \in [Slaves -> Positions])' /\ FiniteTables'
<1>1. [table |-> tbl, rows |-> {row}] \in Commits
  BY DEF Commits
<1>2. binlog \in Seq(Commits)
  BY DEF Typed, RelationTypeOK
<1>3. binlog' \in Seq(Commits) /\ Len(binlog') = Len(binlog) + 1 /\ applied' = applied
  BY <1>1, <1>2 DEF Insert, Commit
<1>4. applied' \in [Slaves -> Positions']
  BY <1>2, <1>3 DEF Typed, RelationTypeOK, Positions
<1>5. FiniteTables'
  <2> SUFFICES ASSUME NEW t \in Counted PROVE IsFiniteSet(Master(t)')
    BY DEF FiniteTables
  <2>1. Master(t)' = Master(t) \cup {row} \/ Master(t)' = Master(t)
    BY <1>2, InsertEffect
  <2> QED BY <2>1, FS_AddElement DEF Typed, FiniteTables
<1> QED BY <1>3, <1>4, <1>5

LEMMA SameTyped ==
    ASSUME Typed, UNCHANGED storeVars
    PROVE  binlog' \in Seq(Commits) /\ (applied \in [Slaves -> Positions])' /\ FiniteTables'
BY SameTables DEF storeVars, Typed, RelationTypeOK, FiniteTables

LEMMA TryAddTyped ==
    ASSUME Typed, NEW n \in Calls, call[n].group \in Ids, NEW u \in Users, NEW role \in {1, 2},
           TryAddMember(n, u, role)
    PROVE  binlog' \in Seq(Commits) /\ (applied \in [Slaves -> Positions])' /\ FiniteTables'
<1>1. [group |-> call[n].group, user |-> u, role |-> role] \in MemberRows
  BY DEF MemberRows
<1> QED BY <1>1, InsertTyped, SameTyped DEF TryAddMember, AddMember

(* The calls that have a group to name, CreateGroup once it has made one. *)
HasGroup(n) ==
    \/ call[n].op \in {"joinGroup", "applyGroup", "acceptGroup"}
    \/ call[n].op = "createGroup" /\ (call[n].pc \in {"owner", "members", "notify"} \/ call[n].ok)

GroupNamed == \A n \in Calls : HasGroup(n) => call[n].group \in Ids

TypeInv == Typed /\ GroupNamed

LEMMA TypeStep == TypeInv /\ [Next]_vars => TypeInv'
<1> SUFFICES ASSUME TypeInv, [Next]_vars PROVE TypeInv'
  OBVIOUS
<1> DEFINE StoreOK == /\ binlog' \in Seq(Commits) /\ (applied \in [Slaves -> Positions])'
                      /\ FiniteTables'
           CallsOK == call' \in [Calls -> CallRecords] /\ GroupNamed'
           NoticesOK == notices' \in SUBSET Notices
<1> USE DEF TypeInv
<1>t. /\ call \in [Calls -> CallRecords] /\ notices \in SUBSET Notices
      /\ binlog \in Seq(Commits) /\ GroupNamed /\ Typed
  BY DEF Typed, RelationTypeOK
<1>s. SUFFICES StoreOK /\ CallsOK /\ NoticesOK
  BY DEF Typed, RelationTypeOK
<1>a. ASSUME NEW n \in Calls, NEW ok \in BOOLEAN, Answer(n, ok),
             call[n].op = "createGroup" => HasGroup(n)
      PROVE  CallsOK
  BY <1>a, <1>t, AnswerEffect DEF GroupNamed, HasGroup
<1>g. ASSUME NEW n \in Calls, NEW pc \in PCs, Goto(n, pc),
             call[n].op = "createGroup" => HasGroup(n) \/ pc \notin {"owner", "members", "notify"}
      PROVE  CallsOK
  BY <1>g, <1>t, GotoEffect DEF GroupNamed, HasGroup
<1> HIDE DEF StoreOK, CallsOK, NoticesOK
<1>r. ASSUME NEW n \in Calls
      PROVE  /\ call[n].user \in Users /\ call[n].other \in Users
             /\ HasGroup(n) => call[n].group \in Ids
  BY <1>t DEF CallRecords, GroupNamed
<1>0. CASE UNCHANGED vars
  BY <1>0, <1>t, SameTyped DEF vars, StoreOK, CallsOK, NoticesOK, GroupNamed, HasGroup
<1>1. CASE GoDown
  BY <1>1, <1>t, DownEffect, SameTyped DEF StoreOK, CallsOK, NoticesOK, GroupNamed, HasGroup
<1>2. ASSUME NEW n \in Calls, Ask(n) PROVE StoreOK /\ CallsOK /\ NoticesOK
  <2>1. /\ call' \in [Calls -> CallRecords] /\ call'[n] \in CallRecords
        /\ call'[n].op \in {"joinGroup", "applyGroup", "acceptGroup"} => call'[n].group \in Ids
        /\ call'[n].pc = FirstStep(call'[n].op, call'[n].user, call'[n].other)
        /\ call'[n].ok = FALSE
        /\ \A m \in Calls \ {n} : call'[m] = call[m]
        /\ UNCHANGED <<storeVars, notices>>
    BY <1>2, <1>t, AskEffect
  <2>2. call'[n].pc \notin {"owner", "members", "notify"}
    BY <2>1 DEF FirstStep
  <2>3. GroupNamed'
    BY <2>1, <2>2, <1>t DEF GroupNamed, HasGroup
  <2> QED BY <2>1, <2>3, <1>t, SameTyped DEF StoreOK, CallsOK, NoticesOK
<1>3. ASSUME NEW n \in Calls, CheckRequest(n) PROVE StoreOK /\ CallsOK /\ NoticesOK
  BY <1>3, <1>a, <1>g, <1>t, SameTyped DEF CheckRequest, At, PCs, Steps, StoreOK, NoticesOK
<1>4. ASSUME NEW n \in Calls, InsertRequest(n) PROVE StoreOK /\ CallsOK /\ NoticesOK
  <2>1. FriendRow(n) \in FriendRequests
    BY <1>r, <1>t, NextIdType DEF FriendRow, FriendRequests, Counted
  <2> QED BY <1>4, <2>1, <1>a, <1>g, <1>t, SameTyped, InsertTyped
          DEF InsertRequest, Fails, At, PCs, Steps, StoreOK, NoticesOK
<1>5. ASSUME NEW n \in Calls, Befriend(n) PROVE StoreOK /\ CallsOK /\ NoticesOK
  <2> DEFINE rows == {[user |-> call[n].user, friend |-> call[n].other],
                      [user |-> call[n].other, friend |-> call[n].user]}
  <2>1. rows \in SUBSET Relations
    BY <1>r DEF Relations
  <2>2. ASSUME Commit("relation", rows), UNCHANGED applied PROVE StoreOK
    <3>1. [table |-> "relation", rows |-> rows] \in Commits
      BY <2>1 DEF Commits
    <3>2. binlog' \in Seq(Commits) /\ Len(binlog') = Len(binlog) + 1
      BY <3>1, <1>t, <2>2 DEF Commit
    <3>3. applied' \in [Slaves -> Positions']
      BY <3>2, <1>t, <2>2 DEF Typed, RelationTypeOK, Positions
    <3>4. FiniteTables'
      BY <1>t, <2>2, CommitGrowsTable DEF FiniteTables, Counted, Typed
    <3> QED BY <3>2, <3>3, <3>4 DEF StoreOK
  <2>3. StoreOK
    BY <1>5, <2>2, <1>t, SameTyped DEF Befriend, StoreOK
  <2> QED BY <1>5, <2>3, <1>g, <1>t DEF Befriend, At, PCs, Steps, NoticesOK
<1>6. ASSUME NEW n \in Calls, InsertGroup(n) PROVE StoreOK /\ CallsOK /\ NoticesOK
  <2>1. NextId("group") \in Ids
    BY <1>t, NextIdType DEF Counted
  <2>2. GroupRow(n) \in GroupRows
    BY <2>1, <1>r DEF GroupRow, GroupRows
  <2>3. StoreOK
    BY <1>6, <2>2, <1>t, SameTyped, InsertTyped DEF InsertGroup, Fails, StoreOK
  <2>4. ASSUME Answer(n, FALSE) PROVE CallsOK
    BY <1>6, <2>4, <1>t, AnswerEffect DEF InsertGroup, At, CallsOK, GroupNamed, HasGroup
  <2>5. ASSUME call' = [call EXCEPT ![n].pc = "owner", ![n].group = NextId("group")]
        PROVE  CallsOK
    <3>1. /\ call' \in [Calls -> CallRecords] /\ call'[n].group \in Ids
          /\ \A m \in Calls \ {n} : call'[m] = call[m]
      BY <2>1, <2>5, <1>t, MadeEffect
    <3> QED BY <3>1, <1>t DEF CallsOK, GroupNamed, HasGroup
  <2> QED BY <1>6, <2>3, <2>4, <2>5, <1>t DEF InsertGroup, NoticesOK
<1>7. ASSUME NEW n \in Calls, InsertOwner(n) PROVE StoreOK /\ CallsOK /\ NoticesOK
  BY <1>7, <1>r, <1>g, <1>t, TryAddTyped DEF InsertOwner, At, HasGroup, PCs, Steps, StoreOK, NoticesOK
<1>8. ASSUME NEW n \in Calls, NEW u \in Users, InsertInitial(n, u) PROVE StoreOK /\ CallsOK /\ NoticesOK
  <2>1. StoreOK
    BY <1>8, <1>r, <1>t, TryAddTyped DEF InsertInitial, At, HasGroup, StoreOK
  <2>2. CallsOK
    BY <1>8, <1>t, RestEffect DEF InsertInitial, CallsOK, GroupNamed, HasGroup
  <2> QED BY <1>8, <2>1, <2>2, <1>t DEF InsertInitial, NoticesOK
<1>9. ASSUME NEW n \in Calls, FinishGroup(n) PROVE StoreOK /\ CallsOK /\ NoticesOK
  BY <1>9, <1>a, <1>t, SameTyped DEF FinishGroup, At, HasGroup, StoreOK, NoticesOK
<1>10. ASSUME NEW n \in Calls, CheckMember(n) PROVE StoreOK /\ CallsOK /\ NoticesOK
  BY <1>10, <1>a, <1>g, <1>t, SameTyped DEF CheckMember, PCs, Steps, StoreOK, NoticesOK
<1>11. ASSUME NEW n \in Calls, Join(n) PROVE StoreOK /\ CallsOK /\ NoticesOK
  <2>1. StoreOK
    BY <1>11, <1>r, <1>t, TryAddTyped, SameTyped DEF Join, At, HasGroup, TryAddMember, AddMember, StoreOK
  <2> QED BY <1>11, <2>1, <1>a, <1>g, <1>t DEF Join, At, PCs, Steps, NoticesOK
<1>12. ASSUME NEW n \in Calls, InsertGroupRequest(n) PROVE StoreOK /\ CallsOK /\ NoticesOK
  <2>1. At(n, "applyGroup", "insert")
    BY <1>12 DEF InsertGroupRequest
  <2>2. [id |-> NextId("groupRequest"), group |-> call[n].group, from |-> call[n].user] \in GroupRequests
    BY <2>1, <1>r, <1>t, NextIdType DEF GroupRequests, Counted, At, HasGroup
  <2> QED BY <1>12, <2>2, <1>a, <1>g, <1>t, SameTyped, InsertTyped
          DEF InsertGroupRequest, GroupRequestRow, Fails, At, PCs, Steps, StoreOK, NoticesOK
<1>13. ASSUME NEW n \in Calls, AcceptMember(n) PROVE StoreOK /\ CallsOK /\ NoticesOK
  BY <1>13, <1>r, <1>g, <1>t, TryAddTyped DEF AcceptMember, At, HasGroup, PCs, Steps, StoreOK, NoticesOK
<1>14. ASSUME NEW n \in Calls, Notify(n) PROVE StoreOK /\ CallsOK /\ NoticesOK
  <2>1. Recipients(n) \subseteq Users
    BY <1>r, <1>t, TableTypes DEF Recipients, GroupRows
  <2>2. NoticesOK
    BY <1>14, <2>1, <1>r, <1>t DEF Notify, Notices, NoticesOK, CallRecords
  <2> QED BY <1>14, <2>2, <1>a, <1>t, SameTyped DEF Notify, HasGroup, StoreOK
<1>15. ASSUME NEW n \in Calls, Refuse(n) PROVE StoreOK /\ CallsOK /\ NoticesOK
  BY <1>15, <1>a, <1>t, SameTyped DEF Refuse, At, StoreOK, NoticesOK
<1> QED BY <1>0, <1>1, <1>2, <1>3, <1>4, <1>5, <1>6, <1>7, <1>8, <1>9, <1>10, <1>11, <1>12,
           <1>13, <1>14, <1>15 DEF Next, Step

(* The variables keep the types the code and the tables give them. *)
THEOREM TypeCorrect == Spec => []RelationTypeOK
<1>1. Init => TypeInv
  BY TypedInit DEF TypeInv, GroupNamed, HasGroup, Init
<1>2. TypeInv => RelationTypeOK
  BY DEF TypeInv, Typed
<1> QED BY <1>1, <1>2, TypeStep, PTL DEF Spec

(* The same with what the proof needs: finite tables, and a group to name  *)
(* in every call that names one.                                           *)
THEOREM TypesInvariant == Spec => []TypeInv
<1>1. Init => TypeInv
  BY TypedInit DEF TypeInv, GroupNamed, HasGroup, Init
<1> QED BY <1>1, TypeStep, PTL DEF Spec

LEMMA TypeFacts ==
    ASSUME TypeInv
    PROVE  /\ call \in [Calls -> CallRecords] /\ binlog \in Seq(Commits)
           /\ notices \in SUBSET Notices
BY DEF TypeInv, Typed, RelationTypeOK

-------------------------------------------------------------------------------
(* Steps about friends leave the groups alone, and the other way round *)

FriendStep(n) == CheckRequest(n) \/ InsertRequest(n) \/ Befriend(n) \/ Refuse(n)
GroupStep(n) ==
    \/ InsertGroup(n) \/ InsertOwner(n) \/ FinishGroup(n)
    \/ \E u \in Users : InsertInitial(n, u)
    \/ CheckMember(n) \/ Join(n) \/ InsertGroupRequest(n) \/ AcceptMember(n)

LEMMA FriendStepEffect ==
    ASSUME TypeInv, NEW n \in Calls, FriendStep(n)
    PROVE  /\ call[n].op \in {"applyFriend", "acceptFriend"}
           /\ call'[n].op = call[n].op
           /\ \A m \in Calls \ {n} : call'[m] = call[m]
           /\ notices' = notices
           /\ \A t \in {"group", "member", "groupRequest"} : Master(t)' = Master(t)
<1>t. call \in [Calls -> CallRecords] /\ binlog \in Seq(Commits)
  BY TypeFacts
<1>1. /\ call[n].op \in {"applyFriend", "acceptFriend"} /\ notices' = notices
      /\ \/ \E pc \in PCs : Goto(n, pc)
         \/ \E ok \in BOOLEAN : Answer(n, ok)
  BY DEF FriendStep, CheckRequest, InsertRequest, Befriend, Refuse, At, PCs, Steps
<1>2. \/ UNCHANGED storeVars
      \/ \E row : Insert("friendRequest", row)
      \/ \E rows : Commit("relation", rows)
  BY DEF FriendStep, CheckRequest, InsertRequest, Befriend, Refuse, Fails
<1>3. \A t \in {"group", "member", "groupRequest"} : Master(t)' = Master(t)
  BY <1>t, <1>2, InsertEffect, SameTables, CommitGrowsTable
<1>4. call'[n].op = call[n].op /\ \A m \in Calls \ {n} : call'[m] = call[m]
  BY <1>t, <1>1, GotoEffect, AnswerEffect
<1> QED BY <1>1, <1>3, <1>4

LEMMA GroupStepEffect ==
    ASSUME TypeInv, NEW n \in Calls, GroupStep(n)
    PROVE  /\ call[n].op \in {"createGroup", "joinGroup", "applyGroup", "acceptGroup"}
           /\ call'[n].op = call[n].op
           /\ \A m \in Calls \ {n} : call'[m] = call[m]
           /\ notices' = notices
           /\ \A t \in {"relation", "friendRequest"} : Master(t)' = Master(t)
<1>t. call \in [Calls -> CallRecords] /\ binlog \in Seq(Commits)
  BY TypeFacts
<1>g. NextId("group") \in Ids
  BY NextIdType DEF TypeInv, Counted
<1>1. /\ call[n].op \in {"createGroup", "joinGroup", "applyGroup", "acceptGroup"}
      /\ notices' = notices
  BY DEF GroupStep, InsertGroup, InsertOwner, FinishGroup, InsertInitial, CheckMember, Join,
         InsertGroupRequest, AcceptMember, At
<1>2. \/ \E pc \in PCs : Goto(n, pc)
      \/ \E ok \in BOOLEAN : Answer(n, ok)
      \/ \E u : call' = [call EXCEPT ![n].rest = @ \ {u}]
      \/ call' = [call EXCEPT ![n].pc = "owner", ![n].group = NextId("group")]
  BY DEF GroupStep, InsertGroup, InsertOwner, FinishGroup, InsertInitial, CheckMember, Join,
         InsertGroupRequest, AcceptMember, PCs, Steps
<1>3. \/ UNCHANGED storeVars
      \/ \E row, t : t \in {"group", "member", "groupRequest"} /\ Insert(t, row)
  BY DEF GroupStep, InsertGroup, InsertOwner, FinishGroup, InsertInitial, CheckMember, Join,
         InsertGroupRequest, AcceptMember, Fails, TryAddMember, AddMember
<1>4. \A t \in {"relation", "friendRequest"} : Master(t)' = Master(t)
  BY <1>t, <1>3, InsertEffect, SameTables
<1>5. CASE call' = [call EXCEPT ![n].pc = "owner", ![n].group = NextId("group")]
  BY <1>t, <1>g, <1>1, <1>4, <1>5, MadeEffect
<1>6. ASSUME NEW u, call' = [call EXCEPT ![n].rest = @ \ {u}]
      PROVE  call'[n].op = call[n].op /\ \A m \in Calls \ {n} : call'[m] = call[m]
  BY <1>t, <1>6, RestEffect
<1>7. call'[n].op = call[n].op /\ \A m \in Calls \ {n} : call'[m] = call[m]
  BY <1>t, <1>2, <1>5, <1>6, GotoEffect, AnswerEffect
<1> QED BY <1>1, <1>4, <1>7

LEMMA NextKinds ==
    ASSUME Next
    PROVE  \/ GoDown
           \/ \E n \in Calls : Ask(n) \/ FriendStep(n) \/ GroupStep(n) \/ Notify(n)
BY DEF Next, Step, FriendStep, GroupStep

-------------------------------------------------------------------------------
(* The requests of friends *)

Pending(u, v) == PendingAt(u, v, Len(binlog))
LEMMA PendingRow ==
    /\ \A u, v : Pending(u, v) <=> \E r \in Master("friendRequest") : r.from = u /\ r.to = v
    /\ \A u, v : Pending(u, v)' <=> \E r \in Master("friendRequest")' : r.from = u /\ r.to = v
BY DEF Pending, PendingAt, Master

-------------------------------------------------------------------------------
(* Friends *)

Mirrored ==
    \A r \in Master("relation") : [user |-> r.friend, friend |-> r.user] \in Master("relation")

(* On every prefix of the log *)
FriendsInv == TypeInv /\ Mirrored /\ FriendsMutual

LEMMA MirroredStep == TypeInv /\ Mirrored /\ [Next]_vars => Mirrored'
<1> SUFFICES ASSUME TypeInv, Mirrored, [Next]_vars PROVE Mirrored'
  OBVIOUS
<1>t. call \in [Calls -> CallRecords] /\ binlog \in Seq(Commits)
  BY TypeFacts
<1>m. Master("relation")' = Master("relation") => Mirrored'
  BY DEF Mirrored
<1>s. UNCHANGED storeVars => Mirrored'
  BY <1>m, SameTables
<1>1. CASE UNCHANGED vars \/ GoDown
  BY <1>1, <1>s DEF vars, GoDown
<1>2. ASSUME NEW n \in Calls, Ask(n) \/ Notify(n) PROVE Mirrored'
  BY <1>2, <1>s, <1>t, AskEffect DEF Notify
<1>3. ASSUME NEW n \in Calls, GroupStep(n) PROVE Mirrored'
  BY <1>3, <1>m, GroupStepEffect
<1>4. ASSUME NEW n \in Calls, Befriend(n) PROVE Mirrored'
  <2> PICK u, v : u = call[n].user /\ v = call[n].other
    OBVIOUS
  <2> DEFINE rows == {[user |-> u, friend |-> v], [user |-> v, friend |-> u]}
  <2>1. ASSUME Commit("relation", rows) PROVE Mirrored'
    <3>1. Master("relation")' = Master("relation") \cup rows
      BY <2>1, <1>t, CommitGrowsTable
    <3>2. \A r \in rows : [user |-> r.friend, friend |-> r.user] \in rows
      OBVIOUS
    <3> HIDE DEF rows
    <3> QED BY <3>1, <3>2 DEF Mirrored
  <2> QED BY <1>4, <2>1, <1>s DEF Befriend
<1>5. ASSUME NEW n \in Calls, CheckRequest(n) \/ InsertRequest(n) \/ Refuse(n) PROVE Mirrored'
  BY <1>5, <1>s, <1>m, <1>t, InsertEffect DEF CheckRequest, InsertRequest, Refuse, Fails
<1> QED BY <1>1, <1>2, <1>3, <1>4, <1>5, NextKinds DEF FriendStep

LEMMA FriendsStep == FriendsInv /\ [Next]_vars => FriendsInv'
<1> SUFFICES ASSUME FriendsInv, [Next]_vars PROVE FriendsInv'
  OBVIOUS
<1>1. TypeInv' /\ Mirrored'
  BY TypeStep, MirroredStep DEF FriendsInv
<1>t. binlog \in Seq(Commits) /\ binlog' \in Seq(Commits) /\ TypeInv
  BY <1>1, TypeFacts DEF FriendsInv, TypeInv, Typed, RelationTypeOK
<1>g. /\ \A k \in Positions : \A t : Rows(t, k)' = Rows(t, k)
      /\ \A k \in Positions' \ Positions : \A t : Rows(t, k)' = Master(t)'
  BY <1>t, TablesGrow
<1>m. Master("relation")' \subseteq Relations
  <2>1. (binlog \in Seq(Commits))' => (Master("relation") \subseteq Relations)'
    BY TableTypes, PTL
  <2> QED BY <1>t, <2>1
<1>2. ASSUME NEW k \in Positions', NEW u \in Users, NEW v \in Users,
             (v \in FriendList(u, k))'
      PROVE  (u \in FriendList(v, k))'
  <2>1. CASE k \in Positions
    <3>1. \A x : FriendList(x, k)' = FriendList(x, k)
      BY <1>g, <2>1 DEF FriendList
    <3> QED BY <1>2, <2>1, <3>1 DEF FriendsInv, FriendsMutual
  <2>2. CASE k \notin Positions
    <3>1. Rows("relation", k)' = Master("relation")'
      BY <1>g, <2>2
    <3>2. \A x, y : (y \in FriendList(x, k))' <=>
              [user |-> x, friend |-> y] \in Master("relation")'
      BY <1>m, <3>1 DEF FriendList, Relations
    <3>3. PICK r \in Master("relation")' : r = [user |-> u, friend |-> v]
      BY <1>2, <3>2
    <3>4. [user |-> v, friend |-> u] \in Master("relation")'
      BY <1>1, <3>3 DEF Mirrored
    <3> QED BY <3>2, <3>4
  <2> QED BY <2>1, <2>2
<1>3. FriendsMutual'
  BY <1>2 DEF FriendsMutual
<1> QED BY <1>1, <1>3 DEF FriendsInv

LEMMA FriendsInit == Init => FriendsInv
<1> SUFFICES ASSUME Init PROVE FriendsInv
  OBVIOUS
<1>1. Positions = {0} /\ \A t : Rows(t, 0) = {} /\ Master(t) = {}
  BY DEF Init, Rows, Master, Positions
<1>2. Mirrored /\ FriendsMutual
  BY <1>1 DEF Mirrored, FriendsMutual, FriendList
<1>3. TypeInv
  BY TypedInit DEF TypeInv, GroupNamed, HasGroup, Init
<1> QED BY <1>2, <1>3 DEF FriendsInv

(* Friendship is mutual on every server. *)
THEOREM MutualFriends == Spec => []FriendsMutual
<1>1. FriendsInv => FriendsMutual
  BY DEF FriendsInv
<1> QED BY <1>1, FriendsInit, FriendsStep, PTL DEF Spec

-------------------------------------------------------------------------------
(* Answers *)

(* What a call must have put into the tables once it is past its INSERT    *)
Held(n) ==
    /\ call[n].op = "joinGroup" => IsMember(call[n].group, call[n].user)
    /\ call[n].op = "applyFriend" => Pending(call[n].user, call[n].other)
    /\ call[n].op = "applyGroup" => AppliedTo(call[n].group, call[n].user)
    /\ call[n].op = "createGroup" =>
           [id |-> call[n].group, owner |-> call[n].user] \in Master("group")

Earned(n) == call[n].pc \in {"notify", "owner", "members"} \/ (call[n].pc = "done" /\ call[n].ok)
Kept == \A n \in Calls : Earned(n) => Held(n)

LEMMA MemberRow ==
    /\ \A g, u : IsMember(g, u) <=> \E r \in Master("member") : r.group = g /\ r.user = u
    /\ \A g, u : IsMember(g, u)' <=> \E r \in Master("member")' : r.group = g /\ r.user = u
BY DEF IsMember

(* What is in a table stays there. *)
LEMMA HeldStays ==
    ASSUME binlog \in Seq(Commits), [Next]_vars, NEW n \in Calls, Held(n),
           call'[n].op = call[n].op, call'[n].user = call[n].user,
           call'[n].other = call[n].other, call'[n].group = call[n].group
    PROVE  Held(n)'
<1>1. \A t : Master(t) \subseteq Master(t)'
  BY TablesGrow
<1>2. /\ \A g, u : IsMember(g, u) => IsMember(g, u)'
      /\ \A u, v : Pending(u, v) => Pending(u, v)'
      /\ \A g, u : AppliedTo(g, u) => AppliedTo(g, u)'
  BY <1>1, MemberRow, PendingRow DEF AppliedTo
<1> QED BY <1>1, <1>2 DEF Held

LEMMA KeptStep == TypeInv /\ Kept /\ [Next]_vars => Kept'
<1> SUFFICES ASSUME TypeInv, Kept, [Next]_vars PROVE Kept'
  OBVIOUS
<1>t. call \in [Calls -> CallRecords] /\ binlog \in Seq(Commits)
  BY TypeFacts
<1>c. ASSUME NEW m \in Calls, call'[m] = call[m], Earned(m)' PROVE Held(m)'
  BY <1>c, <1>t, HeldStays DEF Kept, Earned
<1>o. ASSUME NEW n \in Calls, \A m \in Calls \ {n} : call'[m] = call[m], Earned(n)' => Held(n)'
      PROVE  Kept'
  BY <1>o, <1>c DEF Kept
<1>g. ASSUME NEW n \in Calls, NEW pc \in PCs, Goto(n, pc),
             Earned(n) \/ pc \notin {"notify", "owner", "members"}, pc # "done"
      PROVE  Kept'
  <2>1. Earned(n)' => Earned(n)
    BY <1>g, <1>t, GotoEffect DEF Earned
  <2> QED BY <1>g, <1>t, <1>o, <2>1, GotoEffect, HeldStays DEF Kept
<1>a. ASSUME NEW n \in Calls, NEW ok \in BOOLEAN, Answer(n, ok), ok => Held(n)
      PROVE  Kept'
  <2>1. Earned(n)' => ok
    BY <1>a, <1>t, AnswerEffect DEF Earned
  <2> QED BY <1>a, <1>t, <1>o, <2>1, AnswerEffect, HeldStays
<1>0. CASE UNCHANGED vars
  BY <1>0, <1>c DEF vars, Kept
<1>1. CASE GoDown
  <2>1. ASSUME NEW m \in Calls, Earned(m)' PROVE Held(m)'
    BY <1>1, <2>1, <1>c, <1>t, DownEffect DEF Earned
  <2> QED BY <2>1 DEF Kept
<1>2. ASSUME NEW n \in Calls, Ask(n) PROVE Kept'
  <2>1. ~Earned(n)'
    BY <1>2, <1>t, AskEffect DEF Earned, FirstStep
  <2> QED BY <1>2, <1>t, <2>1, <1>o, AskEffect
<1>3. ASSUME NEW n \in Calls, CheckRequest(n) PROVE Kept'
  BY <1>3, <1>g, <1>a DEF CheckRequest, PCs, Steps
<1>4. ASSUME NEW n \in Calls, InsertRequest(n) PROVE Kept'
  <2>1. CASE Answer(n, FALSE)
    BY <2>1, <1>a
  <2>2. CASE Insert("friendRequest", FriendRow(n)) /\ Goto(n, "notify")
    <3>1. /\ call'[n].op = "applyFriend" /\ call'[n].user = call[n].user
          /\ call'[n].other = call[n].other
          /\ \A m \in Calls \ {n} : call'[m] = call[m]
      BY <1>4, <2>2, <1>t, GotoEffect DEF InsertRequest, At, PCs, Steps
    <3> PICK u, v : u = call[n].user /\ v = call[n].other
      OBVIOUS
    <3>2. FriendRow(n) \in Master("friendRequest")' /\ FriendRow(n).from = u /\ FriendRow(n).to = v
      BY <2>2, <1>t, InsertEffect DEF FriendRow
    <3>3. Pending(u, v)'
      BY <3>2, PendingRow
    <3>4. Held(n)'
      BY <3>1, <3>3 DEF Held
    <3> QED BY <3>1, <3>4, <1>o
  <2> QED BY <1>4, <2>1, <2>2 DEF InsertRequest
<1>5. ASSUME NEW n \in Calls, Befriend(n) PROVE Kept'
  <2>1. call'[n].op = "acceptFriend" /\ \A m \in Calls \ {n} : call'[m] = call[m]
    BY <1>5, <1>t, GotoEffect DEF Befriend, At, PCs, Steps
  <2> QED BY <2>1, <1>o DEF Held
<1>6. ASSUME NEW n \in Calls, InsertGroup(n) PROVE Kept'
  <2>1. CASE Answer(n, FALSE)
    BY <2>1, <1>a
  <2>2. CASE /\ Insert("group", GroupRow(n))
             /\ call' = [call EXCEPT ![n].pc = "owner", ![n].group = NextId("group")]
    <3>1. NextId("group") \in Ids
      BY NextIdType DEF TypeInv, Counted
    <3>2. /\ call'[n].op = "createGroup" /\ call'[n].user = call[n].user
          /\ call'[n].group = NextId("group")
          /\ \A m \in Calls \ {n} : call'[m] = call[m]
      BY <1>6, <2>2, <3>1, <1>t, MadeEffect DEF InsertGroup, At
    <3>3. [id |-> NextId("group"), owner |-> call[n].user] \in Master("group")'
      BY <2>2, <1>t, InsertEffect DEF GroupRow
    <3>4. Held(n)'
      BY <3>2, <3>3 DEF Held
    <3> QED BY <3>2, <3>4, <1>o
  <2> QED BY <1>6, <2>1, <2>2 DEF InsertGroup
<1>7. ASSUME NEW n \in Calls, InsertOwner(n) PROVE Kept'
  BY <1>7, <1>g DEF InsertOwner, Earned, At, PCs, Steps
<1>8. ASSUME NEW n \in Calls, NEW u \in Users, InsertInitial(n, u) PROVE Kept'
  <2>1. /\ call'[n].op = call[n].op /\ call'[n].user = call[n].user
        /\ call'[n].other = call[n].other /\ call'[n].group = call[n].group
        /\ \A m \in Calls \ {n} : call'[m] = call[m]
    BY <1>8, <1>t, RestEffect DEF InsertInitial
  <2>2. Held(n)
    BY <1>8 DEF InsertInitial, At, Kept, Earned
  <2> QED BY <2>1, <2>2, <1>o, <1>t, HeldStays
<1>9. ASSUME NEW n \in Calls, FinishGroup(n) PROVE Kept'
  BY <1>9, <1>a DEF FinishGroup, At, Kept, Earned
<1>10. ASSUME NEW n \in Calls, CheckMember(n) PROVE Kept'
  <2>1. CASE IsMember(call[n].group, call[n].user) /\ Answer(n, call[n].op = "joinGroup")
    BY <2>1, <1>a DEF Held
  <2>2. CASE Goto(n, "insert")
    BY <2>2, <1>g DEF PCs, Steps
  <2> QED BY <1>10, <2>1, <2>2 DEF CheckMember
<1>11. ASSUME NEW n \in Calls, Join(n) PROVE Kept'
  <2>1. CASE AddMember(call[n].group, call[n].user, 1) /\ Goto(n, "notify")
    <3>1. /\ call'[n].op = "joinGroup" /\ call'[n].user = call[n].user
          /\ call'[n].group = call[n].group
          /\ \A m \in Calls \ {n} : call'[m] = call[m]
      BY <1>11, <2>1, <1>t, GotoEffect DEF Join, At, PCs, Steps
    <3> PICK g, u : g = call[n].group /\ u = call[n].user
      OBVIOUS
    <3>2. [group |-> g, user |-> u, role |-> 1] \in Master("member")'
      BY <2>1, <1>t, InsertEffect DEF AddMember
    <3>3. IsMember(g, u)'
      BY <3>2, MemberRow
    <3>4. Held(n)'
      BY <3>1, <3>3 DEF Held
    <3> QED BY <3>1, <3>4, <1>o
  <2>2. CASE IsMember(call[n].group, call[n].user) /\ Answer(n, TRUE)
    BY <1>11, <2>2, <1>a DEF Held, Join, At
  <2>3. CASE Answer(n, FALSE)
    BY <2>3, <1>a
  <2> QED BY <1>11, <2>1, <2>2, <2>3 DEF Join
<1>12. ASSUME NEW n \in Calls, InsertGroupRequest(n) PROVE Kept'
  <2>1. CASE Answer(n, FALSE)
    BY <2>1, <1>a
  <2>2. CASE Insert("groupRequest", GroupRequestRow(n)) /\ Goto(n, "notify")
    <3>1. /\ call'[n].op = "applyGroup" /\ call'[n].user = call[n].user
          /\ call'[n].group = call[n].group
          /\ \A m \in Calls \ {n} : call'[m] = call[m]
      BY <1>12, <2>2, <1>t, GotoEffect DEF InsertGroupRequest, At, PCs, Steps
    <3> PICK g, u : g = call[n].group /\ u = call[n].user
      OBVIOUS
    <3>2. /\ GroupRequestRow(n) \in Master("groupRequest")'
          /\ GroupRequestRow(n).group = g /\ GroupRequestRow(n).from = u
      BY <2>2, <1>t, InsertEffect DEF GroupRequestRow
    <3>4. AppliedTo(g, u)'
      BY <3>2 DEF AppliedTo
    <3>3. Held(n)'
      BY <3>1, <3>4 DEF Held
    <3> QED BY <3>1, <3>3, <1>o
  <2> QED BY <1>12, <2>1, <2>2 DEF InsertGroupRequest
<1>13. ASSUME NEW n \in Calls, AcceptMember(n) PROVE Kept'
  <2>1. call'[n].op = "acceptGroup" /\ \A m \in Calls \ {n} : call'[m] = call[m]
    BY <1>13, <1>t, GotoEffect DEF AcceptMember, At, PCs, Steps
  <2> QED BY <2>1, <1>o DEF Held
<1>14. ASSUME NEW n \in Calls, Notify(n) PROVE Kept'
  BY <1>14, <1>a DEF Notify, Kept, Earned
<1>15. ASSUME NEW n \in Calls, Refuse(n) PROVE Kept'
  BY <1>15, <1>a DEF Refuse
<1> QED BY <1>0, <1>1, <1>2, <1>3, <1>4, <1>5, <1>6, <1>7, <1>8, <1>9, <1>10, <1>11, <1>12,
           <1>13, <1>14, <1>15 DEF Next, Step

AnswersInv == TypeInv /\ Kept

LEMMA AnswersInit == Init => AnswersInv
BY TypedInit DEF TypeInv, GroupNamed, HasGroup, Init, AnswersInv, Kept, Earned

(* Who was told that he joined, applied or made a group has done so, under *)
(* every interleaving and failure.                                         *)
THEOREM SuccessIsStored == Spec => []AnswersHold
<1>1. AnswersInv => AnswersHold
  BY DEF AnswersInv, Kept, Earned, Held, AnswersHold, Pending
<1>2. AnswersInv /\ [Next]_vars => AnswersInv'
  BY TypeStep, KeptStep DEF AnswersInv
<1> QED BY <1>1, <1>2, AnswersInit, PTL DEF Spec

-------------------------------------------------------------------------------
(* Who announces a member *)

(* A message that tells a group of a new member comes from a JoinGroup     *)
(* that is answered.                                                       *)
Signed ==
    \A m \in notices : m.kind = "joinGroup" =>
        /\ call[m.by].op = "joinGroup" /\ call[m.by].pc = "done" /\ call[m.by].ok
        /\ m.to = call[m.by].other /\ m.about = call[m.by].user /\ m.group = call[m.by].group

(* The calls whose INSERT succeeded: they have told the group or are about *)
(* to do so.                                                               *)
Announced(n) == \E m \in notices : m.by = n /\ m.kind = "joinGroup"
Announcer(n) == call[n].op = "joinGroup" /\ (call[n].pc = "notify" \/ Announced(n))
OneAnnouncer ==
    \A m, n \in Calls :
        /\ Announcer(m) /\ Announcer(n)
        /\ call[m].group = call[n].group /\ call[m].user = call[n].user
        => m = n

AnnounceInv == TypeInv /\ Kept /\ Signed /\ OneAnnouncer

LEMMA AnnouncerIsMember ==
    ASSUME TypeInv, Kept, Signed, NEW n \in Calls, Announcer(n)
    PROVE  IsMember(call[n].group, call[n].user)
BY DEF Announcer, Announced, Signed, Kept, Earned, Held

(* A call before its notification has announced nothing. *)
LEMMA StillSilent ==
    ASSUME Signed, NEW n \in Calls, call[n].pc # "done"
    PROVE  ~Announced(n)
BY DEF Signed, Announced

(* What a call is about stays, and no step but a JoinGroup's INSERT makes  *)
(* a call announce.                                                        *)
Silent(n) ==
    Announcer(n)' => /\ Announcer(n)
                     /\ call'[n].user = call[n].user /\ call'[n].group = call[n].group

LEMMA SilentOther ==
    ASSUME NEW n \in Calls, call'[n] = call[n], notices' = notices
    PROVE  Silent(n)
BY DEF Silent, Announcer, Announced

LEMMA SignedStep ==
    ASSUME TypeInv, Signed, notices' = notices,
           \A n \in Calls : call'[n] = call[n] \/ call[n].pc # "done"
    PROVE  Signed'
<1>1. \A m \in notices : m.by \in Calls
  BY TypeFacts DEF Notices
<1> QED BY <1>1 DEF Signed

LEMMA AnnounceStep == AnnounceInv /\ [Next]_vars => AnnounceInv'
<1> SUFFICES ASSUME AnnounceInv, [Next]_vars PROVE AnnounceInv'
  OBVIOUS
<1>i. TypeInv /\ Kept /\ Signed /\ OneAnnouncer /\ TypeInv' /\ Kept'
  BY TypeStep, KeptStep DEF AnnounceInv
<1>t. call \in [Calls -> CallRecords] /\ notices \in SUBSET Notices
  BY <1>i, TypeFacts
<1>s. SUFFICES Signed' /\ OneAnnouncer'
  BY <1>i DEF AnnounceInv
<1>q. ASSUME Signed', \A n \in Calls : Silent(n)
      PROVE  Signed' /\ OneAnnouncer'
  BY <1>q, <1>i DEF OneAnnouncer, Silent
(* Steps of a call that neither was at its notification nor comes to it.   *)
<1>n. ASSUME NEW n \in Calls, call[n].pc \notin {"done", "notify"}, notices' = notices,
             \A m \in Calls \ {n} : call'[m] = call[m],
             call'[n].op # "joinGroup" \/ call'[n].pc # "notify"
      PROVE  Signed' /\ OneAnnouncer'
  <2>1. Signed'
    BY <1>n, <1>i, SignedStep
  <2>2. ~Announced(n)
    BY <1>n, <1>i, StillSilent
  <2>3. ~Announcer(n)'
    BY <1>n, <2>2 DEF Announcer, Announced
  <2>4. \A m \in Calls : Silent(m)
    BY <1>n, <2>3, SilentOther DEF Silent
  <2> QED BY <2>1, <2>4, <1>q
<1>1. CASE UNCHANGED vars
  BY <1>1, <1>i, <1>q, SignedStep, SilentOther DEF vars
<1>2. CASE GoDown
  <2>1. \A n \in Calls : call'[n] = call[n] \/ call[n].pc # "done"
    BY <1>2, <1>t, DownEffect DEF InCall, Steps
  <2>2. notices' = notices
    BY <1>2, <1>t, DownEffect
  <2>3. \A n \in Calls : Silent(n)
    BY <1>2, <2>2, <1>t, DownEffect DEF Silent, Announcer, Announced, InCall, Steps
  <2> QED BY <2>1, <2>2, <2>3, <1>i, <1>q, SignedStep
<1>3. ASSUME NEW n \in Calls, Ask(n) PROVE Signed' /\ OneAnnouncer'
  BY <1>3, <1>t, <1>n, AskEffect DEF FirstStep
<1>4. ASSUME NEW n \in Calls, FriendStep(n) PROVE Signed' /\ OneAnnouncer'
  <2>1. call[n].pc \notin {"done", "notify"}
    BY <1>4 DEF FriendStep, CheckRequest, InsertRequest, Befriend, Refuse, At
  <2> QED BY <1>4, <1>i, <2>1, <1>n, FriendStepEffect
<1>5. ASSUME NEW n \in Calls, GroupStep(n), call[n].op # "joinGroup"
      PROVE  Signed' /\ OneAnnouncer'
  <2>1. call[n].pc \notin {"done", "notify"}
    BY <1>5 DEF GroupStep, InsertGroup, InsertOwner, FinishGroup, InsertInitial, CheckMember,
                Join, InsertGroupRequest, AcceptMember, At
  <2> QED BY <1>5, <1>i, <2>1, <1>n, GroupStepEffect
<1>6. ASSUME NEW n \in Calls, CheckMember(n) PROVE Signed' /\ OneAnnouncer'
  <2>1. /\ call'[n].pc # "notify" /\ notices' = notices
        /\ \A m \in Calls \ {n} : call'[m] = call[m]
    <3>1. CASE Goto(n, "insert")
      BY <1>6, <3>1, <1>t, GotoEffect DEF CheckMember, PCs, Steps
    <3>2. CASE \E ok \in BOOLEAN : Answer(n, ok)
      BY <1>6, <3>2, <1>t, AnswerEffect DEF CheckMember
    <3> QED BY <1>6, <3>1, <3>2 DEF CheckMember
  <2> QED BY <1>6, <2>1, <1>n DEF CheckMember
<1>7. ASSUME NEW n \in Calls, Join(n) PROVE Signed' /\ OneAnnouncer'
  <2>0. call[n].pc = "insert" /\ call[n].op = "joinGroup" /\ notices' = notices
    BY <1>7 DEF Join, At
  <2>1. CASE AddMember(call[n].group, call[n].user, 1) /\ Goto(n, "notify")
    <3>1. /\ call'[n].user = call[n].user /\ call'[n].group = call[n].group
          /\ \A m \in Calls \ {n} : call'[m] = call[m]
      BY <2>1, <1>t, GotoEffect DEF PCs, Steps
    <3>2. Signed'
      BY <2>0, <3>1, <1>i, SignedStep
    <3>3. ASSUME NEW m \in Calls \ {n}, Announcer(m)'
          PROVE  call'[m].group # call'[n].group \/ call'[m].user # call'[n].user
      <4>1. Announcer(m) /\ call'[m].user = call[m].user /\ call'[m].group = call[m].group
        BY <2>0, <3>1, <3>3, SilentOther DEF Silent
      <4>2. IsMember(call[m].group, call[m].user)
        BY <4>1, <1>i, AnnouncerIsMember
      <4>3. ~IsMember(call[n].group, call[n].user)
        BY <2>1 DEF AddMember
      <4> QED BY <3>1, <4>1, <4>2, <4>3
    <3>4. \A m \in Calls \ {n} : Silent(m)
      BY <2>0, <3>1, SilentOther
    <3>5. OneAnnouncer'
      BY <3>3, <3>4, <1>i DEF OneAnnouncer, Silent
    <3> QED BY <3>2, <3>5
  <2>2. CASE \E ok \in BOOLEAN : Answer(n, ok)
    BY <2>0, <2>2, <1>t, <1>n, AnswerEffect
  <2> QED BY <1>7, <2>1, <2>2 DEF Join
<1>8. ASSUME NEW n \in Calls, Notify(n) PROVE Signed' /\ OneAnnouncer'
  <2>0. /\ call[n].pc = "notify" /\ call'[n].pc = "done" /\ call'[n].ok
        /\ call'[n].op = call[n].op /\ call'[n].user = call[n].user
        /\ call'[n].other = call[n].other /\ call'[n].group = call[n].group
        /\ \A m \in Calls \ {n} : call'[m] = call[m]
    BY <1>8, <1>t, AnswerEffect DEF Notify
  <2>1. \A a \in notices' : a \in notices \/
            (/\ a.by = n /\ a.kind = call[n].op /\ a.about = call[n].user
             /\ a.group = call[n].group /\ a.to \in Recipients(n))
    BY <1>8 DEF Notify
  <2>2. call[n].op = "joinGroup" => Recipients(n) = {call[n].other}
    BY DEF Recipients
  <2>3. \A a \in notices : a.kind = "joinGroup" => a.by # n /\ a.by \in Calls
    BY <2>0, <1>i, <1>t DEF Signed, Notices
  <2>4. ASSUME NEW a \in notices', a.kind = "joinGroup"
        PROVE  /\ call'[a.by].op = "joinGroup" /\ call'[a.by].pc = "done" /\ call'[a.by].ok
               /\ a.to = call'[a.by].other /\ a.about = call'[a.by].user
               /\ a.group = call'[a.by].group
    <3>1. CASE a \in notices
      BY <2>0, <2>3, <2>4, <3>1, <1>i DEF Signed
    <3>2. CASE a \notin notices
      BY <2>0, <2>1, <2>2, <2>4, <3>2
    <3> QED BY <3>1, <3>2
  <2>5. Signed'
    BY <2>4 DEF Signed
  <2>6. ASSUME NEW m \in Calls PROVE Silent(m)
    <3>1. CASE m = n
      BY <2>0, <3>1 DEF Silent, Announcer
    <3>2. CASE m # n
      BY <2>0, <2>1, <3>2 DEF Silent, Announcer, Announced
    <3> QED BY <3>1, <3>2
  <2> QED BY <2>5, <2>6, <1>q
<1>9. ASSUME NEW n \in Calls, GroupStep(n), call[n].op = "joinGroup"
      PROVE  CheckMember(n) \/ Join(n)
  BY <1>9 DEF GroupStep, InsertGroup, InsertOwner, FinishGroup, InsertInitial,
              InsertGroupRequest, AcceptMember, At
<1> QED BY <1>1, <1>2, <1>3, <1>4, <1>5, <1>6, <1>7, <1>8, <1>9, NextKinds

(* A group hears of a new member once, and only of one it has. *)
THEOREM JoinAnnouncedOnce == Spec => []AnnouncedOnce
<1>1. Init => AnnounceInv
  BY AnswersInit DEF AnswersInv, AnnounceInv, Signed, OneAnnouncer, Announcer, Announced, Init
<1>2. ASSUME AnnounceInv PROVE AnnouncedOnce
  <2>0. TypeInv /\ Kept /\ Signed /\ OneAnnouncer /\ \A m \in notices : m.by \in Calls
    BY <1>2, TypeFacts DEF AnnounceInv, Notices
  <2>1. ASSUME NEW a \in notices, a.kind = "joinGroup"
        PROVE  /\ Announcer(a.by) /\ a.by \in Calls
               /\ a.to = call[a.by].other /\ a.about = call[a.by].user
               /\ a.group = call[a.by].group
    BY <2>0, <2>1 DEF Signed, Announcer, Announced
  <2>2. \A a \in notices : a.kind = "joinGroup" => IsMember(a.group, a.about)
    BY <2>0, <2>1, AnnouncerIsMember
  <2>3. ASSUME NEW a \in notices, NEW b \in notices, a.kind = "joinGroup", b.kind = "joinGroup",
               b.group = a.group, b.about = a.about
        PROVE  a = b
    <3>1. a.by = b.by
      BY <2>0, <2>1, <2>3 DEF OneAnnouncer
    <3>2. a.to = b.to
      BY <2>1, <2>3, <3>1
    <3> QED BY <3>1, <3>2, <2>3, <1>2, TypeFacts DEF Notices, AnnounceInv
  <2> QED BY <2>2, <2>3 DEF AnnouncedOnce
<1> QED BY <1>1, <1>2, AnnounceStep, PTL DEF Spec

-------------------------------------------------------------------------------
(* Requests and who is told of them *)

LEMMA ToldStep == TypeInv /\ Kept /\ ToldOfRequests /\ [Next]_vars => ToldOfRequests'
<1> SUFFICES ASSUME TypeInv, Kept, ToldOfRequests, [Next]_vars,
                    NEW m \in notices'
             PROVE  /\ (m.kind = "applyFriend" => PendingAt(m.about, m.to, Len(binlog)))'
                    /\ (m.kind = "applyGroup" =>
                           /\ AppliedTo(m.group, m.about)
                           /\ [id |-> m.group, owner |-> m.to] \in Master("group"))'
  BY DEF ToldOfRequests
<1>t. call \in [Calls -> CallRecords] /\ binlog \in Seq(Commits)
  BY TypeFacts
<1>1. /\ \A u, v : Pending(u, v) => Pending(u, v)'
      /\ \A g, u : AppliedTo(g, u) => AppliedTo(g, u)'
      /\ Master("group") \subseteq Master("group")'
  BY <1>t, TablesGrow, PendingRow DEF AppliedTo
<1>2. CASE m \in notices
  BY <1>1, <1>2 DEF ToldOfRequests, Pending
<1>3. CASE m \notin notices
  <2>1. PICK n \in Calls : Notify(n)
    <3>1. ASSUME NEW n \in Calls, Ask(n) \/ FriendStep(n) \/ GroupStep(n)
          PROVE  notices' = notices
      BY <3>1, <1>t, AskEffect, FriendStepEffect, GroupStepEffect
    <3> QED BY <1>3, <3>1, NextKinds DEF vars, GoDown
  <2>2. /\ m.kind = call[n].op /\ m.about = call[n].user /\ m.group = call[n].group
        /\ m.to \in Recipients(n)
    BY <1>3, <2>1 DEF Notify
  <2>3. Held(n)
    BY <2>1 DEF Notify, Kept, Earned
  <2>4. CASE call[n].op = "applyFriend"
    BY <1>1, <2>2, <2>3, <2>4 DEF Held, Recipients, Pending
  <2>5. CASE call[n].op = "applyGroup"
    <3>1. PICK r \in Master("group") : r.id = call[n].group /\ r.owner = m.to
      BY <2>2, <2>5 DEF Recipients
    <3>2. r = [id |-> m.group, owner |-> m.to]
      BY <1>t, <2>2, <3>1, TableTypes DEF GroupRows
    <3> QED BY <1>1, <2>2, <2>3, <2>5, <3>1, <3>2 DEF Held
  <2> QED BY <2>2, <2>4, <2>5
<1> QED BY <1>2, <1>3

(* Whoever is told of a request can find it, and it is the owner who is    *)
(* told of one to join his group, whatever fails.                          *)
THEOREM RequestsCanBeFound == Spec => []ToldOfRequests
<1>1. Init => AnswersInv /\ ToldOfRequests
  BY AnswersInit DEF Init, ToldOfRequests
<1>2. AnswersInv /\ ToldOfRequests /\ [Next]_vars => (AnswersInv /\ ToldOfRequests)'
  BY TypeStep, KeptStep, ToldStep DEF AnswersInv
<1> QED BY <1>1, <1>2, PTL DEF Spec

-------------------------------------------------------------------------------
(* Groups and their owners *)

OwnerRow(m) == [id |-> m.group, owner |-> m.user]
OwnersMade == \A m \in Master("member") : m.role = 2 => OwnerRow(m) \in Master("group")
OwnersInv == TypeInv /\ Kept /\ OwnersMade /\ OwnersOwn

(* Only CreateGroup's first member gets the owner's role. *)
LEMMA OwnersMadeStep == TypeInv /\ Kept /\ OwnersMade /\ [Next]_vars => OwnersMade'
<1> SUFFICES ASSUME TypeInv, Kept, OwnersMade, [Next]_vars PROVE OwnersMade'
  OBVIOUS
<1>t. call \in [Calls -> CallRecords] /\ binlog \in Seq(Commits)
  BY TypeFacts
<1>g. Master("group") \subseteq Master("group")'
  BY <1>t, TablesGrow
<1>m. Master("member")' = Master("member") => OwnersMade'
  BY <1>g DEF OwnersMade, OwnerRow
<1>s. UNCHANGED storeVars => OwnersMade'
  BY <1>m, SameTables
<1>a. ASSUME NEW g, NEW u, NEW role \in {1, 2}, Insert("member", [group |-> g, user |-> u, role |-> role]),
             role = 1 \/ [id |-> g, owner |-> u] \in Master("group")
      PROVE  OwnersMade'
  <2>1. Master("member")' = Master("member") \cup {[group |-> g, user |-> u, role |-> role]}
    BY <1>a, <1>t, InsertEffect
  <2>2. ASSUME NEW m \in Master("member")', m.role = 2 PROVE OwnerRow(m) \in Master("group")
    BY <1>a, <2>1, <2>2 DEF OwnersMade, OwnerRow
  <2> QED BY <2>2, <1>g DEF OwnersMade, OwnerRow
<1>1. CASE UNCHANGED vars \/ GoDown
  BY <1>1, <1>s DEF vars, GoDown
<1>2. ASSUME NEW n \in Calls, Ask(n) \/ Notify(n) PROVE OwnersMade'
  BY <1>2, <1>s, <1>t, AskEffect DEF Notify
<1>3. ASSUME NEW n \in Calls, FriendStep(n) PROVE OwnersMade'
  BY <1>3, <1>m, FriendStepEffect
<1>b. ASSUME NEW n \in Calls, NEW u, NEW role \in {1, 2}, TryAddMember(n, u, role),
             role = 1 \/ [id |-> call[n].group, owner |-> u] \in Master("group")
      PROVE  OwnersMade'
  <2> PICK g : g = call[n].group
    OBVIOUS
  <2>1. \/ Insert("member", [group |-> g, user |-> u, role |-> role])
        \/ UNCHANGED storeVars
    BY <1>b, <1>t, TryAddEffect
  <2> QED BY <1>b, <2>1, <1>a, <1>s
<1>4. ASSUME NEW n \in Calls, InsertOwner(n) PROVE OwnersMade'
  <2>1. [id |-> call[n].group, owner |-> call[n].user] \in Master("group")
    BY <1>4 DEF InsertOwner, At, Kept, Earned, Held
  <2>2. TryAddMember(n, call[n].user, 2)
    BY <1>4 DEF InsertOwner
  <2> QED BY <2>1, <2>2, <1>b
<1>5. ASSUME NEW n \in Calls, NEW u \in Users, InsertInitial(n, u) PROVE OwnersMade'
  BY <1>5, <1>b DEF InsertInitial
<1>6. ASSUME NEW n \in Calls, Join(n) \/ AcceptMember(n) PROVE OwnersMade'
  <2>1. CASE AcceptMember(n)
    BY <2>1, <1>b DEF AcceptMember
  <2>2. CASE Join(n)
    <3>1. \/ AddMember(call[n].group, call[n].user, 1)
          \/ UNCHANGED storeVars
      BY <2>2 DEF Join
    <3>2. CASE AddMember(call[n].group, call[n].user, 1)
      <4>1. TryAddMember(n, call[n].user, 1)
        BY <3>2 DEF TryAddMember
      <4> QED BY <4>1, <1>b
    <3> QED BY <3>1, <3>2, <1>s
  <2> QED BY <1>6, <2>1, <2>2
<1>7. ASSUME NEW n \in Calls,
             InsertGroup(n) \/ FinishGroup(n) \/ CheckMember(n) \/ InsertGroupRequest(n)
      PROVE  OwnersMade'
  <2>1. \/ UNCHANGED storeVars
        \/ Insert("group", GroupRow(n)) \/ Insert("groupRequest", GroupRequestRow(n))
    BY <1>7 DEF InsertGroup, FinishGroup, CheckMember, InsertGroupRequest, Fails
  <2> QED BY <2>1, <1>m, <1>s, <1>t, InsertEffect
<1> QED BY <1>1, <1>2, <1>3, <1>4, <1>5, <1>6, <1>7, NextKinds DEF GroupStep

(* On every prefix of the log *)
LEMMA OwnersStep == OwnersInv /\ [Next]_vars => OwnersInv'
<1> SUFFICES ASSUME OwnersInv, [Next]_vars PROVE OwnersInv'
  OBVIOUS
<1>1. TypeInv' /\ Kept' /\ OwnersMade' /\ binlog \in Seq(Commits)
  BY TypeStep, KeptStep, OwnersMadeStep, TypeFacts DEF OwnersInv
<1>g. /\ \A k \in Positions : \A t : Rows(t, k)' = Rows(t, k)
      /\ \A k \in Positions' \ Positions : \A t : Rows(t, k)' = Master(t)'
  BY <1>1, TablesGrow
<1>2. ASSUME NEW k \in Positions', NEW m \in Rows("member", k)', m.role = 2
      PROVE  OwnerRow(m) \in Rows("group", k)'
  <2>1. CASE k \in Positions
    BY <1>2, <1>g, <2>1 DEF OwnersInv, OwnersOwn, OwnerRow
  <2>2. CASE k \notin Positions
    BY <1>1, <1>2, <1>g, <2>2 DEF OwnersMade, OwnerRow
  <2> QED BY <2>1, <2>2
<1> QED BY <1>1, <1>2 DEF OwnersInv, OwnersOwn, OwnerRow

(* No server shows an owner of a group that is not his, whatever fails and *)
(* whoever joined the group before it was made.                            *)
THEOREM OwnersAreOwners == Spec => []OwnersOwn
<1>1. Init => OwnersInv
  <2> SUFFICES ASSUME Init PROVE OwnersInv
    OBVIOUS
  <2>1. Positions = {0} /\ \A t : Rows(t, 0) = {} /\ Master(t) = {}
    BY DEF Init, Rows, Master, Positions
  <2> QED BY <2>1, AnswersInit DEF AnswersInv, OwnersInv, OwnersMade, OwnersOwn
<1>2. OwnersInv => OwnersOwn
  BY DEF OwnersInv
<1> QED BY <1>1, <1>2, OwnersStep, PTL DEF Spec
===============================================================================
