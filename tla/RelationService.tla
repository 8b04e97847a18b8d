--------------------------- MODULE RelationService ----------------------------
(***************************************************************************)
(* Friends and groups: the calls of the relation service, user_server/     *)
(* relation_service_impl.cpp, as the gateway makes them for its sessions   *)
(* (websocket_session.cpp lines 170-246).  No call looks at what another   *)
(* one left: a client may accept a friend who never applied, and join a    *)
(* group before it exists, as the scenarios of the web client do.          *)
(*                                                                         *)
(* A call is a series of SQL statements on one connection to the master,   *)
(* each committed by itself, and a call of the chat service at the end.    *)
(* Each is a step: other calls move in between, and the whole server may   *)
(* go down, since most calls use their connection without looking whether  *)
(* they got one.  GetFriendList and GetGroupList read a slave.  No call    *)
(* depends on how far the slaves of MessageStore have got, so they stand   *)
(* still here, and what a slave shows is stated for each position k it may *)
(* have in the log.                                                        *)
(***************************************************************************)
EXTENDS MessageStore

CONSTANTS
    Users,
    MaxCalls,           \* bound on the calls of a behaviour
    MaxOf,              \* MaxOf[op]: bound on those of each kind
    GroupNumbers,       \* the groups clients name, existing or not
    Failing,            \* the steps, <<call, step>>, that may fail
    NoConnections       \* may a call get no connection to the master?

VARIABLES
    call,               \* the calls
    notices             \* the messages the chat service was asked to send

vars == <<storeVars, call, notices>>

Calls == 1..MaxCalls
Ids == Nat \ {0}
NoGroup == 0
Ops == {"applyFriend", "acceptFriend", "createGroup", "joinGroup",
        "applyGroup", "acceptGroup"}
Steps == {"check", "insert", "owner", "members", "notify"}

ASSUME UsersAssumption == Users # {}
ASSUME MaxCallsAssumption == MaxCalls \in Nat /\ MaxOf \in [Ops -> Nat]
ASSUME FailingAssumption == Failing \subseteq Ops \X Steps
ASSUME GroupNumbersAssumption == GroupNumbers \subseteq Ids
ASSUME RelationSwitches == NoConnections \in BOOLEAN

(***************************************************************************)
(* The rows of sql/init.sql: im_friend_request and im_group_request (whose *)
(* status stays 0, pending), im_relation, im_group and im_group_member.    *)
(* Role 2 is the owner's.                                                  *)
(***************************************************************************)
FriendRequests == [id : Ids, from : Users, to : Users]
GroupRequests == [id : Ids, group : Ids, from : Users]
Relations == [user : Users, friend : Users]
GroupRows == [id : Ids, owner : Users]
MemberRows == [group : Ids, user : Users, role : {1, 2}]

Commits ==
    [table : {"friendRequest"}, rows : SUBSET FriendRequests]
    \cup [table : {"groupRequest"}, rows : SUBSET GroupRequests]
    \cup [table : {"relation"}, rows : SUBSET Relations]
    \cup [table : {"group"}, rows : SUBSET GroupRows]
    \cup [table : {"member"}, rows : SUBSET MemberRows]

IsMember(g, u) == \E r \in Master("member") : r.group = g /\ r.user = u

(* The fault: numbers begin with 0 *)
NextIdFromZero(table) == Cardinality(Master(table))

(* AUTO_INCREMENT *)
NextId(table) == Cardinality(Master(table)) + 1

(***************************************************************************)
(* A call: what it is, its next step, who makes it, the other user and the *)
(* group it names, the initial members still to insert, and its answer.    *)
(* A call that is "lost" was never answered.                               *)
(***************************************************************************)
CallRecords == [op : Ops, pc : Steps \cup {"unused", "done", "lost"}, user : Users,
                other : Users, group : Ids \cup {NoGroup},
                rest : SUBSET Users, ok : BOOLEAN]

(* A message: the call that sends it, of what kind that is, who gets it    *)
(* (for "joinGroup", the group), which user and group it is about.         *)
Notices == [by : Calls, kind : Ops, to : Users, about : Users,
            group : Ids \cup {NoGroup}]

User0 == CHOOSE u \in Users : TRUE

Init ==
    /\ binlog = <<>>
    /\ applied = [s \in Slaves |-> 0]
    /\ call = [n \in Calls |-> [op |-> "applyFriend", pc |-> "unused", user |-> User0,
                                other |-> User0, group |-> NoGroup, rest |-> {}, ok |-> FALSE]]
    /\ notices = {}

-------------------------------------------------------------------------------
(* What GetFriendList answers from the first k commits (lines 113-132) *)
FriendList(u, k) == {r.friend : r \in {x \in Rows("relation", k) : x.user = u}}

InCall(n) == call[n].pc \in Steps

(* No one can add oneself (ApplyFriend lines 18-22). *)
FirstStep(op, user, other) ==
    IF op = "applyFriend" /\ user = other THEN "done"
    ELSE IF op \in {"applyFriend", "joinGroup", "applyGroup"} THEN "check" ELSE "insert"

(***************************************************************************)
(* The gateway passes a request on, with the user of its session.  It has  *)
(* one call of a session under way at a time, but a user has several       *)
(* sessions.                                                               *)
(***************************************************************************)
Begin(n, op, user, other, g, members) ==
    /\ Cardinality({m \in 1..n-1 : call[m].op = op}) < MaxOf[op]
    /\ call' = [call EXCEPT ![n] =
           [op |-> op, pc |-> FirstStep(op, user, other), user |-> user, other |-> other,
            group |-> g, rest |-> members \ {user}, ok |-> FALSE]]
    /\ UNCHANGED <<storeVars, notices>>

-------------------------------------------------------------------------------
At(n, op, pc) == call[n].op = op /\ call[n].pc = pc
MayFail(n) == <<call[n].op, call[n].pc>> \in Failing

Goto(n, pc) == call' = [call EXCEPT ![n].pc = pc]
Answer(n, ok) == call' = [call EXCEPT ![n].pc = "done", ![n].ok = ok]

Insert(table, row) == Commit(table, {row}) /\ UNCHANGED applied

(* A statement that fails had no effect, or its answer got lost. *)
Fails(n, table, row) == MayFail(n) /\ (UNCHANGED storeVars \/ Insert(table, row))

FriendRow(n) == [id |-> NextId("friendRequest"), from |-> call[n].user, to |-> call[n].other]
AppliedTo(g, u) == \E r \in Master("groupRequest") : r.group = g /\ r.from = u
PendingAt(from, to, k) == \E r \in Rows("friendRequest", k) : r.from = from /\ r.to = to

(* ApplyFriend asks whether a request is pending and goes on if the        *)
(* question fails (lines 31-43) ...                                        *)
CheckRequest(n) ==
    /\ At(n, "applyFriend", "check")
    /\ \/ PendingAt(call[n].user, call[n].other, Len(binlog)) /\ Answer(n, FALSE)
       \/ /\ MayFail(n) \/ ~PendingAt(call[n].user, call[n].other, Len(binlog))
          /\ Goto(n, "insert")
    /\ UNCHANGED <<storeVars, notices>>

(* The fault: the friend is told in any case *)
InsertRequestAndGoOn(n) ==
    /\ At(n, "applyFriend", "insert")
    /\ Fails(n, "friendRequest", FriendRow(n)) \/ Insert("friendRequest", FriendRow(n))
    /\ Goto(n, "notify")
    /\ UNCHANGED notices

(* ... and if not, makes one (lines 45-53). *)
InsertRequest(n) ==
    /\ At(n, "applyFriend", "insert")
    /\ \/ Fails(n, "friendRequest", FriendRow(n)) /\ Answer(n, FALSE)
       \/ Insert("friendRequest", FriendRow(n)) /\ Goto(n, "notify")
    /\ UNCHANGED notices

(* The fault: the one who accepts gets a friend, the other does not *)
BefriendOneWay(n) ==
    /\ At(n, "acceptFriend", "insert")
    /\ Insert("relation", [user |-> call[n].user, friend |-> call[n].other])
    /\ Goto(n, "notify")
    /\ UNCHANGED notices

(* AcceptFriend: INSERT IGNORE of both rows, in one statement (lines       *)
(* 81-90), whether or not the other has applied.  Rows that are there      *)
(* already are left out; an error is only logged.                          *)
Befriend(n) ==
    LET u == call[n].user
        v == call[n].other
    IN  /\ At(n, "acceptFriend", "insert")
        /\ \/ MayFail(n) /\ UNCHANGED storeVars
           \/ /\ Commit("relation", {[user |-> u, friend |-> v], [user |-> v, friend |-> u]})
              /\ UNCHANGED applied
        /\ Goto(n, "notify")
        /\ UNCHANGED notices

GroupRow(n) == [id |-> NextId("group"), owner |-> call[n].user]

(* CreateGroup: the group (lines 140-145), ... *)
InsertGroup(n) ==
    /\ At(n, "createGroup", "insert")
    /\ \/ Fails(n, "group", GroupRow(n)) /\ Answer(n, FALSE)
       \/ /\ Insert("group", GroupRow(n))
          /\ call' = [call EXCEPT ![n].pc = "owner", ![n].group = NextId("group")]
    /\ UNCHANGED notices

(***************************************************************************)
(* INSERT INTO im_group_member, which fails if the unique key uk_group_user*)
(* has the row (error 1062): nothing keeps a group that is yet to be made  *)
(* from having members.                                                    *)
(***************************************************************************)
AddMember(g, u, role) ==
    ~IsMember(g, u) /\ Insert("member", [group |-> g, user |-> u, role |-> role])
TryAddMember(n, u, role) ==
    \/ AddMember(call[n].group, u, role)
    \/ (MayFail(n) \/ IsMember(call[n].group, u)) /\ UNCHANGED storeVars

(* The fault: the group made last is taken for this call's *)
InsertOwnerOfLatest(n) ==
    LET g == Cardinality(Master("group"))
    IN  /\ At(n, "createGroup", "owner")
        /\ \/ AddMember(g, call[n].user, 2)
           \/ (MayFail(n) \/ IsMember(g, call[n].user)) /\ UNCHANGED storeVars
        /\ Goto(n, "members")
        /\ UNCHANGED notices

(* ... its owner (lines 147-151), ... *)
InsertOwner(n) ==
    /\ At(n, "createGroup", "owner")
    /\ TryAddMember(n, call[n].user, 2)
    /\ Goto(n, "members")
    /\ UNCHANGED notices

(* ... and the other initial members, one by one (lines 153-158).  No      *)
(* error keeps it from answering success (lines 160-162).                  *)
InsertInitial(n, u) ==
    /\ At(n, "createGroup", "members")
    /\ u \in call[n].rest
    /\ TryAddMember(n, u, 1)
    /\ call' = [call EXCEPT ![n].rest = @ \ {u}]
    /\ UNCHANGED notices

FinishGroup(n) ==
    /\ At(n, "createGroup", "members")
    /\ call[n].rest = {}
    /\ Answer(n, TRUE)
    /\ UNCHANGED <<storeVars, notices>>

(* JoinGroup and ApplyGroup: is the user a member already (lines 172-183,  *)
(* 245-257)?  That is a success for the former only.                       *)
CheckMember(n) ==
    /\ call[n].op \in {"joinGroup", "applyGroup"} /\ call[n].pc = "check"
    /\ \/ IsMember(call[n].group, call[n].user) /\ Answer(n, call[n].op = "joinGroup")
       \/ (MayFail(n) \/ ~IsMember(call[n].group, call[n].user)) /\ Goto(n, "insert")
    /\ UNCHANGED <<storeVars, notices>>

(* The fault: a duplicate is announced like a new member *)
JoinAndAnnounce(n) ==
    /\ At(n, "joinGroup", "insert")
    /\ TryAddMember(n, call[n].user, 1)
    /\ Goto(n, "notify")
    /\ UNCHANGED notices

(* JoinGroup lines 185-195: a duplicate is a success too, but only a new   *)
(* member is announced.                                                    *)
Join(n) ==
    /\ At(n, "joinGroup", "insert")
    /\ \/ AddMember(call[n].group, call[n].user, 1) /\ Goto(n, "notify")
       \/ IsMember(call[n].group, call[n].user) /\ Answer(n, TRUE) /\ UNCHANGED storeVars
       \/ /\ MayFail(n)
          /\ UNCHANGED storeVars \/ AddMember(call[n].group, call[n].user, 1)
          /\ Answer(n, FALSE)
    /\ UNCHANGED notices

GroupRequestRow(n) ==
    [id |-> NextId("groupRequest"), group |-> call[n].group, from |-> call[n].user]

(* ApplyGroup lines 264-271 *)
InsertGroupRequest(n) ==
    /\ At(n, "applyGroup", "insert")
    /\ \/ Fails(n, "groupRequest", GroupRequestRow(n)) /\ Answer(n, FALSE)
       \/ Insert("groupRequest", GroupRequestRow(n)) /\ Goto(n, "notify")
    /\ UNCHANGED notices

(* AcceptGroup lines 308-312: the outcome is not looked at. *)
AcceptMember(n) ==
    /\ At(n, "acceptGroup", "insert")
    /\ TryAddMember(n, call[n].other, 1)
    /\ Goto(n, "notify")
    /\ UNCHANGED notices

(* The fault: all members are told of a request, not the owner alone *)
RecipientsAllMembers(n) ==
    IF call[n].op = "applyGroup"
    THEN {r.user : r \in {x \in Master("member") : x.group = call[n].group}}
    ELSE {call[n].other}

(***************************************************************************)
(* The nested call of ChatService::SendMessage (lines 55-68, 92-101,       *)
(* 197-206, 277-293, 314-320): to the other user, to the group, or to the  *)
(* owner, who is looked up first, if there is one.  Whether it succeeds    *)
(* makes no difference to the answer.                                      *)
(***************************************************************************)
Recipients(n) ==
    IF call[n].op = "applyGroup"
    THEN {r.owner : r \in {x \in Master("group") : x.id = call[n].group}}
    ELSE {call[n].other}

Notify(n) ==
    /\ call[n].pc = "notify"
    /\ \/ notices' = notices \cup
              {[by |-> n, kind |-> call[n].op, to |-> u, about |-> call[n].user,
                group |-> call[n].group] : u \in Recipients(n)}
       \/ MayFail(n) /\ UNCHANGED notices
    /\ Answer(n, TRUE)
    /\ UNCHANGED storeVars

(***************************************************************************)
(* Without a connection ApplyFriend answers an error (lines 24-25); every  *)
(* other call, the lists too, passes a null pointer to mysql_query, which  *)
(* ends the process and with it all calls under way.                       *)
(***************************************************************************)
Refuse(n) ==
    /\ NoConnections
    /\ At(n, "applyFriend", "check")
    /\ Answer(n, FALSE)
    /\ UNCHANGED <<storeVars, notices>>

GoDown ==
    /\ NoConnections
    /\ \E n \in Calls : InCall(n)
    /\ call' = [n \in Calls |-> IF InCall(n) THEN [call[n] EXCEPT !.pc = "lost"] ELSE call[n]]
    /\ UNCHANGED <<storeVars, notices>>

-------------------------------------------------------------------------------
(***************************************************************************)
(* What a client may ask for: any user, any number of a group.  A refusal  *)
(* (accept = false) changes nothing and is left out.                       *)
(***************************************************************************)
Ask(n) ==
    /\ call[n].pc = "unused"
    /\ \A m \in 1..n-1 : call[m].pc # "unused"
    /\ \E user, other \in Users, g \in GroupNumbers :
           \/ \E op \in {"applyFriend", "acceptFriend"} :
                  Begin(n, op, user, other, NoGroup, {})
           \/ \E members \in SUBSET Users :
                  Begin(n, "createGroup", user, user, NoGroup, members)
           \/ \E op \in {"joinGroup", "applyGroup"} : Begin(n, op, user, user, g, {})
           \/ Begin(n, "acceptGroup", user, other, g, {})

Step(n) ==
    \/ CheckRequest(n) \/ InsertRequest(n) \/ Befriend(n)
    \/ InsertGroup(n) \/ InsertOwner(n) \/ FinishGroup(n)
    \/ \E u \in Users : InsertInitial(n, u)
    \/ CheckMember(n) \/ Join(n) \/ InsertGroupRequest(n) \/ AcceptMember(n)
    \/ Notify(n)
    \/ Refuse(n)

Next ==
    \/ \E n \in Calls : Ask(n) \/ Step(n)
    \/ GoDown

Spec == Init /\ [][Next]_vars

-------------------------------------------------------------------------------
Positions == 0..Len(binlog)

(* The tables' rows, the calls and the messages are well formed.           *)
RelationTypeOK ==
    /\ binlog \in Seq(Commits)
    /\ applied \in [Slaves -> Positions]
    /\ call \in [Calls -> CallRecords]
    /\ notices \in SUBSET Notices

(* Friendship is mutual on the master and on every slave, however far it   *)
(* has got: no user sees a friend who does not see him.                    *)
FriendsMutual ==
    \A k \in Positions, u, v \in Users : v \in FriendList(u, k) => u \in FriendList(v, k)

(* A success is in the tables: who was told that he joined is a member,    *)
(* and who was told that he applied, or made a group, has done so, though  *)
(* statements fail and calls race each other for the unique key.  (The     *)
(* success that AcceptFriend and AcceptGroup answer says nothing: they do  *)
(* not look at their INSERT's outcome.)                                    *)
AnswersHold ==
    \A n \in Calls : call[n].pc = "done" /\ call[n].ok =>
        /\ call[n].op = "joinGroup" => IsMember(call[n].group, call[n].user)
        /\ call[n].op = "applyFriend" =>
               PendingAt(call[n].user, call[n].other, Len(binlog))
        /\ call[n].op = "applyGroup" => AppliedTo(call[n].group, call[n].user)
        /\ call[n].op = "createGroup" =>
               [id |-> call[n].group, owner |-> call[n].user] \in Master("group")

(* A group hears at most once that a user joined, and only if it is so:    *)
(* of the calls that find the user missing, the one whose INSERT succeeds  *)
(* announces him.                                                          *)
AnnouncedOnce ==
    \A a \in {m \in notices : m.kind = "joinGroup"} :
        /\ IsMember(a.group, a.about)
        /\ \A b \in notices :
               b.kind = "joinGroup" /\ b.group = a.group /\ b.about = a.about => a = b

(* Whoever is told of a request can find it: a friend is told of one that  *)
(* is stored, and of a request to join a group only its owner is.          *)
ToldOfRequests ==
    \A m \in notices :
        /\ m.kind = "applyFriend" => PendingAt(m.about, m.to, Len(binlog))
        /\ m.kind = "applyGroup" => /\ AppliedTo(m.group, m.about)
                                    /\ [id |-> m.group, owner |-> m.to] \in Master("group")

(* Only a group's owner has the owner's role in it, on the master and on   *)
(* every slave, however many groups are made at once and although members  *)
(* may come before the group.                                              *)
OwnersOwn ==
    \A k \in Positions : \A m \in Rows("member", k) :
        m.role = 2 => [id |-> m.group, owner |-> m.user] \in Rows("group", k)

===============================================================================
