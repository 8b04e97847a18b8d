------------------------------ MODULE ChatServer ------------------------------
(***************************************************************************)
(* chat_server/chat_service_impl.cpp: SendMessage, which stores a message  *)
(* once and writes a row that refers to it into the inbox of every         *)
(* addressee, and the query of SyncMessages, which reads an inbox.         *)
(*                                                                         *)
(* gRPC runs each call on a thread of its own and the calls share nothing  *)
(* but MySQL and Redis.  A handler is such a thread; each of its actions   *)
(* is one statement sent to MySQL, one command sent to Redis or one RPC to *)
(* a gateway, and calls interleave between them.  A statement can fail,    *)
(* and so can a command; what the code then does is part of the action.    *)
(* Returning before the first statement (no database connection, lines     *)
(* 16-19) changes nothing and is a stuttering step.                        *)
(***************************************************************************)
EXTENDS MessageStore

CONSTANTS
    Users,              \* user ids
    Groups,             \* group ids
    Nobody,             \* no user and no group
    Handlers,           \* threads that can be inside SendMessage
    MsgTypes,           \* types of messages that are sent
    Friends,            \* <<u, v>>: im_relation(u, v) has status 1
    InitialMembers,     \* the rows of im_group_member before the first call
    MaxMessages         \* bound on the messages of a behaviour

VARIABLES
    seqCounter,         \* Redis: the counter at im:seq:{uid}
    lastMsgId,          \* the AUTO_INCREMENT of im_message_body
    call,               \* the locals of the call each handler is in
    replies,            \* successful replies sent: [msg, dest, seq]
    precedes            \* history: <<m, n>> if m was answered before n began

serverVars == <<seqCounter, lastMsgId, call, replies, precedes>>
vars == <<storeVars, serverVars>>

-------------------------------------------------------------------------------
Requests == [from : Users, dest : Users \cup Groups, type : MsgTypes]
NoRequest == [from |-> Nobody, dest |-> Nobody, type |-> "text"]
Labels == {"idle", "members", "relation", "incr", "insert", "push", "reply"}

(* Faults: the id of the previous INSERT; a number one too low *)
InboxRowOfPrevious(u, n, m) == [owner |-> u, seq |-> n, msg |-> m - 1]
InboxRowShifted(u, n, m) == [owner |-> u, seq |-> n - 1, msg |-> m]
InboxRow(u, n, m) == [owner |-> u, seq |-> n, msg |-> m]
InboxRows == [owner : Users, seq : Nat, msg : Nat]
BodyRow(m) == [msg |-> m]
BodyRows == [msg : Nat]
MemberRow(g, u) == [group |-> g, user |-> u]
MemberRows == [group : Groups, user : Users]
Owners(rows) == {r.owner : r \in rows}
Members(g, n) == {u \in Users : MemberRow(g, u) \in Rows("member", n)}

ASSUME UsersAreNotGroups == Users \cap Groups = {}
(* "system" stands for the types 3 and 4, exempt from the friendship check *)
ASSUME TypesAssumption == MsgTypes \subseteq {"text", "system"}
ASSUME NobodyAssumption == Nobody \notin Users \cup Groups
ASSUME MembersAssumption == InitialMembers \subseteq MemberRows
ASSUME MaxMessagesAssumption == MaxMessages \in Nat

(***************************************************************************)
(* A call: the statement it executes next, the request, the id its body    *)
(* got, the users its current loop has still to visit and the rows of the  *)
(* INSERT it is building.  They are gone when the call returns.            *)
(***************************************************************************)
Calls == [pc : Labels, req : Requests \cup {NoRequest}, msg : Nat,
          todo : SUBSET Users, batch : SUBSET InboxRows]
NoCall == [pc |-> "idle", req |-> NoRequest, msg |-> 0, todo |-> {}, batch |-> {}]

ToGroup(h) == call[h].req.dest \in Groups
MayDeliver(r) == <<r.from, r.dest>> \in Friends \/ r.type = "system"

At(h, label) == call[h].pc = label
Continue(h, label, users) ==
    call' = [call EXCEPT ![h].pc = label, ![h].todo = users]
Return(h) == call' = [call EXCEPT ![h] = NoCall]

Init ==
    /\ binlog = << [table |-> "member", rows |-> InitialMembers] >>
    /\ applied = [s \in Slaves |-> 1]
    /\ seqCounter = [u \in Users |-> 0]
    /\ lastMsgId = 0
    /\ call = [h \in Handlers |-> NoCall]
    /\ replies = {}
    /\ precedes = {}

(***************************************************************************)
(* The call begins and the message body is inserted (lines 21-42).  When   *)
(* that INSERT fails the call returns and has changed nothing.             *)
(***************************************************************************)
StoreBody(h, r) ==
    /\ At(h, "idle")
    /\ lastMsgId < MaxMessages
    /\ lastMsgId' = lastMsgId + 1
    /\ Commit("body", {BodyRow(lastMsgId')})
    /\ call' = [call EXCEPT ![h] =
           [pc |-> IF r.dest \in Groups THEN "members" ELSE "relation",
            req |-> r, msg |-> lastMsgId', todo |-> {}, batch |-> {}]]
    /\ precedes' = precedes \cup ({a.msg : a \in replies} \X {lastMsgId'})
    /\ UNCHANGED <<applied, seqCounter, replies>>

(* The body is stored, but the server's answer to the INSERT is lost: the  *)
(* call fails (lines 39-42) and leaves a body nothing refers to.           *)
LoseBody ==
    /\ lastMsgId < MaxMessages
    /\ lastMsgId' = lastMsgId + 1
    /\ Commit("body", {BodyRow(lastMsgId')})
    /\ UNCHANGED <<applied, seqCounter, call, replies, precedes>>

(***************************************************************************)
(* Lines 48-70: the members of the group as the read connection sees them; *)
(* none when the query fails.  Without members the call succeeds at once.  *)
(***************************************************************************)
GetMembers(h) ==
    /\ At(h, "members")
    /\ \E found \in {Members(call[h].req.dest, n) : n \in ReadPositions} \cup {{}} :
           Continue(h, IF found = {} THEN "reply" ELSE "incr", found)
    /\ UNCHANGED <<storeVars, seqCounter, lastMsgId, replies, precedes>>

(***************************************************************************)
(* Lines 155-179: a message between users who are not friends is refused,  *)
(* and its body stays.  A query that fails counts as not being friends.    *)
(***************************************************************************)
CheckRelation(h) ==
    /\ At(h, "relation")
    /\ \/ /\ MayDeliver(call[h].req)
          /\ Continue(h, "incr", {call[h].req.dest})
       \/ /\ call[h].req.type # "system"
          /\ Return(h)
    /\ UNCHANGED <<storeVars, seqCounter, lastMsgId, replies, precedes>>

(* Redis INCR; the fault: the counter has expired and starts again *)
IncrExpired(n) == 1
Incr(n) == n + 1

(* The fault: the number is drawn from the sender's counter *)
AllocateOfSender(h, u) ==
    /\ At(h, "incr")
    /\ u \in call[h].todo
    /\ seqCounter' = [seqCounter EXCEPT ![call[h].req.from] = @ + 1]
    /\ call' = [call EXCEPT
           ![h].batch = @ \cup {InboxRow(u, seqCounter'[call[h].req.from], call[h].msg)},
           ![h].todo = @ \ {u},
           ![h].pc = IF call[h].todo = {u} THEN "insert" ELSE "incr"]
    /\ UNCHANGED <<storeVars, lastMsgId, replies, precedes>>

(***************************************************************************)
(* Lines 81-105 and 181-190: INCR im:seq:{u} for the next addressee (the   *)
(* SELECT orders nothing, so any of them).  If Redis cannot be reached the *)
(* sequence number stays 0; it also stays 0 when Redis has counted and the *)
(* answer is lost.                                                         *)
(***************************************************************************)
Allocate(h, u) ==
    /\ At(h, "incr")
    /\ u \in call[h].todo
    /\ \E counted, answered \in BOOLEAN :
           /\ answered => counted
           /\ seqCounter' = [seqCounter EXCEPT ![u] = IF counted THEN Incr(@) ELSE @]
           /\ call' = [call EXCEPT
                  ![h].batch = @ \cup
                      {InboxRow(u, IF answered THEN seqCounter'[u] ELSE 0, call[h].msg)},
                  ![h].todo = @ \ {u},
                  ![h].pc = IF call[h].todo = {u} THEN "insert" ELSE "incr"]
    /\ UNCHANGED <<storeVars, lastMsgId, replies, precedes>>

(* Faults of what follows: pressing on, and trying again without end *)
InsertFailureIgnored(h) == Continue(h, "push", Owners(call[h].batch))
InsertRetried(h) == UNCHANGED call

InsertFailed(h) ==
    \/ ToGroup(h) /\ Continue(h, "push", Owners(call[h].batch))
    \/ ~ToGroup(h) /\ Return(h)

(* The fault: one INSERT for each row *)
InsertIndexByRow(h) ==
    /\ At(h, "insert")
    /\ \E r \in call[h].batch :
           /\ ~SlotTaken(r)
           /\ Commit("index", {r})
           /\ call' = [call EXCEPT
                  ![h].batch = @ \ {r}, ![h].todo = @ \cup {r.owner},
                  ![h].pc = IF call[h].batch = {r} THEN "push" ELSE "insert"]
    /\ UNCHANGED <<applied, seqCounter, lastMsgId, replies, precedes>>

(***************************************************************************)
(* Lines 107-111 and 192-200: one INSERT for all the rows.  uk_owner_seq   *)
(* makes it fail, and so may the server, also when it has committed and    *)
(* the answer is lost.  A failure ends a single chat; a group message goes *)
(* on to the notifications as if nothing had happened.                     *)
(***************************************************************************)
InsertIndex(h) ==
    /\ At(h, "insert")
    /\ \/ /\ \A r \in call[h].batch : ~SlotTaken(r)
          /\ Commit("index", call[h].batch)
          /\ Continue(h, "push", Owners(call[h].batch)) \/ InsertFailed(h)
       \/ InsertFailed(h) /\ UNCHANGED binlog
    /\ UNCHANGED <<applied, seqCounter, lastMsgId, replies, precedes>>

(***************************************************************************)
(* Lines 113-144 and 202-218: PushNotify to each addressee.  Whether it is *)
(* online, and whether the RPC to its gateway works, is decided elsewhere  *)
(* (module Timeline): the outcome is ignored here.                         *)
(***************************************************************************)
Push(h, u) ==
    /\ At(h, "push")
    /\ u \in call[h].todo
    /\ Continue(h, IF call[h].todo = {u} THEN "reply" ELSE "push", call[h].todo \ {u})
    /\ UNCHANGED <<storeVars, seqCounter, lastMsgId, replies, precedes>>

(* Lines 65-70, 146-150 and 220-223: only a single chat reports its number *)
Reply(h) ==
    /\ At(h, "reply")
    /\ \E n \in IF ToGroup(h) THEN {0} ELSE {r.seq : r \in call[h].batch} :
           replies' = replies \cup
               {[msg |-> call[h].msg, dest |-> call[h].req.dest, seq |-> n]}
    /\ Return(h)
    /\ UNCHANGED <<storeVars, seqCounter, lastMsgId, precedes>>

(* JoinGroup of the relation service adds a member through the master *)
JoinGroup(g, u) ==
    /\ MemberRow(g, u) \notin Master("member")
    /\ Commit("member", {MemberRow(g, u)})
    /\ UNCHANGED <<applied, serverVars>>

SlaveReplays(s) == Replicate(s) /\ UNCHANGED serverVars

Step(h) ==
    \/ GetMembers(h)
    \/ CheckRelation(h)
    \/ \E u \in Users : Allocate(h, u) \/ Push(h, u)
    \/ InsertIndex(h)
    \/ Reply(h)

Next ==
    \/ \E h \in Handlers, r \in Requests : StoreBody(h, r)
    \/ LoseBody
    \/ \E h \in Handlers : Step(h)
    \/ \E g \in Groups, u \in Users : JoinGroup(g, u)
    \/ \E s \in Slaves : SlaveReplays(s)

(***************************************************************************)
(* A thread that entered SendMessage keeps running, and replication        *)
(* catches up.  Nothing forces a client to send.                           *)
(***************************************************************************)
Fairness ==
    /\ \A h \in Handlers : WF_vars(Step(h))
    /\ \A s \in Slaves : WF_vars(SlaveReplays(s))

Spec == Init /\ [][Next]_vars
FairSpec == Spec /\ Fairness

-------------------------------------------------------------------------------
(* Every row that is in an inbox or about to be inserted into one *)
Held == Master("index") \cup UNION {call[h].batch : h \in Handlers}

TableRows == [table : {"body"}, rows : SUBSET BodyRows]
                 \cup [table : {"index"}, rows : SUBSET InboxRows]
                 \cup [table : {"member"}, rows : SUBSET MemberRows]

(* The variables have the types the code gives them. *)
TypeOK ==
    /\ binlog \in Seq(TableRows)
    /\ applied \in [Slaves -> 0..Len(binlog)]
    /\ seqCounter \in [Users -> Nat]
    /\ lastMsgId \in Nat
    /\ call \in [Handlers -> Calls]
    /\ replies \subseteq [msg : Nat, dest : Users \cup Groups, seq : Nat]
    /\ precedes \subseteq Nat \X Nat

(* Concurrent calls that deliver to the same inbox, single or group, never *)
(* come to hold the same positive sequence number, whatever Redis commands *)
(* and INSERTs fail: uk_owner_seq can reject nothing but a second row that *)
(* got the number 0.                                                       *)
NoSharedSeq ==
    \A r, s \in Held : r.owner = s.owner /\ r.seq = s.seq /\ r.seq > 0 => r = s

(* A message sent after another one was answered has the larger number in  *)
(* every inbox both reach.  A gateway session handles one packet after the *)
(* other, so what one client sends stays in the order it was sent.         *)
AnsweredFirstIsFirst ==
    \A r, s \in Held :
        <<r.msg, s.msg>> \in precedes /\ r.owner = s.owner /\ s.seq > 0 => r.seq < s.seq

(* However far a slave lags behind, each inbox row it shows has its body:  *)
(* SyncMessages converts the columns of its LEFT JOIN without testing them *)
(* for NULL.                                                               *)
BodyBeforeIndex ==
    \A n \in 0..Len(binlog) : \A r \in Rows("index", n) : BodyRow(r.msg) \in Rows("body", n)

(* When a single chat was answered with success its row is in the inbox of *)
(* the addressee, under the number the sender was told.                    *)
RepliedIsStored ==
    \A a \in replies : a.dest \in Users => InboxRow(a.dest, a.seq, a.msg) \in Master("index")

(* A group message reaches all the inboxes it will ever reach at once: no  *)
(* reader of any server sees it in one of them and not yet in another.     *)
FanOutIsAtomic ==
    \A n \in 0..Len(binlog) : \A r \in Rows("index", n) :
        \A s \in Master("index") : s.msg = r.msg => s \in Rows("index", n)

(***************************************************************************)
(* The service implements the abstract inboxes: a message comes at most    *)
(* once into an inbox, under the number its own INCR returned and no other *)
(* row has, and into all its inboxes in one step.                          *)
(***************************************************************************)
Prepared == UNION {call[h].batch : h \in {g \in Handlers : call[g].pc \in {"incr", "insert"}}}

Promise == INSTANCE Inbox WITH
               Messages <- 1..MaxMessages,
               counter <- seqCounter, prepared <- Prepared, inbox <- Master("index")

ImplementsInbox == Promise!Spec

(* Every call returns, whatever fails, provided gateways answer.           *)
CallsReturn == \A h \in Handlers : ~At(h, "idle") ~> At(h, "idle")
===============================================================================
