--------------------------- MODULE ChatServerProofs ---------------------------
(***************************************************************************)
(* Proofs of the safety properties of ChatServer and that it implements    *)
(* the abstract inboxes of Inbox, for any set of users, groups, threads    *)
(* and slaves.                                                             *)
(***************************************************************************)
EXTENDS ChatServer, MessageStoreProofs, TLAPS

-------------------------------------------------------------------------------
(* The log *)

(* A commit adds its rows to its table of the master, and changes neither  *)
(* another table nor what any prefix of the log shows.                     *)
LEMMA CommitAddsRows ==
    ASSUME binlog \in Seq(TableRows), NEW tbl, NEW new, Commit(tbl, new)
    PROVE  /\ Len(binlog') = Len(binlog) + 1
           /\ \A t : \A n \in 0..Len(binlog) : Rows(t, n)' = Rows(t, n)
           /\ Master(tbl)' = Master(tbl) \cup new
           /\ \A t : t # tbl => Master(t)' = Master(t)
BY CommitGrowsTable

(* A row that some prefix of the log shows is on the master. *)
LEMMA PrefixOnMaster ==
    ASSUME binlog \in Seq(TableRows), NEW t, NEW n \in 0..Len(binlog)
    PROVE  Rows(t, n) \subseteq Master(t)
BY PrefixSubset

-------------------------------------------------------------------------------
(* Calls, one at a time *)

(***************************************************************************)
(* What the locals of a call are at each of its statements: TypeOK alone   *)
(* is not inductive, because what goes into the tables comes from them.    *)
(***************************************************************************)
CallOK ==
    \A h \in Handlers :
        /\ At(h, "idle") => call[h] = NoCall
        /\ ~At(h, "idle") => call[h].req \in Requests /\ call[h].msg \in 1..lastMsgId
        /\ At(h, "members") => ToGroup(h)
        /\ At(h, "relation") => ~ToGroup(h)
        /\ \A r \in call[h].batch : r.msg = call[h].msg
        /\ ~ToGroup(h) => call[h].todo \cup Owners(call[h].batch) \subseteq {call[h].req.dest}

Typed == TypeOK /\ CallOK

(* The locals of the other calls stay what they are, and the call that    *)
(* takes a step changes the named fields: goes on to another statement ... *)
LEMMA ContinueEffect ==
    ASSUME call \in [Handlers -> Calls], NEW h \in Handlers, NEW label \in Labels,
           NEW users \in SUBSET Users, Continue(h, label, users)
    PROVE  /\ call' \in [Handlers -> Calls]
           /\ call'[h].pc = label /\ call'[h].todo = users
           /\ call'[h].req = call[h].req /\ call'[h].msg = call[h].msg
           /\ call'[h].batch = call[h].batch
           /\ \A g \in Handlers \ {h} : call'[g] = call[g]
BY DEF Continue, Calls

(* ... returns ...                                                         *)
LEMMA ReturnEffect ==
    ASSUME call \in [Handlers -> Calls], NEW h \in Handlers, Return(h)
    PROVE  /\ call' \in [Handlers -> Calls]
           /\ call'[h] = NoCall
           /\ \A g \in Handlers \ {h} : call'[g] = call[g]
<1>1. NoCall \in Calls
  BY DEF NoCall, Calls, Labels
<1> QED BY <1>1 DEF Return

(* ... begins ...                                                          *)
LEMMA BeginEffect ==
    ASSUME TypeOK, NEW h \in Handlers, NEW r \in Requests, StoreBody(h, r)
    PROVE  /\ call' \in [Handlers -> Calls]
           /\ call'[h].pc = (IF r.dest \in Groups THEN "members" ELSE "relation")
           /\ call'[h].req = r /\ call'[h].msg = lastMsgId + 1
           /\ call'[h].todo = {} /\ call'[h].batch = {}
           /\ \A g \in Handlers \ {h} : call'[g] = call[g]
<1> DEFINE label == IF r.dest \in Groups THEN "members" ELSE "relation"
           new == [pc |-> label, req |-> r, msg |-> lastMsgId + 1, todo |-> {}, batch |-> {}]
<1>1. lastMsgId' = lastMsgId + 1 /\ lastMsgId + 1 \in Nat
  BY DEF StoreBody, TypeOK
<1>0. call' = [call EXCEPT ![h] = new]
  BY <1>1 DEF StoreBody
<1>2. label \in Labels
  BY DEF Labels
<1>3. new \in Calls
  BY <1>1, <1>2 DEF Calls
<1> QED BY <1>0, <1>3 DEF TypeOK

(* ... or counts and prepares a row.                                       *)
LEMMA AllocateEffect ==
    ASSUME TypeOK, NEW h \in Handlers, NEW u \in Users, Allocate(h, u)
    PROVE  \E n \in {0, seqCounter[u] + 1} :
           /\ call' \in [Handlers -> Calls]
           /\ call'[h].pc = (IF call[h].todo = {u} THEN "insert" ELSE "incr")
           /\ call'[h].req = call[h].req /\ call'[h].msg = call[h].msg
           /\ call'[h].todo = call[h].todo \ {u}
           /\ call'[h].batch = call[h].batch \cup {InboxRow(u, n, call[h].msg)}
           /\ \A g \in Handlers \ {h} : call'[g] = call[g]
           /\ seqCounter' \in [Users -> Nat]
           /\ \A v \in Users : seqCounter[v] <= seqCounter'[v]
           /\ n # 0 => seqCounter'[u] = n
<1>1. PICK counted \in BOOLEAN, answered \in BOOLEAN :
        /\ answered => counted
        /\ seqCounter' = [seqCounter EXCEPT ![u] = IF counted THEN @ + 1 ELSE @]
        /\ call' = [call EXCEPT
               ![h].batch = @ \cup
                   {InboxRow(u, IF answered THEN seqCounter'[u] ELSE 0, call[h].msg)},
               ![h].todo = @ \ {u},
               ![h].pc = IF call[h].todo = {u} THEN "insert" ELSE "incr"]
  BY DEF Allocate, Incr
<1> DEFINE n == IF answered THEN seqCounter'[u] ELSE 0
           row == InboxRow(u, n, call[h].msg)
           c == call[h]
<1>2. /\ seqCounter' \in [Users -> Nat]
      /\ \A v \in Users : seqCounter[v] <= seqCounter'[v]
      /\ n \in {0, seqCounter[u] + 1}
      /\ n # 0 => seqCounter'[u] = n
  BY <1>1 DEF TypeOK
<1>3. c \in Calls
  BY DEF TypeOK
<1>4. row \in InboxRows
  BY <1>2, <1>3 DEF InboxRow, InboxRows, Calls, TypeOK
<1>5. /\ call'[h] = [c EXCEPT !.batch = @ \cup {row}, !.todo = @ \ {u},
                            !.pc = IF c.todo = {u} THEN "insert" ELSE "incr"]
      /\ call' = [call EXCEPT ![h] = call'[h]]
  BY <1>1 DEF TypeOK
<1> HIDE DEF n, row
<1>6. call'[h] \in Calls
  <2>1. c.batch \cup {row} \in SUBSET InboxRows /\ c.todo \ {u} \in SUBSET Users
    BY <1>3, <1>4 DEF Calls
  <2>2. (IF c.todo = {u} THEN "insert" ELSE "incr") \in Labels
    BY DEF Labels
  <2> QED BY <1>3, <1>5, <2>1, <2>2 DEF Calls
<1>7. /\ call'[h].pc = (IF c.todo = {u} THEN "insert" ELSE "incr")
      /\ call'[h].req = c.req /\ call'[h].msg = c.msg
      /\ call'[h].todo = c.todo \ {u}
      /\ call'[h].batch = c.batch \cup {row}
  BY <1>3, <1>5 DEF Calls
<1>8. call' \in [Handlers -> Calls] /\ \A g \in Handlers \ {h} : call'[g] = call[g]
  BY <1>5, <1>6 DEF TypeOK
<1> QED BY <1>2, <1>7, <1>8 DEF row

(* The initial state and every step are well typed: what INSERTs and INCRs *)
(* store, and the locals of each call.                                     *)
LEMMA TypedInductive ==
    /\ Init => Typed
    /\ Typed /\ [Next]_vars => Typed'
<1>1. Init => TypeOK
  <2> SUFFICES ASSUME Init PROVE TypeOK
    OBVIOUS
  <2>1. binlog \in Seq(TableRows) /\ Len(binlog) = 1
    <3>1. [table |-> "member", rows |-> InitialMembers] \in TableRows
      BY MembersAssumption DEF TableRows
    <3> QED BY <3>1 DEF Init
  <2>2. NoCall \in Calls
    BY DEF NoCall, Calls, Labels
  <2> QED BY <2>1, <2>2 DEF Init, TypeOK
<1>2. Init => CallOK
  BY DEF Init, CallOK, NoCall, At, Owners
<1>3. Typed /\ [Next]_vars => TypeOK'
  <2> SUFFICES ASSUME Typed, [Next]_vars PROVE TypeOK'
    OBVIOUS
  <2> USE DEF Typed
  <2>a. "push" \in Labels /\ "reply" \in Labels /\ "incr" \in Labels
    BY DEF Labels
  <2>b. \A h \in Handlers : /\ call[h].batch \in SUBSET InboxRows
                            /\ Owners(call[h].batch) \in SUBSET Users
                            /\ call[h].todo \in SUBSET Users
    BY DEF TypeOK, Calls, Owners, InboxRows
  <2>1. ASSUME NEW h \in Handlers, NEW r \in Requests, StoreBody(h, r) PROVE TypeOK'
    <3>1. lastMsgId' = lastMsgId + 1 /\ lastMsgId' \in Nat
      BY <2>1 DEF StoreBody, TypeOK
    <3>2. [table |-> "body", rows |-> {BodyRow(lastMsgId')}] \in TableRows
      BY <3>1 DEF TableRows, BodyRow, BodyRows
    <3>3. binlog' \in Seq(TableRows) /\ Len(binlog') = Len(binlog) + 1
      BY <2>1, <3>2 DEF StoreBody, Commit, TypeOK
    <3>4. applied' \in [Slaves -> 0..Len(binlog')]
      BY <2>1, <3>3 DEF StoreBody, TypeOK
    <3>5. precedes' \subseteq Nat \X Nat
      BY <2>1, <3>1 DEF StoreBody, TypeOK
    <3>6. call' \in [Handlers -> Calls]
      BY <2>1, BeginEffect
    <3> QED BY <2>1, <3>1, <3>3, <3>4, <3>5, <3>6 DEF StoreBody, TypeOK
  <2>11. CASE LoseBody
    <3>1. lastMsgId' = lastMsgId + 1 /\ lastMsgId' \in Nat
      BY <2>11 DEF LoseBody, TypeOK
    <3>2. [table |-> "body", rows |-> {BodyRow(lastMsgId')}] \in TableRows
      BY <3>1 DEF TableRows, BodyRow, BodyRows
    <3>3. binlog' \in Seq(TableRows) /\ Len(binlog') = Len(binlog) + 1
      BY <2>11, <3>2 DEF LoseBody, Commit, TypeOK
    <3>4. applied' \in [Slaves -> 0..Len(binlog')]
      BY <2>11, <3>3 DEF LoseBody, TypeOK
    <3> QED BY <2>11, <3>1, <3>3, <3>4 DEF LoseBody, TypeOK
  <2>2. ASSUME NEW h \in Handlers, GetMembers(h) PROVE TypeOK'
    <3>1. PICK found \in SUBSET Users :
            Continue(h, IF found = {} THEN "reply" ELSE "incr", found)
      BY <2>2 DEF GetMembers, Members
    <3>2. call' \in [Handlers -> Calls]
      BY <3>1, <2>a, ContinueEffect DEF TypeOK
    <3> QED BY <2>2, <3>2 DEF GetMembers, storeVars, TypeOK
  <2>3. ASSUME NEW h \in Handlers, CheckRelation(h) PROVE TypeOK'
    <3>1. CASE MayDeliver(call[h].req) /\ Continue(h, "incr", {call[h].req.dest})
      <4>0. call[h].req.dest \in Users
        BY <2>3 DEF CheckRelation, At, CallOK, ToGroup, Requests
      <4>1. call' \in [Handlers -> Calls]
        BY <3>1, <4>0, <2>a, ContinueEffect DEF TypeOK
      <4> QED BY <2>3, <4>1 DEF CheckRelation, storeVars, TypeOK
    <3>2. CASE Return(h)
      <4>1. call' \in [Handlers -> Calls]
        BY <3>2, ReturnEffect DEF TypeOK
      <4> QED BY <2>3, <4>1 DEF CheckRelation, storeVars, TypeOK
    <3> QED BY <2>3, <3>1, <3>2 DEF CheckRelation
  <2>4. ASSUME NEW h \in Handlers, NEW u \in Users, Allocate(h, u) PROVE TypeOK'
    <3>1. call' \in [Handlers -> Calls] /\ seqCounter' \in [Users -> Nat]
      BY <2>4, AllocateEffect
    <3> QED BY <2>4, <3>1 DEF Allocate, storeVars, TypeOK
  <2>5. ASSUME NEW h \in Handlers, InsertIndex(h) PROVE TypeOK'
    <3>1. call' \in [Handlers -> Calls]
      <4>1. CASE Return(h)
        BY <4>1, ReturnEffect DEF TypeOK
      <4>2. CASE Continue(h, "push", Owners(call[h].batch))
        BY <4>2, <2>a, <2>b, ContinueEffect DEF TypeOK
      <4> QED BY <2>5, <4>1, <4>2 DEF InsertIndex, InsertFailed
    <3>2. CASE UNCHANGED binlog
      BY <2>5, <3>1, <3>2 DEF InsertIndex, TypeOK
    <3>3. CASE Commit("index", call[h].batch)
      <4>1. [table |-> "index", rows |-> call[h].batch] \in TableRows
        BY <2>b DEF TableRows
      <4>2. binlog' \in Seq(TableRows) /\ Len(binlog') = Len(binlog) + 1
        BY <3>3, <4>1 DEF Commit, TypeOK
      <4>3. applied' \in [Slaves -> 0..Len(binlog')]
        BY <2>5, <4>2 DEF InsertIndex, TypeOK
      <4> QED BY <2>5, <3>1, <4>2, <4>3 DEF InsertIndex, TypeOK
    <3> QED BY <2>5, <3>2, <3>3 DEF InsertIndex
  <2>6. ASSUME NEW h \in Handlers, NEW u \in Users, Push(h, u) PROVE TypeOK'
    <3>1. Continue(h, IF call[h].todo = {u} THEN "reply" ELSE "push", call[h].todo \ {u})
      BY <2>6 DEF Push
    <3>2. call' \in [Handlers -> Calls]
      BY <3>1, <2>a, <2>b, ContinueEffect DEF TypeOK
    <3> QED BY <2>6, <3>2 DEF Push, storeVars, TypeOK
  <2>7. ASSUME NEW h \in Handlers, Reply(h) PROVE TypeOK'
    <3>1. call' \in [Handlers -> Calls]
      BY <2>7, ReturnEffect DEF Reply, TypeOK
    <3>2. replies' \subseteq [msg : Nat, dest : Users \cup Groups, seq : Nat]
      <4>1. PICK n : /\ n \in IF ToGroup(h) THEN {0} ELSE {r.seq : r \in call[h].batch}
                     /\ replies' = replies \cup
                            {[msg |-> call[h].msg, dest |-> call[h].req.dest, seq |-> n]}
        BY <2>7 DEF Reply
      <4>2. n \in Nat
        BY <4>1, <2>b DEF InboxRows
      <4>3. call[h].msg \in Nat
        BY DEF TypeOK, Calls
      <4>4. call[h].req.dest \in Users \cup Groups
        BY <2>7 DEF Reply, At, CallOK, Requests
      <4> QED BY <4>1, <4>2, <4>3, <4>4 DEF TypeOK
    <3> QED BY <2>7, <3>1, <3>2 DEF Reply, storeVars, TypeOK
  <2>8. ASSUME NEW g \in Groups, NEW u \in Users, JoinGroup(g, u) PROVE TypeOK'
    <3>1. [table |-> "member", rows |-> {MemberRow(g, u)}] \in TableRows
      BY DEF TableRows, MemberRow, MemberRows
    <3>2. binlog' \in Seq(TableRows) /\ Len(binlog') = Len(binlog) + 1
      BY <2>8, <3>1 DEF JoinGroup, Commit, TypeOK
    <3>3. applied' \in [Slaves -> 0..Len(binlog')]
      BY <2>8, <3>2 DEF JoinGroup, TypeOK
    <3> QED BY <2>8, <3>2, <3>3 DEF JoinGroup, serverVars, TypeOK
  <2>9. ASSUME NEW s \in Slaves, SlaveReplays(s) PROVE TypeOK'
    BY <2>9 DEF SlaveReplays, Replicate, serverVars, TypeOK
  <2>10. CASE UNCHANGED vars
    BY <2>10 DEF vars, storeVars, serverVars, TypeOK
  <2> QED
    BY <2>1, <2>2, <2>3, <2>4, <2>5, <2>6, <2>7, <2>8, <2>9, <2>10, <2>11
    DEF Next, Step
<1>4. Typed /\ [Next]_vars => CallOK'
  <2> SUFFICES ASSUME Typed, [Next]_vars PROVE CallOK'
    OBVIOUS
  <2> USE DEF Typed
  <2>a. lastMsgId \in Nat /\ "push" \in Labels /\ "reply" \in Labels /\ "incr" \in Labels
    BY DEF Labels, TypeOK
  <2>b. \A h \in Handlers : /\ call[h].batch \in SUBSET InboxRows
                            /\ Owners(call[h].batch) \in SUBSET Users
                            /\ call[h].todo \in SUBSET Users
    BY DEF TypeOK, Calls, Owners, InboxRows
  <2> DEFINE OK(h) == 
        /\ At(h, "idle") => call[h] = NoCall
        /\ ~At(h, "idle") => call[h].req \in Requests /\ call[h].msg \in 1..lastMsgId
        /\ At(h, "members") => ToGroup(h)
        /\ At(h, "relation") => ~ToGroup(h)
        /\ \A r \in call[h].batch : r.msg = call[h].msg
        /\ ~ToGroup(h) => call[h].todo \cup Owners(call[h].batch) \subseteq {call[h].req.dest}
  <2>c. ASSUME NEW g \in Handlers, call'[g] = call[g], lastMsgId' \in {lastMsgId, lastMsgId + 1}
        PROVE  OK(g)'
    BY <2>a, <2>c DEF CallOK, At, ToGroup
  <2>d. ASSUME NEW h \in Handlers, NEW users \in SUBSET Users, NEW label \in Labels,
               Continue(h, label, users), ~At(h, "idle"), label \notin {"idle", "members", "relation"},
               ~ToGroup(h) => users \subseteq {call[h].req.dest},
               lastMsgId' = lastMsgId
        PROVE  CallOK'
    <3>0. /\ call'[h].pc = label /\ call'[h].todo = users
          /\ call'[h].req = call[h].req /\ call'[h].msg = call[h].msg
          /\ call'[h].batch = call[h].batch
          /\ \A g \in Handlers \ {h} : call'[g] = call[g]
      BY <2>d, ContinueEffect DEF TypeOK
    <3>1. OK(h)'
      BY <2>d, <3>0 DEF CallOK, At, ToGroup
    <3>2. \A g \in Handlers \ {h} : OK(g)'
      BY <2>c, <2>d, <3>0
    <3> QED BY <3>1, <3>2 DEF CallOK
  <2>e. ASSUME NEW h \in Handlers, Return(h), lastMsgId' = lastMsgId
        PROVE  CallOK'
    <3>0. call'[h] = NoCall /\ \A g \in Handlers \ {h} : call'[g] = call[g]
      BY <2>e, ReturnEffect DEF TypeOK
    <3>1. OK(h)'
      BY <3>0 DEF At, NoCall, Owners
    <3>2. \A g \in Handlers \ {h} : OK(g)'
      BY <2>c, <2>e, <3>0
    <3> QED BY <3>1, <3>2 DEF CallOK
  <2>1. ASSUME NEW h \in Handlers, NEW r \in Requests, StoreBody(h, r) PROVE CallOK'
    <3>1. lastMsgId' = lastMsgId + 1
      BY <2>1 DEF StoreBody
    <3>2. OK(h)'
      BY <2>1, <3>1, <2>a, BeginEffect DEF At, ToGroup, Owners
    <3>3. \A g \in Handlers \ {h} : OK(g)'
      BY <2>c, <2>1, <3>1, BeginEffect
    <3> QED BY <3>2, <3>3 DEF CallOK
  <2>2. ASSUME NEW h \in Handlers, GetMembers(h) PROVE CallOK'
    <3>1. PICK found \in SUBSET Users :
            Continue(h, IF found = {} THEN "reply" ELSE "incr", found)
      BY <2>2 DEF GetMembers, Members
    <3>2. ToGroup(h) /\ ~At(h, "idle")
      BY <2>2 DEF GetMembers, At, CallOK
    <3> QED BY <2>2, <3>1, <3>2, <2>a, <2>d DEF GetMembers
  <2>3. ASSUME NEW h \in Handlers, CheckRelation(h) PROVE CallOK'
    <3>1. CASE MayDeliver(call[h].req) /\ Continue(h, "incr", {call[h].req.dest})
      <4>1. call[h].req.dest \in Users
        BY <2>3 DEF CheckRelation, At, CallOK, ToGroup, Requests
      <4> QED BY <2>3, <3>1, <4>1, <2>a, <2>d DEF CheckRelation, At
    <3> QED BY <2>3, <3>1, <2>e DEF CheckRelation
  <2>4. ASSUME NEW h \in Handlers, NEW u \in Users, Allocate(h, u) PROVE CallOK'
    <3>0. lastMsgId' = lastMsgId /\ At(h, "incr") /\ u \in call[h].todo
      BY <2>4 DEF Allocate
    <3>1. PICK n : /\ call'[h].pc = (IF call[h].todo = {u} THEN "insert" ELSE "incr")
                   /\ call'[h].req = call[h].req /\ call'[h].msg = call[h].msg
                   /\ call'[h].todo = call[h].todo \ {u}
                   /\ call'[h].batch = call[h].batch \cup {InboxRow(u, n, call[h].msg)}
                   /\ \A g \in Handlers \ {h} : call'[g] = call[g]
      BY <2>4, AllocateEffect
    <3>2. OK(h)'
      BY <3>0, <3>1 DEF CallOK, At, ToGroup, Owners, InboxRow
    <3>3. \A g \in Handlers \ {h} : OK(g)'
      BY <2>c, <3>0, <3>1
    <3> QED BY <3>2, <3>3 DEF CallOK
  <2>5. ASSUME NEW h \in Handlers, InsertIndex(h) PROVE CallOK'
    <3>1. lastMsgId' = lastMsgId /\ ~At(h, "idle")
      BY <2>5 DEF InsertIndex, At
    <3>2. CASE Return(h)
      BY <3>1, <3>2, <2>e
    <3>3. CASE Continue(h, "push", Owners(call[h].batch))
      <4>1. ~ToGroup(h) => Owners(call[h].batch) \subseteq {call[h].req.dest}
        BY DEF CallOK
      <4> QED BY <3>1, <3>3, <4>1, <2>a, <2>b, <2>d
    <3> QED BY <2>5, <3>2, <3>3 DEF InsertIndex, InsertFailed
  <2>6. ASSUME NEW h \in Handlers, NEW u \in Users, Push(h, u) PROVE CallOK'
    <3>1. Continue(h, IF call[h].todo = {u} THEN "reply" ELSE "push", call[h].todo \ {u})
      BY <2>6 DEF Push
    <3>2. ~ToGroup(h) => call[h].todo \ {u} \subseteq {call[h].req.dest}
      BY DEF CallOK
    <3>3. lastMsgId' = lastMsgId /\ ~At(h, "idle")
      BY <2>6 DEF Push, At
    <3> QED BY <3>1, <3>2, <3>3, <2>a, <2>b, <2>d
  <2>7. ASSUME NEW h \in Handlers, Reply(h) PROVE CallOK'
    BY <2>7, <2>e DEF Reply
  <2>8. ASSUME UNCHANGED call, lastMsgId' \in {lastMsgId, lastMsgId + 1} PROVE CallOK'
    BY <2>8, <2>c DEF CallOK
  <2> QED
    BY <2>1, <2>2, <2>3, <2>4, <2>5, <2>6, <2>7, <2>8
    DEF Next, Step, LoseBody, JoinGroup, SlaveReplays, vars, serverVars
<1> QED BY <1>1, <1>2, <1>3, <1>4 DEF Typed

(* The variables keep their types, however the calls interleave.           *)
THEOREM TypeCorrect == Spec => []TypeOK
<1>1. Typed => TypeOK
  BY DEF Typed
<1> QED BY <1>1, TypedInductive, PTL DEF Spec

-------------------------------------------------------------------------------
(* Inboxes *)

(* An inbox changes in one way only: a call inserts the rows it prepared.  *)
LEMMA IndexEffect ==
    ASSUME Typed, [Next]_vars
    PROVE  /\ Master("index")' = Master("index")
              \/ \E h \in Handlers : /\ At(h, "insert")
                                     /\ Commit("index", call[h].batch)
                                     /\ \/ Continue(h, "push", Owners(call[h].batch))
                                        \/ Return(h)
                                     /\ Master("index")' = Master("index") \cup call[h].batch
           /\ Len(binlog') >= Len(binlog)
           /\ \A t : \A n \in 0..Len(binlog) : Rows(t, n)' = Rows(t, n)
<1>0. binlog \in Seq(TableRows)
  BY DEF Typed, TypeOK
<1>1. ASSUME UNCHANGED binlog
      PROVE  /\ Master("index")' = Master("index")
             /\ Len(binlog') >= Len(binlog)
             /\ \A t : \A n \in 0..Len(binlog) : Rows(t, n)' = Rows(t, n)
  BY <1>0, <1>1 DEF Master, Rows
<1>2. ASSUME NEW h \in Handlers, NEW r \in Requests, StoreBody(h, r)
      PROVE  /\ Master("index")' = Master("index")
             /\ Len(binlog') >= Len(binlog)
             /\ \A t : \A n \in 0..Len(binlog) : Rows(t, n)' = Rows(t, n)
  <2>1. Commit("body", {BodyRow(lastMsgId')})
    BY <1>2 DEF StoreBody
  <2> QED BY <1>0, <2>1, CommitAddsRows
<1>3. ASSUME NEW g \in Groups, NEW u \in Users, JoinGroup(g, u)
      PROVE  /\ Master("index")' = Master("index")
             /\ Len(binlog') >= Len(binlog)
             /\ \A t : \A n \in 0..Len(binlog) : Rows(t, n)' = Rows(t, n)
  BY <1>0, <1>3, CommitAddsRows DEF JoinGroup
<1>5. CASE LoseBody
  BY <1>0, <1>5, CommitAddsRows DEF LoseBody
<1>4. ASSUME NEW h \in Handlers, InsertIndex(h), ~UNCHANGED binlog
      PROVE  /\ At(h, "insert")
             /\ Commit("index", call[h].batch)
             /\ Continue(h, "push", Owners(call[h].batch)) \/ Return(h)
             /\ Master("index")' = Master("index") \cup call[h].batch
             /\ Len(binlog') >= Len(binlog)
             /\ \A t : \A n \in 0..Len(binlog) : Rows(t, n)' = Rows(t, n)
  <2>1. /\ At(h, "insert")
        /\ Commit("index", call[h].batch)
        /\ Continue(h, "push", Owners(call[h].batch)) \/ Return(h)
    BY <1>4 DEF InsertIndex, InsertFailed
  <2> QED BY <1>0, <2>1, CommitAddsRows
<1> QED
  BY <1>1, <1>2, <1>3, <1>4, <1>5
  DEF Next, Step, vars, storeVars, GetMembers, CheckRelation, Allocate, Push, Reply,
      SlaveReplays, Replicate

(* A call that is not in Allocate prepares no row.                         *)
LEMMA BatchEffect ==
    ASSUME Typed, [Next]_vars, NEW h \in Handlers
    PROVE  \/ call'[h].batch \subseteq call[h].batch
           \/ \E u \in Users : Allocate(h, u)
<1>1. ASSUME NEW g \in Handlers, Return(g)
      PROVE  call'[h].batch \subseteq call[h].batch
  BY <1>1, ReturnEffect DEF NoCall, Typed, TypeOK
<1>2. ASSUME NEW g \in Handlers, NEW label, NEW users, Continue(g, label, users)
      PROVE  call'[h].batch \subseteq call[h].batch
  <2>1. call[g] \in Calls
    BY DEF Typed, TypeOK
  <2>2. call'[h] = IF g = h THEN [call[g] EXCEPT !.pc = label, !.todo = users] ELSE call[h]
    BY <1>2 DEF Continue, Typed, TypeOK
  <2> QED BY <2>1, <2>2 DEF Calls
<1>3. ASSUME NEW g \in Handlers, NEW r \in Requests, StoreBody(g, r)
      PROVE  call'[h].batch \subseteq call[h].batch
  BY <1>3, BeginEffect DEF Typed
<1>4. ASSUME NEW g \in Handlers, NEW u \in Users, Allocate(g, u), g # h
      PROVE  call'[h].batch \subseteq call[h].batch
  BY <1>4, AllocateEffect DEF Typed
<1>5. ASSUME UNCHANGED call
      PROVE  call'[h].batch \subseteq call[h].batch
  BY <1>5
<1> QED
  BY <1>1, <1>2, <1>3, <1>4, <1>5
  DEF Next, Step, vars, serverVars, GetMembers, CheckRelation, InsertIndex, InsertFailed,
      Push, Reply, LoseBody, JoinGroup, SlaveReplays

(* What is held changes in one way only: a call prepares one row, whose    *)
(* number is 0 or the one the counter reaches in this very step.           *)
LEMMA HeldEffect ==
    ASSUME Typed, [Next]_vars
    PROVE  \/ Held' \subseteq Held
           \/ \E h \in Handlers : \E u \in Users : \E n \in {0, seqCounter[u] + 1} :
                 /\ Allocate(h, u)
                 /\ n # 0 => seqCounter'[u] = n
                 /\ Held' \subseteq Held \cup {InboxRow(u, n, call[h].msg)}
<1>1. \A x : x \in Held <=> x \in Master("index") \/ \E h \in Handlers : x \in call[h].batch
  BY DEF Held
<1>2. \A x : x \in Held' <=>
           x \in Master("index")' \/ \E h \in Handlers : x \in call'[h].batch
  BY DEF Held
<1>3. Master("index")' \subseteq Held
  BY <1>1, IndexEffect
<1>4. CASE \A h \in Handlers : call'[h].batch \subseteq call[h].batch
  BY <1>1, <1>2, <1>3, <1>4
<1>5. ASSUME NEW h \in Handlers, NEW u \in Users, Allocate(h, u)
      PROVE  \E n \in {0, seqCounter[u] + 1} :
                 /\ n # 0 => seqCounter'[u] = n
                 /\ Held' \subseteq Held \cup {InboxRow(u, n, call[h].msg)}
  <2>1. PICK n \in {0, seqCounter[u] + 1} :
           /\ call'[h].batch = call[h].batch \cup {InboxRow(u, n, call[h].msg)}
           /\ \A g \in Handlers \ {h} : call'[g] = call[g]
           /\ n # 0 => seqCounter'[u] = n
    BY <1>5, AllocateEffect DEF Typed
  <2> QED BY <1>1, <1>2, <1>3, <2>1
<1> QED BY <1>4, <1>5, BatchEffect

(* Counters only grow.                                                     *)
LEMMA CountersGrow ==
    ASSUME Typed, [Next]_vars
    PROVE  /\ \A u \in Users : /\ seqCounter[u] \in Nat /\ seqCounter'[u] \in Nat
                               /\ seqCounter[u] <= seqCounter'[u]
           /\ lastMsgId \in Nat /\ lastMsgId' \in {lastMsgId, lastMsgId + 1}
<1>1. seqCounter \in [Users -> Nat] /\ lastMsgId \in Nat
  BY DEF Typed, TypeOK
<1>2. ASSUME NEW h \in Handlers, NEW v \in Users, Allocate(h, v)
      PROVE  /\ \A u \in Users : seqCounter'[u] \in Nat /\ seqCounter[u] <= seqCounter'[u]
             /\ lastMsgId' = lastMsgId
  BY <1>2, AllocateEffect DEF Typed, Allocate
<1>3. ASSUME UNCHANGED seqCounter, lastMsgId' \in {lastMsgId, lastMsgId + 1}
      PROVE  \A u \in Users : seqCounter'[u] \in Nat /\ seqCounter[u] <= seqCounter'[u]
  BY <1>1, <1>3
<1>4. ASSUME NEW h \in Handlers, NEW r \in Requests, StoreBody(h, r)
      PROVE  UNCHANGED seqCounter /\ lastMsgId' = lastMsgId + 1
  BY <1>4 DEF StoreBody
<1>6. CASE LoseBody
  BY <1>1, <1>3, <1>6 DEF LoseBody
<1>5. \/ \E h \in Handlers : \E v \in Users : Allocate(h, v)
      \/ \E h \in Handlers : \E r \in Requests : StoreBody(h, r)
      \/ LoseBody
      \/ UNCHANGED <<seqCounter, lastMsgId>>
  BY DEF Next, Step, vars, serverVars, GetMembers, CheckRelation, InsertIndex,
         Push, Reply, JoinGroup, SlaveReplays
<1> QED BY <1>1, <1>2, <1>3, <1>4, <1>5, <1>6

(***************************************************************************)
(* Why numbers are never shared: every number that is held is at most the  *)
(* counter it came from, and a new one is above the counter.               *)
(***************************************************************************)
Counted ==
    \A r \in Held : /\ r \in InboxRows
                    /\ r.seq <= seqCounter[r.owner]
                    /\ r.msg <= lastMsgId

(* Numbers are at most their counters and never shared, at first and after *)
(* each step.                                                              *)
LEMMA CountedInductive ==
    /\ Init => Counted /\ NoSharedSeq
    /\ Typed /\ Counted /\ [Next]_vars => Counted'
    /\ Typed /\ Counted /\ NoSharedSeq /\ [Next]_vars => NoSharedSeq'
<1>1. ASSUME Init PROVE Held = {}
  <2>1. binlog = << [table |-> "member", rows |-> InitialMembers] >>
    BY <1>1 DEF Init
  <2>2. Master("index") = {}
    BY <2>1 DEF Master, Rows
  <2> QED BY <1>1, <2>2 DEF Init, Held, NoCall
<1>2. ASSUME Typed, Counted, [Next]_vars PROVE Counted'
  <2>1. CASE Held' \subseteq Held
    BY <1>2, <2>1, CountersGrow DEF Counted, InboxRows
  <2>2. ASSUME NEW h \in Handlers, NEW u \in Users, NEW n \in {0, seqCounter[u] + 1},
               n # 0 => seqCounter'[u] = n,
               Held' \subseteq Held \cup {InboxRow(u, n, call[h].msg)},
               Allocate(h, u)
        PROVE  Counted'
    <3>1. call[h].msg \in 1..lastMsgId
      BY <1>2, <2>2 DEF Typed, CallOK, Allocate, At
    <3>2. n \in Nat /\ n <= seqCounter'[u]
      BY <1>2, <2>2, CountersGrow
    <3> QED BY <1>2, <2>2, <3>1, <3>2, CountersGrow DEF Counted, InboxRows, InboxRow
  <2> QED BY <1>2, <2>1, <2>2, HeldEffect
<1>3. ASSUME Typed, Counted, NoSharedSeq, [Next]_vars PROVE NoSharedSeq'
  <2>1. CASE Held' \subseteq Held
    BY <1>3, <2>1 DEF NoSharedSeq
  <2>2. ASSUME NEW h \in Handlers, NEW u \in Users, NEW n \in {0, seqCounter[u] + 1},
               Held' \subseteq Held \cup {InboxRow(u, n, call[h].msg)}
        PROVE  NoSharedSeq'
    <3>1. \A r \in Held : r.owner = u /\ r.seq > 0 => r.seq # n
      BY <1>3, <2>2, CountersGrow DEF Counted, InboxRows
    <3> QED BY <1>3, <2>2, <3>1 DEF NoSharedSeq, InboxRow
  <2> QED BY <1>3, <2>1, <2>2, HeldEffect
<1> QED BY <1>1, <1>2, <1>3 DEF Counted, NoSharedSeq

(* No two messages are ever given the same positive number in one inbox.   *)
THEOREM SeqNeverShared == Spec => []NoSharedSeq
<1>1. Typed /\ Counted /\ NoSharedSeq /\ [Next]_vars => (Typed /\ Counted /\ NoSharedSeq)'
  BY TypedInductive, CountedInductive
<1> QED BY <1>1, TypedInductive, CountedInductive, PTL DEF Spec

-------------------------------------------------------------------------------
(* Messages *)

(* A step leaves a call what it is, ends it, or begins it.                 *)
LEMMA IdEffect ==
    ASSUME Typed, [Next]_vars, NEW g \in Handlers
    PROVE  \/ At(g, "idle")'
           \/ /\ ~At(g, "idle")
              /\ call'[g].msg = call[g].msg /\ call'[g].req = call[g].req
           \/ \E r \in Requests : StoreBody(g, r)
<1> DEFINE Same == \/ call'[g].pc = "idle"
                   \/ /\ call[g].pc # "idle"
                      /\ call'[g].msg = call[g].msg
                      /\ call'[g].req = call[g].req
<1>1. ASSUME NEW h \in Handlers, Return(h) PROVE Same
  BY <1>1, ReturnEffect DEF NoCall, Typed, TypeOK
<1>2. ASSUME NEW h \in Handlers, NEW label, NEW users, Continue(h, label, users),
             ~At(h, "idle")
      PROVE  Same
  <2>1. call[h] \in Calls
    BY DEF Typed, TypeOK
  <2>2. call'[g] = IF g = h THEN [call[h] EXCEPT !.pc = label, !.todo = users] ELSE call[g]
    BY <1>2 DEF Continue, Typed, TypeOK
  <2> QED BY <1>2, <2>1, <2>2 DEF Calls, At
<1>3. ASSUME NEW h \in Handlers, NEW r \in Requests, StoreBody(h, r), h # g PROVE Same
  BY <1>3, BeginEffect DEF Typed
<1>4. ASSUME NEW h \in Handlers, NEW u \in Users, Allocate(h, u) PROVE Same
  <2>1. /\ call'[h].req = call[h].req /\ call'[h].msg = call[h].msg
        /\ \A k \in Handlers \ {h} : call'[k] = call[k]
    BY <1>4, AllocateEffect DEF Typed
  <2>2. call[h].pc = "incr"
    BY <1>4 DEF Allocate, At
  <2> QED BY <2>1, <2>2
<1>5. ASSUME UNCHANGED call PROVE Same
  BY <1>5
<1>6. Same \/ \E r \in Requests : StoreBody(g, r)
  BY <1>1, <1>2, <1>3, <1>4, <1>5
  DEF Next, Step, vars, serverVars, GetMembers, CheckRelation, InsertIndex, InsertFailed,
      Push, Reply, LoseBody, JoinGroup, SlaveReplays, At
<1> QED BY <1>6 DEF At

(***************************************************************************)
(* No two calls serve the same message; a message that was answered is not *)
(* served any more; and a message precedes only messages with larger ids,  *)
(* having been answered itself.                                            *)
(***************************************************************************)
IdsOK ==
    /\ \A h, g \in Handlers :
           h # g /\ ~At(h, "idle") /\ ~At(g, "idle") => call[h].msg # call[g].msg
    /\ \A a \in replies : /\ a.msg <= lastMsgId
                          /\ \A h \in Handlers : ~At(h, "idle") => call[h].msg # a.msg
    /\ \A m, n \in Nat : <<m, n>> \in precedes =>
           m < n /\ n <= lastMsgId /\ \E a \in replies : a.msg = m

(* Each message is served by one call at most, and is over once it is      *)
(* answered.                                                               *)
LEMMA IdsInductive ==
    /\ Init => IdsOK
    /\ Typed /\ IdsOK /\ [Next]_vars => IdsOK'
<1>1. Init => IdsOK
  BY DEF Init, IdsOK, At, NoCall
<1>2. ASSUME Typed, IdsOK, [Next]_vars PROVE IdsOK'
  <2> USE <1>2
  <2>0. /\ lastMsgId \in Nat /\ replies \subseteq [msg : Nat, dest : Users \cup Groups, seq : Nat]
        /\ \A h \in Handlers : /\ call[h].msg \in Nat
                               /\ ~At(h, "idle") => call[h].msg <= lastMsgId
    BY DEF Typed, TypeOK, CallOK, Calls
  <2>1. ASSUME NEW h \in Handlers, NEW r \in Requests, StoreBody(h, r) PROVE IdsOK'
    <3>1. /\ lastMsgId' = lastMsgId + 1 /\ replies' = replies
          /\ precedes' = precedes \cup ({a.msg : a \in replies} \X {lastMsgId + 1})
      BY <2>1 DEF StoreBody
    <3>2. call'[h].msg = lastMsgId + 1 /\ \A g \in Handlers \ {h} : call'[g] = call[g]
      BY <2>1, BeginEffect DEF Typed
    <3>3. \A g1, g2 \in Handlers :
             g1 # g2 /\ ~At(g1, "idle")' /\ ~At(g2, "idle")' => call'[g1].msg # call'[g2].msg
      BY <2>0, <3>2 DEF IdsOK, At
    <3>4. \A a \in replies' : /\ a.msg <= lastMsgId'
                              /\ \A g \in Handlers : ~At(g, "idle")' => call'[g].msg # a.msg
      BY <2>0, <3>1, <3>2 DEF IdsOK, At
    <3>5. \A m, n \in Nat : <<m, n>> \in precedes' =>
             m < n /\ n <= lastMsgId' /\ \E a \in replies' : a.msg = m
      BY <2>0, <3>1 DEF IdsOK
    <3> QED BY <3>3, <3>4, <3>5 DEF IdsOK
  <2>2. ASSUME NEW h \in Handlers, Reply(h) PROVE IdsOK'
    <3>1. /\ lastMsgId' = lastMsgId /\ precedes' = precedes /\ ~At(h, "idle")
          /\ replies \subseteq replies'
          /\ \A a \in replies' : a \in replies \/ a.msg = call[h].msg
      BY <2>2 DEF Reply, At
    <3>2. call'[h].pc = "idle" /\ \A g \in Handlers \ {h} : call'[g] = call[g]
      BY <2>2, ReturnEffect DEF Reply, NoCall, Typed, TypeOK
    <3>3. \A g1, g2 \in Handlers :
             g1 # g2 /\ ~At(g1, "idle")' /\ ~At(g2, "idle")' => call'[g1].msg # call'[g2].msg
      BY <3>2 DEF IdsOK, At
    <3>4. \A a \in replies' : /\ a.msg <= lastMsgId'
                              /\ \A g \in Handlers : ~At(g, "idle")' => call'[g].msg # a.msg
      <4>1. \A g \in Handlers : ~At(g, "idle")' =>
                /\ g # h /\ ~At(g, "idle") /\ call'[g].msg = call[g].msg
        BY <3>2 DEF At
      <4>2. ASSUME NEW a \in replies
            PROVE  /\ a.msg <= lastMsgId'
                   /\ \A g \in Handlers : ~At(g, "idle")' => call'[g].msg # a.msg
        BY <3>1, <4>1 DEF IdsOK
      <4>3. call[h].msg <= lastMsgId'
        BY <2>0, <3>1
      <4>4. \A g \in Handlers : ~At(g, "idle")' => call'[g].msg # call[h].msg
        BY <3>1, <4>1 DEF IdsOK
      <4> QED BY <3>1, <4>2, <4>3, <4>4
    <3>5. \A m, n \in Nat : <<m, n>> \in precedes' =>
             m < n /\ n <= lastMsgId' /\ \E a \in replies' : a.msg = m
      BY <3>1 DEF IdsOK
    <3> QED BY <3>3, <3>4, <3>5 DEF IdsOK
  <2>3. ASSUME UNCHANGED <<replies, precedes>>,
               \A h \in Handlers : ~At(h, "idle")' =>
                   ~At(h, "idle") /\ call'[h].msg = call[h].msg
        PROVE  IdsOK'
    <3>1. /\ replies' = replies /\ precedes' = precedes
          /\ lastMsgId' \in Nat /\ lastMsgId <= lastMsgId'
          /\ \A a \in replies : a.msg \in Nat
      BY <2>0, <2>3, CountersGrow
    <3>2. \A h \in Handlers : ~At(h, "idle")' =>
              ~At(h, "idle") /\ call'[h].msg = call[h].msg
      BY <2>3
    <3>3. \A h, g \in Handlers :
             h # g /\ ~At(h, "idle")' /\ ~At(g, "idle")' => call'[h].msg # call'[g].msg
      BY <3>2 DEF IdsOK
    <3>4. \A a \in replies' : /\ a.msg <= lastMsgId'
                              /\ \A h \in Handlers : ~At(h, "idle")' => call'[h].msg # a.msg
      BY <2>0, <3>1, <3>2 DEF IdsOK
    <3>5. \A m, n \in Nat : <<m, n>> \in precedes' =>
             m < n /\ n <= lastMsgId' /\ \E a \in replies' : a.msg = m
      <4>1. ASSUME NEW m \in Nat, NEW n \in Nat, <<m, n>> \in precedes
            PROVE  m < n /\ n <= lastMsgId /\ \E a \in replies : a.msg = m
        BY <4>1 DEF IdsOK
      <4> QED BY <2>0, <3>1, <4>1
    <3> QED BY <3>3, <3>4, <3>5 DEF IdsOK
  <2>4. \/ \E h \in Handlers : \E r \in Requests : StoreBody(h, r)
        \/ \E h \in Handlers : Reply(h)
        \/ UNCHANGED <<replies, precedes>>
    BY DEF Next, Step, vars, serverVars, GetMembers, CheckRelation, Allocate, InsertIndex,
           Push, LoseBody, JoinGroup, SlaveReplays
  <2> QED BY <2>1, <2>2, <2>3, <2>4, IdEffect
<1> QED BY <1>1, <1>2

(* Sequence numbers respect the order in which messages were answered and  *)
(* sent.                                                                   *)
LEMMA OrderInductive ==
    /\ Init => AnsweredFirstIsFirst
    /\ Typed /\ Counted /\ IdsOK /\ AnsweredFirstIsFirst /\ [Next]_vars
           => AnsweredFirstIsFirst'
<1>1. Init => AnsweredFirstIsFirst
  BY DEF Init, AnsweredFirstIsFirst
<1>2. ASSUME Typed, Counted, IdsOK, AnsweredFirstIsFirst, [Next]_vars
      PROVE  AnsweredFirstIsFirst'
  <2> USE <1>2
  <2>1. ASSUME NEW h \in Handlers, NEW r \in Requests, StoreBody(h, r)
        PROVE  AnsweredFirstIsFirst'
    <3>1. precedes' = precedes \cup ({a.msg : a \in replies} \X {lastMsgId + 1})
      BY <2>1 DEF StoreBody
    <3>2. Held' \subseteq Held
      <4>1. \A u \in Users : \A g \in Handlers : Allocate(g, u) => lastMsgId' = lastMsgId
        BY DEF Allocate
      <4>2. lastMsgId' = lastMsgId + 1 /\ lastMsgId \in Nat
        BY <2>1 DEF StoreBody, Typed, TypeOK
      <4> QED BY <4>1, <4>2, HeldEffect
    <3>3. \A s \in Held : s.msg # lastMsgId + 1
      BY CountersGrow DEF Counted, InboxRows
    <3> QED BY <3>1, <3>2, <3>3 DEF AnsweredFirstIsFirst
  <2>2. ASSUME UNCHANGED precedes, Held' \subseteq Held PROVE AnsweredFirstIsFirst'
    BY <2>2 DEF AnsweredFirstIsFirst
  <2>3. ASSUME UNCHANGED precedes,
               NEW h \in Handlers, NEW u \in Users, NEW n \in {0, seqCounter[u] + 1},
               Held' \subseteq Held \cup {InboxRow(u, n, call[h].msg)}, Allocate(h, u)
        PROVE  AnsweredFirstIsFirst'
    <3> DEFINE new == InboxRow(u, n, call[h].msg)
    <3>1. new.owner = u /\ new.seq = n /\ new.msg = call[h].msg
      BY DEF InboxRow
    <3>2. ~At(h, "idle") /\ call[h].msg \in Nat
      BY <2>3 DEF Allocate, At, Typed, TypeOK, Calls
    <3> HIDE DEF new
    <3>3. \A s : <<new.msg, s.msg>> \in precedes => FALSE
      <4>1. \A m, k : <<m, k>> \in precedes => m \in Nat /\ k \in Nat
        BY DEF Typed, TypeOK
      <4> QED BY <3>1, <3>2, <4>1 DEF IdsOK
    <3>4. \A r \in Held : r.owner = u /\ n > 0 => r.seq < n
      BY <2>3, CountersGrow DEF Counted, InboxRows
    <3>5. ASSUME NEW r \in Held', NEW s \in Held', <<r.msg, s.msg>> \in precedes,
                 r.owner = s.owner, s.seq > 0
          PROVE  r.seq < s.seq
      <4>1. r \in Held
        BY <2>3, <3>3, <3>5 DEF new
      <4>2. CASE s = new
        BY <3>1, <3>4, <3>5, <4>1, <4>2
      <4>3. CASE s \in Held
        BY <3>5, <4>1, <4>3 DEF AnsweredFirstIsFirst
      <4> QED BY <2>3, <4>2, <4>3, <3>5 DEF new
    <3> QED BY <2>3, <3>5 DEF AnsweredFirstIsFirst
  <2>4. UNCHANGED precedes \/ \E h \in Handlers : \E r \in Requests : StoreBody(h, r)
    BY DEF Next, Step, vars, serverVars, GetMembers, CheckRelation, Allocate, InsertIndex,
           Push, Reply, LoseBody, JoinGroup, SlaveReplays
  <2> QED BY <2>1, <2>2, <2>3, <2>4, HeldEffect
<1> QED BY <1>1, <1>2

(* A message sent after another was answered comes later in every inbox.   *)
THEOREM OrderKept == Spec => []AnsweredFirstIsFirst
<1> DEFINE Inv == Typed /\ Counted /\ NoSharedSeq /\ IdsOK /\ AnsweredFirstIsFirst
<1>1. Init => Inv
  BY TypedInductive, CountedInductive, IdsInductive, OrderInductive
<1>2. Inv /\ [Next]_vars => Inv'
  BY TypedInductive, CountedInductive, IdsInductive, OrderInductive
<1> QED BY <1>1, <1>2, PTL DEF Spec

-------------------------------------------------------------------------------
(* What readers see *)

(* Tables only grow, and the last commit is part of what the master shows. *)
LEMMA TablesGrow ==
    ASSUME Typed, Typed', [Next]_vars, NEW t
    PROVE  /\ Master(t) \subseteq Master(t)'
           /\ \A n \in 0..Len(binlog') : Rows(t, n)' \subseteq Master(t)'
<1>1. PICK L \in Nat : L = Len(binlog)
  BY DEF Typed, TypeOK
<1>2. Master(t) = Rows(t, L)
  BY <1>1 DEF Master
<1>3. L \in 0..Len(binlog') /\ Rows(t, L)' = Rows(t, L)
  BY <1>1, IndexEffect DEF Typed, TypeOK
<1>4. \A n \in 0..Len(binlog') : Rows(t, n)' \subseteq Master(t)'
  <2>1. \A n \in 0..Len(binlog') : 1..n \subseteq 1..Len(binlog')
    BY DEF Typed, TypeOK
  <2> QED BY <2>1 DEF Rows, Master
<1> QED BY <1>2, <1>3, <1>4

(* A prefix of the new log is a prefix of the old one, or all of it.       *)
LEMMA Prefixes ==
    ASSUME Typed, Typed', [Next]_vars, NEW n \in 0..Len(binlog')
    PROVE  \/ n \in 0..Len(binlog) /\ \A t : Rows(t, n)' = Rows(t, n)
           \/ \A t : Rows(t, n)' = Master(t)'
<1>1. Len(binlog) \in Nat /\ Len(binlog') \in {Len(binlog), Len(binlog) + 1}
  <2>1. ASSUME NEW tbl, NEW rows, Commit(tbl, rows) PROVE Len(binlog') = Len(binlog) + 1
    BY <2>1, CommitAddsRows DEF Typed, TypeOK
  <2>2. \/ UNCHANGED binlog
        \/ \E tbl, rows : Commit(tbl, rows)
    BY DEF Next, Step, vars, storeVars, StoreBody, GetMembers, CheckRelation, Allocate,
           InsertIndex, Push, Reply, LoseBody, JoinGroup, SlaveReplays, Replicate
  <2> QED BY <2>1, <2>2 DEF Typed, TypeOK
<1>2. CASE n \in 0..Len(binlog)
  BY <1>2, IndexEffect
<1>3. CASE n = Len(binlog')
  BY <1>3 DEF Master
<1> QED BY <1>1, <1>2, <1>3

(* A call that has begun has stored its body.                              *)
BodiesStored ==
    /\ \A h \in Handlers : ~At(h, "idle") => BodyRow(call[h].msg) \in Master("body")
    /\ \A r \in Master("index") : BodyRow(r.msg) \in Master("body")
    /\ BodyBeforeIndex

(* Bodies are stored before the rows that refer to them, on every prefix   *)
(* of the log.                                                             *)
LEMMA BodiesInductive ==
    /\ Init => BodiesStored
    /\ Typed /\ Typed' /\ BodiesStored /\ [Next]_vars => BodiesStored'
<1>1. ASSUME Init PROVE BodiesStored
  <2>1. binlog = << [table |-> "member", rows |-> InitialMembers] >>
    BY <1>1 DEF Init
  <2>2. \A n \in 0..1 : Rows("index", n) = {}
    BY <2>1 DEF Rows
  <2> QED BY <1>1, <2>1, <2>2 DEF Init, BodiesStored, BodyBeforeIndex, Master, At, NoCall
<1>2. ASSUME Typed, Typed', BodiesStored, [Next]_vars PROVE BodiesStored'
  <2> USE <1>2
  <2>0. Master("body") \subseteq Master("body")'
    BY TablesGrow
  <2>1. ASSUME NEW h \in Handlers, ~At(h, "idle")'
        PROVE  BodyRow(call'[h].msg) \in Master("body")'
    <3>1. ASSUME NEW r \in Requests, StoreBody(h, r)
          PROVE  BodyRow(call'[h].msg) \in Master("body")'
      <4>1. Commit("body", {BodyRow(lastMsgId')}) /\ lastMsgId' = lastMsgId + 1
        BY <3>1 DEF StoreBody
      <4>2. call'[h].msg = lastMsgId'
        BY <3>1, <4>1, BeginEffect DEF Typed
      <4>3. Master("body")' = Master("body") \cup {BodyRow(lastMsgId')}
        BY <4>1, CommitAddsRows DEF Typed, TypeOK
      <4> QED BY <4>2, <4>3
    <3>2. CASE ~At(h, "idle") /\ call'[h].msg = call[h].msg
      BY <2>0, <3>2 DEF BodiesStored
    <3> QED BY <2>1, <3>1, <3>2, IdEffect
  <2>2. ASSUME NEW r \in Master("index")' PROVE BodyRow(r.msg) \in Master("body")'
    <3>1. CASE r \in Master("index")
      BY <2>0, <3>1 DEF BodiesStored
    <3>2. ASSUME NEW h \in Handlers, At(h, "insert"), r \in call[h].batch
          PROVE  BodyRow(r.msg) \in Master("body")'
      <4>1. r.msg = call[h].msg
        BY <3>2 DEF Typed, CallOK
      <4> QED BY <2>0, <3>2, <4>1 DEF BodiesStored, At
    <3> QED BY <3>1, <3>2, IndexEffect
  <2>3. BodyBeforeIndex'
    <3>1. ASSUME NEW n \in 0..Len(binlog'), NEW r \in Rows("index", n)'
          PROVE  BodyRow(r.msg) \in Rows("body", n)'
      BY <2>2, <3>1, Prefixes DEF BodiesStored, BodyBeforeIndex
    <3> QED BY <3>1 DEF BodyBeforeIndex
  <2> QED BY <2>1, <2>2, <2>3 DEF BodiesStored
<1> QED BY <1>1, <1>2

(* Whatever slave it reads, SyncMessages finds the body of every row.      *)
THEOREM SyncFindsBodies == Spec => []BodyBeforeIndex
<1> DEFINE Inv == Typed /\ BodiesStored
<1>1. Init => Inv
  BY TypedInductive, BodiesInductive
<1>2. Inv /\ [Next]_vars => Inv'
  BY TypedInductive, BodiesInductive
<1>3. Inv => BodyBeforeIndex
  BY DEF BodiesStored
<1> QED BY <1>1, <1>2, <1>3, PTL DEF Spec

(***************************************************************************)
(* Until a call inserts its rows no inbox refers to its message; a single  *)
(* chat that comes to its notifications has inserted them.                 *)
(***************************************************************************)
Early == {"members", "relation", "incr", "insert"}
Late == {"push", "reply"}

RowsInserted ==
    /\ \A h \in Handlers : call[h].pc \in Early =>
           \A r \in Master("index") : r.msg # call[h].msg
    /\ \A h \in Handlers : call[h].pc \in Late /\ ~ToGroup(h) =>
           call[h].batch \subseteq Master("index")

(* How a call comes to be early or late.                                   *)
LEMMA PhaseEffect ==
    ASSUME Typed, [Next]_vars, NEW g \in Handlers
    PROVE  /\ call'[g].pc \in Early =>
                 call[g].pc \in Early \/ \E r \in Requests : StoreBody(g, r)
           /\ call'[g].pc \in Late =>
                 \/ /\ call[g].pc \in Late
                    /\ call'[g].batch = call[g].batch /\ call'[g].req = call[g].req
                 \/ GetMembers(g)
                 \/ InsertIndex(g)
<1> DEFINE Kept == call'[g].pc = call[g].pc /\ call'[g].batch = call[g].batch
                     /\ call'[g].req = call[g].req
<1>1. ASSUME NEW h \in Handlers, Return(h) PROVE Kept \/ call'[g].pc = "idle"
  BY <1>1, ReturnEffect DEF NoCall, Typed, TypeOK
<1>2. ASSUME NEW h \in Handlers, NEW label, NEW users, Continue(h, label, users)
      PROVE  IF h = g
             THEN /\ call'[g].pc = label
                  /\ call'[g].batch = call[g].batch /\ call'[g].req = call[g].req
             ELSE Kept
  <2>1. call[h] \in Calls
    BY DEF Typed, TypeOK
  <2>2. call'[g] = IF g = h THEN [call[h] EXCEPT !.pc = label, !.todo = users] ELSE call[g]
    BY <1>2 DEF Continue, Typed, TypeOK
  <2> QED BY <2>1, <2>2 DEF Calls
<1>3. ASSUME NEW h \in Handlers, NEW r \in Requests, StoreBody(h, r)
      PROVE  Kept \/ (h = g /\ call'[g].pc \in Early)
  BY <1>3, BeginEffect DEF Typed, Early
<1>4. ASSUME NEW h \in Handlers, NEW u \in Users, Allocate(h, u)
      PROVE  Kept \/ (call[g].pc \in Early /\ call'[g].pc \in Early)
  <2>1. /\ call'[h].pc \in {"insert", "incr"}
        /\ \A k \in Handlers \ {h} : call'[k] = call[k]
    BY <1>4, AllocateEffect DEF Typed
  <2>2. call[h].pc = "incr"
    BY <1>4 DEF Allocate, At
  <2> QED BY <2>1, <2>2 DEF Early
<1>5. ASSUME NEW h \in Handlers, CheckRelation(h)
      PROVE  \/ Kept \/ call'[g].pc = "idle"
             \/ call[g].pc \in Early /\ call'[g].pc \in Early \ Late
  BY <1>1, <1>2, <1>5 DEF CheckRelation, At, Early, Late
<1>6. ASSUME NEW h \in Handlers, GetMembers(h)
      PROVE  Kept \/ (h = g /\ call[g].pc \in Early)
  BY <1>2, <1>6 DEF GetMembers, At, Early
<1>7. ASSUME NEW h \in Handlers, InsertIndex(h)
      PROVE  Kept \/ (h = g /\ call[g].pc \in Early)
  <2>1. (\E users : Continue(h, "push", users)) \/ Return(h)
    BY <1>7 DEF InsertIndex, InsertFailed
  <2>2. call[h].pc \in Early
    BY <1>7 DEF InsertIndex, At, Early
  <2>3. ASSUME Return(h), g # h PROVE Kept
    BY <2>3, ReturnEffect DEF Typed, TypeOK
  <2> QED BY <1>2, <2>1, <2>2, <2>3
<1>8. ASSUME NEW h \in Handlers, NEW u \in Users, Push(h, u)
      PROVE  \/ Kept
             \/ /\ call[g].pc \in Late /\ call'[g].pc \in Late \ Early
                /\ call'[g].batch = call[g].batch /\ call'[g].req = call[g].req
  BY <1>2, <1>8 DEF Push, At, Early, Late
<1>9. ASSUME NEW h \in Handlers, Reply(h) PROVE Kept \/ call'[g].pc = "idle"
  BY <1>1, <1>9 DEF Reply
<1>10. ASSUME UNCHANGED call PROVE Kept
  BY <1>10
<1>11. Early \cap Late = {} /\ "idle" \notin Early \cup Late
  BY DEF Early, Late
<1> HIDE DEF Kept
<1>12. \/ Kept
       \/ call'[g].pc = "idle"
       \/ \E r \in Requests : StoreBody(g, r) /\ call'[g].pc \in Early
       \/ call[g].pc \in Early /\ call'[g].pc \in Early
       \/ call[g].pc \in Early /\ (GetMembers(g) \/ InsertIndex(g))
       \/ /\ call[g].pc \in Late /\ call'[g].pc \in Late \ Early
          /\ call'[g].batch = call[g].batch /\ call'[g].req = call[g].req
  BY <1>3, <1>4, <1>5, <1>6, <1>7, <1>8, <1>9, <1>10
  DEF Next, Step, vars, serverVars, LoseBody, JoinGroup, SlaveReplays
<1> QED BY <1>11, <1>12 DEF Kept

(* No call leaves its early statements with rows in an inbox, none skips   *)
(* the INSERT.                                                             *)
LEMMA RowsInsertedInductive ==
    /\ Init => RowsInserted
    /\ Typed /\ Typed' /\ Counted /\ IdsOK /\ RowsInserted /\ [Next]_vars => RowsInserted'
<1>1. Init => RowsInserted
  BY DEF Init, RowsInserted, NoCall, Early, Late
<1>2. ASSUME Typed, Typed', Counted, IdsOK, RowsInserted, [Next]_vars PROVE RowsInserted'
  <2> USE <1>2
  <2>1. ASSUME NEW g \in Handlers, call'[g].pc \in Early, NEW r \in Master("index")'
        PROVE  r.msg # call'[g].msg
    <3>1. ASSUME NEW q \in Requests, StoreBody(g, q) PROVE r.msg # call'[g].msg
      <4>1. call'[g].msg = lastMsgId + 1 /\ lastMsgId \in Nat
        BY <3>1, BeginEffect DEF Typed, TypeOK
      <4>2. ~ \E h \in Handlers : \/ Continue(h, "push", Owners(call[h].batch))
                                  \/ Return(h)
        <5>1. ASSUME NEW h \in Handlers, Continue(h, "push", Owners(call[h].batch))
              PROVE  call'[g].msg = call[g].msg
          <6>1. call[h] \in Calls
            BY DEF Typed, TypeOK
          <6> QED BY <5>1, <6>1 DEF Continue, Typed, TypeOK, Calls
        <5>2. call[g].msg = 0
          BY <3>1 DEF StoreBody, Typed, CallOK, NoCall
        <5>3. ASSUME NEW h \in Handlers, Return(h) PROVE call'[g].msg = 0
          <6>1. call'[h] = NoCall /\ \A k \in Handlers \ {h} : call'[k] = call[k]
            BY <5>3, ReturnEffect DEF Typed, TypeOK
          <6> QED BY <5>2, <6>1 DEF NoCall
        <5> QED BY <4>1, <5>1, <5>2, <5>3
      <4>3. r \in Held
        BY <4>2, IndexEffect DEF Held
      <4> QED BY <4>1, <4>3 DEF Counted, InboxRows
    <3>2. ASSUME call[g].pc \in Early, call'[g].msg = call[g].msg
          PROVE  r.msg # call'[g].msg
      <4>1. CASE r \in Master("index")
        BY <3>2, <4>1 DEF RowsInserted
      <4>2. ASSUME NEW h \in Handlers, At(h, "insert"), r \in call[h].batch,
                   Continue(h, "push", Owners(call[h].batch)) \/ Return(h)
            PROVE  r.msg # call'[g].msg
        <5>1. call'[h].pc \in {"push", "idle"}
          <6>1. call[h] \in Calls
            BY DEF Typed, TypeOK
          <6> QED BY <4>2, <6>1, ReturnEffect DEF NoCall, Continue, Typed, TypeOK, Calls
        <5>2. h # g
          BY <2>1, <5>1 DEF Early
        <5>3. r.msg = call[h].msg
          BY <4>2 DEF Typed, CallOK
        <5>4. ~At(h, "idle") /\ ~At(g, "idle")
          BY <3>2, <4>2 DEF At, Early
        <5> QED BY <3>2, <5>2, <5>3, <5>4 DEF IdsOK
      <4> QED BY <4>1, <4>2, IndexEffect
    <3>3. ~At(g, "idle")'
      BY <2>1 DEF At, Early
    <3> QED BY <2>1, <3>1, <3>2, <3>3, IdEffect, PhaseEffect
  <2>2. ASSUME NEW g \in Handlers, call'[g].pc \in Late, ~ToGroup(g)'
        PROVE  call'[g].batch \subseteq Master("index")'
    <3>1. CASE /\ call[g].pc \in Late
               /\ call'[g].batch = call[g].batch /\ call'[g].req = call[g].req
      <4>1. ~ToGroup(g)
        BY <2>2, <3>1 DEF ToGroup
      <4> QED BY <3>1, <4>1, TablesGrow DEF RowsInserted
    <3>2. CASE GetMembers(g)
      <4>1. ToGroup(g)
        BY <3>2 DEF GetMembers, Typed, CallOK
      <4>2. call'[g].req = call[g].req
        <5>1. call[g] \in Calls
          BY DEF Typed, TypeOK
        <5> QED BY <3>2, <5>1 DEF GetMembers, Continue, Typed, TypeOK, Calls
      <4> QED BY <2>2, <4>1, <4>2 DEF ToGroup
    <3>3. CASE InsertIndex(g)
      <4>0. call[g] \in Calls /\ binlog \in Seq(TableRows)
        BY DEF Typed, TypeOK
      <4>1. ASSUME Continue(g, "push", Owners(call[g].batch))
            PROVE  call'[g].batch = call[g].batch /\ call'[g].req = call[g].req
        BY <4>0, <4>1 DEF Continue, Typed, TypeOK, Calls
      <4>2. CASE InsertFailed(g)
        <5>1. ~Return(g)
          BY <2>2, ReturnEffect DEF NoCall, Late, Typed, TypeOK
        <5> QED BY <2>2, <4>1, <4>2, <5>1 DEF InsertFailed, ToGroup
      <4>3. CASE Commit("index", call[g].batch) /\ Continue(g, "push", Owners(call[g].batch))
        BY <4>0, <4>1, <4>3, CommitAddsRows
      <4> QED BY <3>3, <4>2, <4>3 DEF InsertIndex, InsertFailed
    <3> QED BY <2>2, <3>1, <3>2, <3>3, PhaseEffect
  <2> QED BY <2>1, <2>2 DEF RowsInserted
<1> QED BY <1>1, <1>2

(* A successful single chat stays stored, because tables only grow.        *)
LEMMA RepliedInductive ==
    /\ Init => RepliedIsStored
    /\ Typed /\ Typed' /\ RowsInserted /\ RepliedIsStored /\ [Next]_vars => RepliedIsStored'
<1>1. Init => RepliedIsStored
  BY DEF Init, RepliedIsStored
<1>2. ASSUME Typed, Typed', RowsInserted, RepliedIsStored, [Next]_vars PROVE RepliedIsStored'
  <2> USE <1>2
  <2>1. CASE UNCHANGED replies
    BY <2>1, TablesGrow DEF RepliedIsStored
  <2>2. ASSUME NEW h \in Handlers, Reply(h) PROVE RepliedIsStored'
    <3>1. PICK n : /\ n \in IF ToGroup(h) THEN {0} ELSE {r.seq : r \in call[h].batch}
                   /\ replies' = replies \cup
                          {[msg |-> call[h].msg, dest |-> call[h].req.dest, seq |-> n]}
      BY <2>2 DEF Reply
    <3>2. ASSUME call[h].req.dest \in Users
          PROVE  InboxRow(call[h].req.dest, n, call[h].msg) \in Master("index")
      <4>1. ~ToGroup(h)
        BY <3>2, UsersAreNotGroups DEF ToGroup
      <4>2. PICK r \in call[h].batch : r.seq = n
        BY <3>1, <4>1
      <4>3. r \in InboxRows
        BY DEF Typed, TypeOK, Calls
      <4>4. r.owner = call[h].req.dest /\ r.msg = call[h].msg
        BY <4>1 DEF Typed, CallOK, Owners
      <4>5. r = InboxRow(call[h].req.dest, n, call[h].msg)
        BY <4>2, <4>3, <4>4 DEF InboxRows, InboxRow
      <4>6. r \in Master("index")
        BY <2>2, <4>1 DEF RowsInserted, Reply, At, Late
      <4> QED BY <4>5, <4>6
    <3>3. \A a \in replies' : a.dest \in Users =>
             InboxRow(a.dest, a.seq, a.msg) \in Master("index")
      BY <3>1, <3>2 DEF RepliedIsStored
    <3> QED BY <3>3, TablesGrow DEF RepliedIsStored
  <2>3. UNCHANGED replies \/ \E h \in Handlers : Reply(h)
    BY DEF Next, Step, vars, serverVars, StoreBody, GetMembers, CheckRelation, Allocate,
           InsertIndex, Push, LoseBody, JoinGroup, SlaveReplays
  <2> QED BY <2>1, <2>2, <2>3
<1> QED BY <1>1, <1>2

(* The rows of a message are committed once and together.                  *)
LEMMA FanOutInductive ==
    /\ Init => FanOutIsAtomic
    /\ Typed /\ Typed' /\ RowsInserted /\ FanOutIsAtomic /\ [Next]_vars => FanOutIsAtomic'
<1>1. ASSUME Init PROVE FanOutIsAtomic
  <2>1. binlog = << [table |-> "member", rows |-> InitialMembers] >>
    BY <1>1 DEF Init
  <2>2. \A n \in 0..1 : Rows("index", n) = {}
    BY <2>1 DEF Rows
  <2> QED BY <2>1, <2>2 DEF FanOutIsAtomic
<1>2. ASSUME Typed, Typed', RowsInserted, FanOutIsAtomic, [Next]_vars PROVE FanOutIsAtomic'
  <2> USE <1>2
  <2>1. ASSUME NEW n \in 0..Len(binlog'), NEW r \in Rows("index", n)',
               NEW s \in Master("index")', s.msg = r.msg
        PROVE  s \in Rows("index", n)'
    <3>1. CASE \A t : Rows(t, n)' = Master(t)'
      BY <2>1, <3>1
    <3>2. CASE n \in 0..Len(binlog) /\ \A t : Rows(t, n)' = Rows(t, n)
      <4>1. r \in Rows("index", n) /\ r \in Master("index")
        BY <2>1, <3>2, PrefixOnMaster DEF Typed, TypeOK
      <4>2. CASE s \in Master("index")
        BY <2>1, <3>2, <4>1, <4>2 DEF FanOutIsAtomic
      <4>3. ASSUME NEW h \in Handlers, At(h, "insert"), s \in call[h].batch PROVE FALSE
        BY <2>1, <4>1, <4>3 DEF RowsInserted, At, Early, Typed, CallOK
      <4> QED BY <4>2, <4>3, IndexEffect
    <3> QED BY <3>1, <3>2, Prefixes
  <2> QED BY <2>1 DEF FanOutIsAtomic
<1> QED BY <1>1, <1>2

(* A reply of success to a single chat means that the message is stored.   *)
THEOREM RepliesHold == Spec => []RepliedIsStored
<1> DEFINE Inv == Typed /\ Counted /\ NoSharedSeq /\ IdsOK /\ RowsInserted /\ RepliedIsStored
<1>1. Init => Inv
  BY TypedInductive, CountedInductive, IdsInductive, RowsInsertedInductive, RepliedInductive
<1>2. Inv /\ [Next]_vars => Inv'
  BY TypedInductive, CountedInductive, IdsInductive, RowsInsertedInductive, RepliedInductive
<1> QED BY <1>1, <1>2, PTL DEF Spec

(* A group message appears in all the inboxes it reaches at once.          *)
THEOREM FanOutAtOnce == Spec => []FanOutIsAtomic
<1> DEFINE Inv == Typed /\ Counted /\ NoSharedSeq /\ IdsOK /\ RowsInserted /\ FanOutIsAtomic
<1>1. Init => Inv
  BY TypedInductive, CountedInductive, IdsInductive, RowsInsertedInductive, FanOutInductive
<1>2. Inv /\ [Next]_vars => Inv'
  BY TypedInductive, CountedInductive, IdsInductive, RowsInsertedInductive, FanOutInductive
<1> QED BY <1>1, <1>2, PTL DEF Spec

-------------------------------------------------------------------------------
(* The service implements the abstract inboxes of module Inbox *)

(***************************************************************************)
(* A call has no rows before its loop of INCRs, which visits each user     *)
(* once; and ids stay within the bound of the model.                       *)
(***************************************************************************)
Unsent(h) == call[h].pc \in {"members", "relation"}

Fresh ==
    /\ lastMsgId <= MaxMessages
    /\ \A h \in Handlers :
           /\ Unsent(h) => call[h].batch = {}
           /\ At(h, "incr") => call[h].todo \cap Owners(call[h].batch) = {}

(* A call keeps its loop variables, moves on, or comes to another part.    *)
LEMMA FreshInductive ==
    /\ Init => Fresh
    /\ Typed /\ Fresh /\ [Next]_vars => Fresh'
<1>1. Init => Fresh
  BY MaxMessagesAssumption DEF Init, Fresh, Unsent, At, NoCall
<1>2. ASSUME Typed, Fresh, [Next]_vars PROVE Fresh'
  <2> USE <1>2
  <2> DEFINE OK(h) == /\ Unsent(h) => call[h].batch = {}
                      /\ At(h, "incr") => call[h].todo \cap Owners(call[h].batch) = {}
  <2>1. lastMsgId' <= MaxMessages
    <3>1. \/ \E h \in Handlers : \E r \in Requests : StoreBody(h, r)
          \/ LoseBody
          \/ UNCHANGED lastMsgId
      BY DEF Next, Step, vars, serverVars, GetMembers, CheckRelation, Allocate, InsertIndex,
             Push, Reply, JoinGroup, SlaveReplays
    <3>2. lastMsgId \in Nat /\ MaxMessages \in Nat /\ lastMsgId <= MaxMessages
      BY MaxMessagesAssumption DEF Typed, TypeOK, Fresh
    <3> QED BY <3>1, <3>2 DEF StoreBody, LoseBody
  <2>2. ASSUME NEW g \in Handlers, call'[g] = call[g] PROVE OK(g)'
    BY <2>2 DEF Fresh, Unsent, At
  <2>3. ASSUME NEW h \in Handlers, NEW label \in Labels, NEW users \in SUBSET Users,
               Continue(h, label, users),
               label = "incr" => call[h].batch = {},
               label \notin {"members", "relation"},
               NEW g \in Handlers
        PROVE  OK(g)'
    <3>1. /\ call'[h].pc = label /\ call'[h].batch = call[h].batch
          /\ \A k \in Handlers \ {h} : call'[k] = call[k]
      BY <2>3, ContinueEffect DEF Typed, TypeOK
    <3>2. OK(h)'
      BY <2>3, <3>1 DEF Unsent, At, Owners
    <3> QED BY <2>2, <3>1, <3>2
  <2>4. ASSUME NEW h \in Handlers, Return(h), NEW g \in Handlers PROVE OK(g)'
    <3>1. call'[h] = NoCall /\ \A k \in Handlers \ {h} : call'[k] = call[k]
      BY <2>4, ReturnEffect DEF Typed, TypeOK
    <3>2. OK(h)'
      BY <3>1 DEF Unsent, At, NoCall
    <3> QED BY <2>2, <3>1, <3>2
  <2>a. /\ "incr" \in Labels /\ "push" \in Labels /\ "reply" \in Labels
        /\ \A h \in Handlers : /\ call[h].todo \in SUBSET Users
                               /\ Owners(call[h].batch) \in SUBSET Users
    BY DEF Labels, Typed, TypeOK, Calls, Owners, InboxRows
  <2>5. ASSUME NEW g \in Handlers PROVE OK(g)'
    <3>1. ASSUME NEW h \in Handlers, NEW r \in Requests, StoreBody(h, r) PROVE OK(g)'
      <4>1. /\ call'[h].pc \in {"members", "relation"} /\ call'[h].batch = {}
            /\ \A k \in Handlers \ {h} : call'[k] = call[k]
        BY <3>1, BeginEffect DEF Typed
      <4>2. OK(h)'
        BY <4>1 DEF Unsent, At
      <4> QED BY <2>2, <4>1, <4>2
    <3>2. ASSUME NEW h \in Handlers, GetMembers(h) PROVE OK(g)'
      <4>1. PICK found \in SUBSET Users :
              Continue(h, IF found = {} THEN "reply" ELSE "incr", found)
        BY <3>2 DEF GetMembers, Members
      <4>2. call[h].batch = {}
        BY <3>2 DEF GetMembers, At, Fresh, Unsent
      <4> QED BY <2>3, <2>a, <4>1, <4>2
    <3>3. ASSUME NEW h \in Handlers, CheckRelation(h) PROVE OK(g)'
      <4>1. call[h].batch = {} /\ call[h].req.dest \in Users
        BY <3>3 DEF CheckRelation, At, Fresh, Unsent, Typed, CallOK, ToGroup, Requests
      <4>2. CASE Continue(h, "incr", {call[h].req.dest})
        BY <2>3, <2>a, <4>1, <4>2
      <4> QED BY <2>4, <3>3, <4>2 DEF CheckRelation
    <3>4. ASSUME NEW h \in Handlers, NEW u \in Users, Allocate(h, u) PROVE OK(g)'
      <4>1. PICK n : /\ call'[h].pc = (IF call[h].todo = {u} THEN "insert" ELSE "incr")
                     /\ call'[h].todo = call[h].todo \ {u}
                     /\ call'[h].batch = call[h].batch \cup {InboxRow(u, n, call[h].msg)}
                     /\ \A k \in Handlers \ {h} : call'[k] = call[k]
        BY <3>4, AllocateEffect DEF Typed
      <4>2. call[h].todo \cap Owners(call[h].batch) = {}
        BY <3>4 DEF Allocate, Fresh
      <4>3. OK(h)'
        BY <4>1, <4>2 DEF Unsent, At, Owners, InboxRow
      <4> QED BY <2>2, <4>1, <4>3
    <3>5. ASSUME NEW h \in Handlers, InsertIndex(h) PROVE OK(g)'
      <4>1. Continue(h, "push", Owners(call[h].batch)) \/ Return(h)
        BY <3>5 DEF InsertIndex, InsertFailed
      <4> QED BY <2>3, <2>4, <2>a, <4>1
    <3>6. ASSUME NEW h \in Handlers, NEW u \in Users, Push(h, u) PROVE OK(g)'
      BY <2>3, <2>a, <3>6 DEF Push
    <3>7. ASSUME NEW h \in Handlers, Reply(h) PROVE OK(g)'
      BY <2>4, <3>7 DEF Reply
    <3>8. CASE UNCHANGED call
      BY <2>2, <3>8
    <3> QED
      BY <3>1, <3>2, <3>3, <3>4, <3>5, <3>6, <3>7, <3>8
      DEF Next, Step, LoseBody, JoinGroup, SlaveReplays, vars, serverVars
  <2> QED BY <2>1, <2>5 DEF Fresh
<1> QED BY <1>1, <1>2

-------------------------------------------------------------------------------
(* The refinement, step by step *)

Preparing(h) == call[h].pc \in {"incr", "insert"}

(* A step of a call that prepares nothing, before and after, prepares      *)
(* nothing at all.                                                         *)
LEMMA NothingPrepared ==
    ASSUME NEW h \in Handlers,
           \A g \in Handlers \ {h} : call'[g] = call[g],
           Preparing(h) => call[h].batch = {},
           Preparing(h)' => call'[h].batch = {}
    PROVE  Prepared' = Prepared
<1>1. \A x : x \in Prepared <=> \E g \in Handlers : Preparing(g) /\ x \in call[g].batch
  BY DEF Prepared, Preparing
<1>2. \A x : x \in Prepared' <=> \E g \in Handlers : Preparing(g)' /\ x \in call'[g].batch
  BY DEF Prepared, Preparing
<1>3. \A x : x \in Prepared' <=> x \in Prepared
  BY <1>1, <1>2 DEF Preparing
<1> QED BY <1>3

(* The inductive invariant under which steps map to steps.                 *)
ServiceInv == Typed /\ Counted /\ NoSharedSeq /\ IdsOK /\ RowsInserted /\ Fresh

(* The invariant holds of the initial states and is kept by every step.    *)
LEMMA InvInductive ==
    /\ Init => ServiceInv
    /\ ServiceInv /\ [Next]_vars => ServiceInv'
BY TypedInductive, CountedInductive, IdsInductive, RowsInsertedInductive, FreshInductive
   DEF ServiceInv

(* All the rows prepared for the message of a call are those of the call.  *)
LEMMA OwnRows ==
    ASSUME ServiceInv, NEW h \in Handlers, Preparing(h)
    PROVE  /\ call[h].msg \in 1..MaxMessages
           /\ Promise!PreparedFor(call[h].msg) = call[h].batch
           /\ \A r \in Master("index") : r.msg # call[h].msg
<1>1. ~At(h, "idle") /\ call[h].pc \in Early
  BY DEF Preparing, At, Early
<1>2. call[h].msg \in 1..MaxMessages
  <2>1. call[h].msg \in 1..lastMsgId /\ lastMsgId \in Nat /\ lastMsgId <= MaxMessages
    BY <1>1 DEF ServiceInv, Typed, TypeOK, CallOK, Fresh
  <2> QED BY <2>1, MaxMessagesAssumption
<1>3. ASSUME NEW g \in Handlers, Preparing(g), NEW r \in call[g].batch, r.msg = call[h].msg
      PROVE  g = h
  <2>1. r.msg = call[g].msg /\ ~At(g, "idle")
    BY <1>3 DEF ServiceInv, Typed, CallOK, Preparing, At
  <2> QED BY <1>1, <1>3, <2>1 DEF ServiceInv, IdsOK
<1>4. \A r \in call[h].batch : r \in Prepared /\ r.msg = call[h].msg
  BY DEF Prepared, Preparing, ServiceInv, Typed, CallOK
<1>5. \A r \in Prepared : r.msg = call[h].msg => r \in call[h].batch
  BY <1>3 DEF Prepared, Preparing
<1>6. Promise!PreparedFor(call[h].msg) = call[h].batch
  BY <1>4, <1>5 DEF Promise!PreparedFor
<1> QED BY <1>1, <1>2, <1>6 DEF ServiceInv, RowsInserted

(* INCR for one addressee prepares one row. *)
LEMMA AllocatePrepares ==
    ASSUME ServiceInv, NEW h \in Handlers, NEW u \in Users, Allocate(h, u)
    PROVE  \E m \in 1..MaxMessages : \E n \in {0, seqCounter[u] + 1} : Promise!Prepare(u, m, n)
<1> DEFINE m == call[h].msg
<1>1. PICK counted \in BOOLEAN, answered \in BOOLEAN :
        /\ answered => counted
        /\ seqCounter' = [seqCounter EXCEPT ![u] = IF counted THEN @ + 1 ELSE @]
        /\ call' = [call EXCEPT
               ![h].batch = @ \cup {InboxRow(u, IF answered THEN seqCounter'[u] ELSE 0, m)},
               ![h].todo = @ \ {u},
               ![h].pc = IF call[h].todo = {u} THEN "insert" ELSE "incr"]
  BY DEF Allocate, Incr
<1> DEFINE n == IF answered THEN seqCounter'[u] ELSE 0
           new == InboxRow(u, n, m)
<1>2. At(h, "incr") /\ Preparing(h) /\ u \in call[h].todo /\ UNCHANGED binlog
  BY DEF Allocate, At, Preparing, storeVars
<1>3. call \in [Handlers -> Calls] /\ seqCounter \in [Users -> Nat]
  BY DEF ServiceInv, Typed, TypeOK
<1>4. /\ call'[h].batch = call[h].batch \cup {new}
      /\ Preparing(h)'
      /\ \A g \in Handlers \ {h} : call'[g] = call[g]
  BY <1>1, <1>3 DEF Preparing, Calls
<1>5. /\ n \in {0, seqCounter[u] + 1}
      /\ \/ seqCounter' = [seqCounter EXCEPT ![u] = @ + 1]
         \/ n = 0 /\ seqCounter' = seqCounter
  BY <1>1, <1>3
<1>6. \A r \in Prepared \cup Master("index") : ~(r.owner = u /\ r.msg = m)
  <2>1. \A r \in call[h].batch : r.owner # u
    BY <1>2 DEF ServiceInv, Fresh, Owners
  <2>2. \A r \in Prepared : r.msg = m => r \in call[h].batch
    BY <1>2, OwnRows DEF Promise!PreparedFor
  <2> QED BY <1>2, <2>1, <2>2, OwnRows
<1> HIDE DEF n
<1>7. Prepared' = Prepared \cup {new}
  <2>1. \A x : x \in Prepared <=> \E g \in Handlers : Preparing(g) /\ x \in call[g].batch
    BY DEF Prepared, Preparing
  <2>2. \A x : x \in Prepared' <=> \E g \in Handlers : Preparing(g)' /\ x \in call'[g].batch
    BY DEF Prepared, Preparing
  <2>3. \A g \in Handlers \ {h} : Preparing(g)' <=> Preparing(g)
    BY <1>4 DEF Preparing
  <2>4. \A x : x \in Prepared' <=> x \in Prepared \/ x = new
    BY <1>2, <1>4, <2>1, <2>2, <2>3
  <2> QED BY <2>4
<1>8. Master("index")' = Master("index")
  BY <1>2 DEF Master, Rows
<1>9. Promise!Prepare(u, m, n)
  BY <1>5, <1>6, <1>7, <1>8 DEF Promise!Prepare, InboxRow
<1>10. m \in 1..MaxMessages
  BY <1>2, OwnRows
<1> QED BY <1>5, <1>9, <1>10

(* The INSERT deposits all the rows of its message, or discards them. *)
LEMMA InsertDeposits ==
    ASSUME ServiceInv, NEW h \in Handlers, InsertIndex(h)
    PROVE  \E m \in 1..MaxMessages : Promise!Deposit(m) \/ Promise!Discard(m)
<1> DEFINE m == call[h].msg
<1>1. Preparing(h) /\ UNCHANGED seqCounter
  BY DEF InsertIndex, At, Preparing
<1>2. m \in 1..MaxMessages /\ Promise!PreparedFor(m) = call[h].batch
  BY <1>1, OwnRows
<1>3. call \in [Handlers -> Calls] /\ binlog \in Seq(TableRows)
  BY DEF ServiceInv, Typed, TypeOK
<1>4. ~Preparing(h)' /\ \A g \in Handlers \ {h} : call'[g] = call[g]
  <2>1. CASE Return(h)
    BY <1>3, <2>1, ReturnEffect DEF NoCall, Preparing
  <2>2. CASE Continue(h, "push", Owners(call[h].batch))
    <3>1. Owners(call[h].batch) \in SUBSET Users /\ "push" \in Labels
      BY <1>3 DEF Calls, Owners, InboxRows, Labels
    <3> QED BY <1>3, <2>2, <3>1, ContinueEffect DEF Preparing
  <2> QED BY <2>1, <2>2 DEF InsertIndex, InsertFailed
<1>5. Prepared' = Prepared \ call[h].batch
  <2>1. \A x : x \in Prepared <=> \E g \in Handlers : Preparing(g) /\ x \in call[g].batch
    BY DEF Prepared, Preparing
  <2>2. \A x : x \in Prepared' <=> \E g \in Handlers : Preparing(g)' /\ x \in call'[g].batch
    BY DEF Prepared, Preparing
  <2>3. \A g \in Handlers \ {h} : Preparing(g)' <=> Preparing(g)
    BY <1>4 DEF Preparing
  <2>4. \A g \in Handlers \ {h} : Preparing(g) => call[g].batch \cap call[h].batch = {}
    <3>1. ASSUME NEW g \in Handlers \ {h}, Preparing(g), NEW x \in call[g].batch,
                 x \in call[h].batch
          PROVE  FALSE
      <4>1. x.msg = call[g].msg /\ x.msg = call[h].msg
        BY <3>1 DEF ServiceInv, Typed, CallOK
      <4>2. ~At(g, "idle") /\ ~At(h, "idle")
        BY <1>1, <3>1 DEF Preparing, At
      <4> QED BY <4>1, <4>2 DEF ServiceInv, IdsOK
    <3> QED BY <3>1
  <2>5. \A x : x \in Prepared' <=> x \in Prepared /\ x \notin call[h].batch
    BY <1>1, <1>4, <2>1, <2>2, <2>3, <2>4
  <2> QED BY <2>5
<1>6. CASE UNCHANGED binlog
  <2>1. Master("index")' = Master("index")
    BY <1>6 DEF Master, Rows
  <2>2. Promise!Discard(m)
    BY <1>1, <1>2, <1>5, <2>1 DEF Promise!Discard
  <2> QED BY <1>2, <2>2
<1>7. CASE Commit("index", call[h].batch) /\ \A r \in call[h].batch : ~SlotTaken(r)
  <2>1. Master("index")' = Master("index") \cup call[h].batch
    BY <1>3, <1>7, CommitAddsRows
  <2>2. \A r \in call[h].batch, s \in Master("index") : ~(r.owner = s.owner /\ r.seq = s.seq)
    BY <1>7 DEF SlotTaken
  <2>3. Promise!Deposit(m)
    BY <1>1, <1>2, <1>5, <2>1, <2>2 DEF Promise!Deposit
  <2> QED BY <1>2, <2>3
<1> QED BY <1>6, <1>7 DEF InsertIndex

(* Every step prepares a row, deposits or discards the rows of a message,  *)
(* or leaves the abstract inboxes as they are.                             *)
LEMMA StepImplements ==
    ServiceInv /\ [Next]_vars => [Promise!Next]_(Promise!inboxVars)
<1> SUFFICES ASSUME ServiceInv, [Next]_vars PROVE Promise!Next \/ UNCHANGED Promise!inboxVars
  OBVIOUS
<1>0. call \in [Handlers -> Calls] /\ binlog \in Seq(TableRows)
  BY DEF ServiceInv, Typed, TypeOK
<1>a. /\ "incr" \in Labels /\ "push" \in Labels /\ "reply" \in Labels
      /\ \A h \in Handlers : call[h].todo \in SUBSET Users
  BY <1>0 DEF Labels, Calls
<1>b. ASSUME UNCHANGED <<seqCounter, call>>, Master("index")' = Master("index")
      PROVE  UNCHANGED Promise!inboxVars
  BY <1>b DEF Promise!inboxVars, Prepared
<1>c. ASSUME UNCHANGED binlog PROVE Master("index")' = Master("index")
  BY <1>c DEF Master, Rows
<1>1. ASSUME NEW h \in Handlers, NEW r \in Requests, StoreBody(h, r)
      PROVE  UNCHANGED Promise!inboxVars
  <2>1. /\ call'[h].batch = {}
        /\ \A g \in Handlers \ {h} : call'[g] = call[g]
    BY <1>1, BeginEffect DEF ServiceInv, Typed
  <2>2. ~Preparing(h)
    BY <1>1 DEF StoreBody, At, Preparing
  <2>3. Prepared' = Prepared
    BY <2>1, <2>2, NothingPrepared
  <2>4. Master("index")' = Master("index") /\ UNCHANGED seqCounter
    BY <1>0, <1>1, CommitAddsRows DEF StoreBody
  <2> QED BY <2>3, <2>4 DEF Promise!inboxVars
<1>2. CASE LoseBody
  BY <1>0, <1>2, <1>b, CommitAddsRows DEF LoseBody
<1>3. ASSUME NEW h \in Handlers, GetMembers(h) PROVE UNCHANGED Promise!inboxVars
  <2>1. PICK found \in SUBSET Users :
          Continue(h, IF found = {} THEN "reply" ELSE "incr", found)
    BY <1>3 DEF GetMembers, Members
  <2>2. call'[h].batch = call[h].batch /\ \A g \in Handlers \ {h} : call'[g] = call[g]
    BY <1>0, <1>a, <2>1, ContinueEffect
  <2>3. call[h].batch = {}
    BY <1>3 DEF GetMembers, At, ServiceInv, Fresh, Unsent
  <2>4. Prepared' = Prepared
    BY <2>2, <2>3, NothingPrepared
  <2> QED BY <1>3, <1>c, <2>4 DEF GetMembers, storeVars, Promise!inboxVars
<1>4. ASSUME NEW h \in Handlers, CheckRelation(h) PROVE UNCHANGED Promise!inboxVars
  <2>1. call[h].batch = {} /\ call[h].req.dest \in Users
    BY <1>4 DEF CheckRelation, At, ServiceInv, Fresh, Unsent, Typed, CallOK, ToGroup, Requests
  <2>2. call'[h].batch = {} /\ \A g \in Handlers \ {h} : call'[g] = call[g]
    <3>1. CASE Continue(h, "incr", {call[h].req.dest})
      BY <1>0, <1>a, <2>1, <3>1, ContinueEffect
    <3>2. CASE Return(h)
      BY <1>0, <3>2, ReturnEffect DEF NoCall
    <3> QED BY <1>4, <3>1, <3>2 DEF CheckRelation
  <2>3. Prepared' = Prepared
    BY <2>1, <2>2, NothingPrepared
  <2> QED BY <1>4, <1>c, <2>3 DEF CheckRelation, storeVars, Promise!inboxVars
<1>5. ASSUME NEW h \in Handlers, NEW u \in Users, Allocate(h, u) PROVE Promise!Next
  BY <1>5, AllocatePrepares DEF Promise!Next
<1>6. ASSUME NEW h \in Handlers, InsertIndex(h) PROVE Promise!Next
  BY <1>6, InsertDeposits DEF Promise!Next
<1>7. ASSUME NEW h \in Handlers, NEW u \in Users, Push(h, u)
      PROVE  UNCHANGED Promise!inboxVars
  <2>1. Continue(h, IF call[h].todo = {u} THEN "reply" ELSE "push", call[h].todo \ {u})
    BY <1>7 DEF Push
  <2>2. /\ ~Preparing(h)' /\ ~Preparing(h)
        /\ \A g \in Handlers \ {h} : call'[g] = call[g]
    BY <1>0, <1>7, <1>a, <2>1, ContinueEffect DEF Push, At, Preparing
  <2>3. Prepared' = Prepared
    BY <2>2, NothingPrepared
  <2> QED BY <1>7, <1>c, <2>3 DEF Push, storeVars, Promise!inboxVars
<1>8. ASSUME NEW h \in Handlers, Reply(h) PROVE UNCHANGED Promise!inboxVars
  <2>1. /\ ~Preparing(h)' /\ ~Preparing(h)
        /\ \A g \in Handlers \ {h} : call'[g] = call[g]
    BY <1>0, <1>8, ReturnEffect DEF Reply, At, Preparing, NoCall
  <2>2. Prepared' = Prepared
    BY <2>1, NothingPrepared
  <2> QED BY <1>8, <1>c, <2>2 DEF Reply, storeVars, Promise!inboxVars
<1>9. ASSUME NEW g \in Groups, NEW u \in Users, JoinGroup(g, u)
      PROVE  UNCHANGED Promise!inboxVars
  BY <1>0, <1>9, <1>b, CommitAddsRows DEF JoinGroup, serverVars
<1>10. ASSUME NEW s \in Slaves, SlaveReplays(s) PROVE UNCHANGED Promise!inboxVars
  BY <1>10, <1>b, <1>c DEF SlaveReplays, Replicate, serverVars
<1>11. CASE UNCHANGED vars
  BY <1>11, <1>b, <1>c DEF vars, storeVars, serverVars
<1> QED
  BY <1>1, <1>2, <1>3, <1>4, <1>5, <1>6, <1>7, <1>8, <1>9, <1>10, <1>11 DEF Next, Step

(* The service implements the abstract inboxes: at most one row of a       *)
(* message in an inbox, under a number of its own, in all inboxes at once. *)
THEOREM InboxRefinement == Spec => ImplementsInbox
<1>1. Init => Promise!Init
  <2> SUFFICES ASSUME Init PROVE Promise!Init
    OBVIOUS
  <2>1. binlog = << [table |-> "member", rows |-> InitialMembers] >>
    BY DEF Init
  <2>2. Master("index") = {}
    BY <2>1 DEF Master, Rows
  <2>3. Prepared = {}
    BY DEF Init, Prepared, NoCall
  <2> QED BY <2>2, <2>3 DEF Init, Promise!Init
<1>2. ServiceInv /\ [Next]_vars => [Promise!Next]_(Promise!inboxVars)
  BY StepImplements
<1> QED BY <1>1, <1>2, InvInductive, PTL DEF Spec, ImplementsInbox, Promise!Spec
===============================================================================
