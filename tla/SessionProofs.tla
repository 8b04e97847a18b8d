---------------------------- MODULE SessionProofs ----------------------------
(***************************************************************************)
(* Proofs of the safety properties of SessionWriter, for any packets and   *)
(* any number of kicks; that the whole session of SessionReader implements *)
(* it, so they hold there too; and that a session answers its requests in  *)
(* their order, whatever they are and however the connection cuts them.    *)
(***************************************************************************)
EXTENDS SessionReader, TLAPS

LEMMA SequenceFacts ==
    ASSUME NEW S, NEW s \in Seq(S)
    PROVE  /\ \A x \in S : /\ Append(s, x) \in Seq(S)
                           /\ Append(s, x) # <<>>
                           /\ Len(Append(s, x)) = Len(s) + 1
                           /\ \A i \in 1..Len(s) : Append(s, x)[i] = s[i]
                           /\ Append(s, x)[Len(s) + 1] = x
           /\ s # <<>> => /\ Head(s) \in S /\ Tail(s) \in Seq(S)
                          /\ Head(s) = s[1]
                          /\ Len(s) \in Nat \ {0} /\ Len(Tail(s)) = Len(s) - 1
                          /\ \A i \in 1..Len(Tail(s)) : Tail(s)[i] = s[i + 1]
OBVIOUS

LEMMA EmptyFacts ==
    ASSUME NEW S, NEW s \in Seq(S)
    PROVE  Len(s) = 0 <=> s = <<>>
OBVIOUS

(* The first of three queues takes over the front of the second; the       *)
(* second that of the third; all take something in at the end.             *)
LEMMA QueueFacts ==
    ASSUME NEW S, NEW a \in Seq(S), NEW b \in Seq(S), NEW c \in Seq(S)
    PROVE  /\ b # <<>> => Append(a, Head(b)) \o Tail(b) = a \o b
           /\ c # <<>> => a \o Append(b, Head(c)) \o Tail(c) = a \o b \o c
           /\ \A x \in S : a \o b \o Append(c, x) = Append(a \o b \o c, x)
<1>1. ASSUME NEW p \in Seq(S), NEW q \in Seq(S), q # <<>>
      PROVE  Append(p, Head(q)) \o Tail(q) = p \o q
  BY <1>1
<1>2. ASSUME c # <<>>
      PROVE  a \o Append(b, Head(c)) \o Tail(c) = a \o b \o c
  <2>1. Head(c) \in S /\ Tail(c) \in Seq(S)
    BY <1>2
  <2>2. a \o Append(b, Head(c)) = Append(a \o b, Head(c))
    BY <2>1
  <2> QED BY <1>1, <1>2, <2>2
<1>3. ASSUME NEW x \in S, NEW p \in Seq(S)
      PROVE  p \o Append(c, x) = Append(p \o c, x)
  OBVIOUS
<1>4. a \o b \in Seq(S)
  OBVIOUS
<1>5. ASSUME b # <<>> PROVE Append(a, Head(b)) \o Tail(b) = a \o b
  BY <1>1, <1>5
<1>6. ASSUME NEW x \in S PROVE a \o b \o Append(c, x) = Append(a \o b \o c, x)
  BY <1>3, <1>4
<1> QED BY <1>2, <1>5, <1>6

-------------------------------------------------------------------------------
(* One write at a time *)

Types == WriterTypeOK /\ OneWriteAtATime

(* DoWrite starts a write of the front of the queue if none is under way.  *)
LEMMA DoWriteEffect ==
    ASSUME NEW q \in Seq(Items), NEW busy \in BOOLEAN, NEW ops \in Seq(Items),
           NEW rest \in Seq(Items),
           Len(ops) = IF busy THEN 1 ELSE 0,
           busy => rest # <<>> /\ Head(rest) = Head(ops),
           rest = q \/ (q = <<>> /\ ~busy),
           DoWrite(q, busy, ops)
    PROVE  /\ writing' \in BOOLEAN /\ inFlight' \in Seq(Items)
           /\ Len(inFlight') = IF writing' THEN 1 ELSE 0
           /\ writing' => rest # <<>> /\ Head(rest) = Head(inFlight')
<1>1. CASE busy \/ q = <<>>
  BY <1>1 DEF DoWrite
<1>2. CASE ~busy /\ q # <<>>
  <2>1. ops = <<>>
    BY <1>2
  <2>2. writing' = TRUE /\ inFlight' = <<Head(q)>> /\ Head(q) \in Items
    BY <1>2, <2>1 DEF DoWrite
  <2> QED BY <1>2, <2>2
<1> QED BY <1>1, <1>2

LEMMA TypesInit == Init => Types
<1>1. <<>> \in Seq(Items) /\ Len(<<>>) = 0 /\ 0 \in 0..MaxKicks
  BY MaxKicksAssumption
<1> QED BY <1>1 DEF Init, Types, WriterTypeOK, OneWriteAtATime

LEMMA TypesNext == Types /\ [Next]_vars => Types'
<1> SUFFICES ASSUME Types, [Next]_vars PROVE Types'
  OBVIOUS
<1> USE MaxKicksAssumption
<1>1. ASSUME NEW p \in Items, Post(p), kicks' \in 0..MaxKicks PROVE Types'
  BY <1>1 DEF Post, Types, WriterTypeOK, OneWriteAtATime
<1>2. ASSUME NEW p \in Packets, Send(p) PROVE Types'
  BY <1>1, <1>2 DEF Send, Items, Types, WriterTypeOK
<1>3. CASE Kick
  BY <1>1, <1>3 DEF Kick, Items, Types, WriterTypeOK
<1>4. CASE RunPost
  <2> DEFINE q == Append(queue, Head(posts))
  <2>1. posts' \in Seq(Items) /\ queue' = q /\ q \in Seq(Items) /\ Head(posts) \in Items
    BY <1>4 DEF RunPost, Push, Types, WriterTypeOK
  <2>2. writing => queue # <<>> /\ Head(q) = Head(queue) /\ q # <<>>
    BY <2>1 DEF Types, WriterTypeOK, OneWriteAtATime
  <2>3. DoWrite(q, writing, inFlight)
    BY <1>4, <2>1 DEF RunPost
  <2>4. /\ writing \in BOOLEAN /\ inFlight \in Seq(Items)
        /\ Len(inFlight) = IF writing THEN 1 ELSE 0
        /\ writing => q # <<>> /\ Head(q) = Head(inFlight)
    BY <2>2 DEF Types, WriterTypeOK, OneWriteAtATime
  <2>5. /\ writing' \in BOOLEAN /\ inFlight' \in Seq(Items)
        /\ Len(inFlight') = IF writing' THEN 1 ELSE 0
        /\ writing' => q # <<>> /\ Head(q) = Head(inFlight')
    BY <2>1, <2>3, <2>4, DoWriteEffect
  <2> QED BY <1>4, <2>1, <2>5 DEF RunPost, Types, WriterTypeOK, OneWriteAtATime
<1>5. ASSUME NEW ok \in BOOLEAN, OnWrite(ok) PROVE Types'
  <2> DEFINE q == IF queue = <<>> THEN queue ELSE Tail(queue)
  <2>1. queue' = q /\ q \in Seq(Items)
    BY <1>5 DEF OnWrite, Types, WriterTypeOK
  <2>2. Tail(inFlight) = <<>> /\ Head(inFlight) \in Items
    <3>1. inFlight \in Seq(Items) /\ inFlight # <<>> /\ Len(inFlight) = 1
      BY <1>5 DEF OnWrite, Types, WriterTypeOK, OneWriteAtATime
    <3>2. Tail(inFlight) \in Seq(Items) /\ Len(Tail(inFlight)) = 0 /\ Head(inFlight) \in Items
      BY <3>1, SequenceFacts
    <3> QED BY <3>2, EmptyFacts
  <2>3. DoWrite(NextWrites(q, ok), FALSE, <<>>)
    BY <1>5, <2>2 DEF OnWrite
  <2>4. NextWrites(q, ok) \in Seq(Items) /\ (q = NextWrites(q, ok) \/ NextWrites(q, ok) = <<>>)
    BY <2>1 DEF NextWrites
  <2>5. /\ writing' \in BOOLEAN /\ inFlight' \in Seq(Items)
        /\ Len(inFlight') = IF writing' THEN 1 ELSE 0
        /\ writing' => q # <<>> /\ Head(q) = Head(inFlight')
    <3>1. <<>> \in Seq(Items) /\ Len(<<>>) = 0
      OBVIOUS
    <3>2. q = NextWrites(q, ok) \/ (NextWrites(q, ok) = <<>> /\ ~FALSE)
      BY <2>4
    <3>3. FALSE \in BOOLEAN /\ (FALSE => q # <<>> /\ Head(q) = Head(<<>>))
      OBVIOUS
    <3>4. Len(<<>>) = IF FALSE THEN 1 ELSE 0
      BY <3>1
    <3> HIDE DEF q
    <3> QED BY <3>3, <3>4, <2>1, <2>3, <2>4, <3>1, <3>2, DoWriteEffect
  <2>6. closing' \in BOOLEAN /\ wire' \in Seq(Items)
    BY <1>5, <2>2 DEF OnWrite, Types, WriterTypeOK
  <2> QED BY <1>5, <2>1, <2>5, <2>6 DEF OnWrite, Types, WriterTypeOK, OneWriteAtATime
<1>6. CASE Break
  BY <1>6 DEF Break, Types, WriterTypeOK, OneWriteAtATime
<1>7. CASE OnReadError
  BY <1>7 DEF OnReadError, Types, WriterTypeOK, OneWriteAtATime
<1>8. CASE UNCHANGED vars
  BY <1>8 DEF vars, sessionVars, Types, WriterTypeOK, OneWriteAtATime
<1> QED BY <1>2, <1>3, <1>4, <1>5, <1>6, <1>7, <1>8 DEF Next

LEMMA TypesInvariant == Spec => []Types
BY TypesInit, TypesNext, PTL DEF Spec

(* The variables of the writer keep their types.                           *)
THEOREM TypeCorrect == Spec => []WriterTypeOK
BY TypesInvariant, PTL DEF Types

(* There is never more than one async_write under way, and its buffer      *)
(* stays in the queue until OnWrite, whichever threads send and kick.      *)
THEOREM OneWrite == Spec => []OneWriteAtATime
BY TypesInvariant, PTL DEF Types

-------------------------------------------------------------------------------
(* Nothing is lost *)

(* OnWrite after a success moves the front of the queue to the wire.       *)
LEMMA OnWriteMoves ==
    ASSUME Types, OnWrite(TRUE)
    PROVE  /\ queue # <<>> /\ queue' = Tail(queue)
           /\ wire' = Append(wire, Head(queue))
<1>1. inFlight # <<>> /\ writing
  BY DEF OnWrite, Types, WriterTypeOK, OneWriteAtATime
<1> QED BY <1>1 DEF OnWrite, Types, OneWriteAtATime

LEMMA NothingLostNext == Types /\ NothingLost /\ [Next]_vars => NothingLost'
<1> SUFFICES ASSUME Types, NothingLost, [Next]_vars, ~broken', ~closing'
             PROVE  (wire \o queue \o posts = accepted)'
  BY DEF NothingLost
<1>T. /\ wire \in Seq(Items) /\ queue \in Seq(Items) /\ posts \in Seq(Items)
      /\ closing \in BOOLEAN /\ broken \in BOOLEAN
  BY DEF Types, WriterTypeOK
<1>O. ~broken /\ ~closing
  BY <1>T DEF Next, Send, Kick, Post, RunPost, OnWrite, Break, OnReadError, vars, sessionVars
<1>E. wire \o queue \o posts = accepted
  BY <1>O DEF NothingLost
<1>1. ASSUME NEW p \in Items, Post(p) PROVE (wire \o queue \o posts = accepted)'
  <2>1. wire \o queue \o Append(posts, p) = Append(wire \o queue \o posts, p)
    BY <1>T, QueueFacts
  <2> QED BY <1>1, <1>E, <2>1 DEF Post
<1>2. ASSUME NEW p \in Packets, Send(p) PROVE (wire \o queue \o posts = accepted)'
  BY <1>1, <1>2 DEF Send, Items
<1>3. CASE Kick
  BY <1>1, <1>3 DEF Kick, Items
<1>4. CASE RunPost
  <2>1. posts # <<>> /\ posts' = Tail(posts) /\ queue' = Append(queue, Head(posts))
        /\ UNCHANGED <<wire, accepted>>
    BY <1>4 DEF RunPost, Push
  <2>2. wire \o Append(queue, Head(posts)) \o Tail(posts) = wire \o queue \o posts
    <3>1. /\ Head(posts) \in Items /\ Tail(posts) \in Seq(Items) /\ posts # <<>>
          /\ wire \o queue \in Seq(Items)
      BY <1>T, <2>1
    <3>2. wire \o Append(queue, Head(posts)) = Append(wire \o queue, Head(posts))
      BY <1>T, <3>1
    <3> QED BY <1>T, <3>1, <3>2, QueueFacts
  <2> QED BY <1>E, <2>1, <2>2
<1>5. ASSUME NEW ok \in BOOLEAN, OnWrite(ok) PROVE (wire \o queue \o posts = accepted)'
  <2>1. ok = TRUE
    BY <1>5, <1>O DEF OnWrite
  <2>2. queue # <<>> /\ queue' = Tail(queue) /\ wire' = Append(wire, Head(queue))
    BY <1>5, <2>1, OnWriteMoves
  <2>3. wire' \o queue' = wire \o queue
    BY <1>T, <2>2, QueueFacts
  <2> QED BY <1>5, <1>E, <2>3 DEF OnWrite
<1>6. CASE Break
  BY <1>6 DEF Break
<1>7. CASE OnReadError
  BY <1>7, <1>E DEF OnReadError
<1>8. CASE UNCHANGED vars
  BY <1>8, <1>E DEF vars, sessionVars
<1> QED BY <1>2, <1>3, <1>4, <1>5, <1>6, <1>7, <1>8 DEF Next

(* On a working connection what was given to Send and Kick is on the wire, *)
(* in the queue or posted, once each and in its order.                     *)
THEOREM NothingIsLost == Spec => []NothingLost
<1>1. Init => NothingLost
  BY DEF Init, NothingLost
<1> QED BY <1>1, NothingLostNext, TypesInvariant, PTL DEF Spec

-------------------------------------------------------------------------------
(* LOGOUT before the close *)

(* A kick that has run is in the queue or on the wire while the connection *)
(* works, and on the wire, after all that came before, once it is closed.  *)
KickWaits ==
    closeAfter /\ ~broken /\ ~closing =>
        \/ \E i \in 1..Len(queue) : queue[i] = Logout
        \/ \E i \in 1..Len(wire) : wire[i] = Logout
KickDone ==
    closing /\ ~broken =>
        \E k \in 1..Len(wire) : /\ k <= Len(accepted) /\ wire[k] = Logout
                                /\ \A i \in 1..k : wire[i] = accepted[i]

Ordered == Types /\ NothingLost /\ KickWaits /\ KickDone

LEMMA KickWaitsNext == Ordered /\ [Next]_vars => KickWaits'
<1> SUFFICES ASSUME Ordered, [Next]_vars, closeAfter', ~broken', ~closing'
             PROVE  KickWaits'
  BY DEF KickWaits
<1>T. /\ wire \in Seq(Items) /\ queue \in Seq(Items) /\ posts \in Seq(Items)
      /\ closing \in BOOLEAN /\ broken \in BOOLEAN
  BY DEF Ordered, Types, WriterTypeOK
<1>O. ~broken /\ ~closing
  BY <1>T DEF Next, Send, Kick, Post, RunPost, OnWrite, Break, OnReadError, vars, sessionVars
<1>1. ASSUME UNCHANGED <<queue, wire, closeAfter>> PROVE KickWaits'
  BY <1>1, <1>O DEF Ordered, KickWaits
<1>2. CASE RunPost
  <2>1. /\ queue' = Append(queue, Head(posts)) /\ Head(posts) \in Items /\ wire' = wire
        /\ closeAfter \/ Head(posts) = Logout
    BY <1>2, <1>T DEF RunPost, Push
  <2>2. /\ Len(queue') = Len(queue) + 1 /\ queue'[Len(queue) + 1] = Head(posts)
        /\ Len(queue) \in Nat
        /\ \A i \in 1..Len(queue) : queue'[i] = queue[i]
    BY <1>T, <2>1
  <2>3. CASE Head(posts) = Logout
    <3>1. Len(queue') \in 1..Len(queue') /\ queue'[Len(queue')] = Logout
      BY <2>2, <2>3
    <3> QED BY <3>1 DEF KickWaits
  <2>4. CASE closeAfter
    <3>1. \/ \E i \in 1..Len(queue) : queue[i] = Logout
          \/ \E i \in 1..Len(wire) : wire[i] = Logout
      BY <2>4, <1>O DEF Ordered, KickWaits
    <3>2. \A i \in 1..Len(queue) : i \in 1..Len(queue')
      BY <2>2
    <3> QED BY <2>1, <2>2, <3>1, <3>2 DEF KickWaits
  <2> QED BY <2>1, <2>3, <2>4
<1>3. ASSUME NEW ok \in BOOLEAN, OnWrite(ok) PROVE KickWaits'
  <2>1. ok = TRUE /\ closeAfter
    BY <1>3, <1>O DEF OnWrite
  <2>2. queue # <<>> /\ queue' = Tail(queue) /\ wire' = Append(wire, Head(queue))
    BY <1>3, <2>1, OnWriteMoves DEF Ordered
  <2>3. /\ Len(wire) \in Nat /\ Len(queue) \in Nat /\ Len(queue') = Len(queue) - 1
        /\ Len(wire') = Len(wire) + 1 /\ wire'[Len(wire) + 1] = queue[1]
        /\ \A i \in 1..Len(wire) : wire'[i] = wire[i]
        /\ \A i \in 1..Len(queue') : queue'[i] = queue[i + 1]
    BY <1>T, <2>2, SequenceFacts
  <2>4. CASE \E i \in 1..Len(wire) : wire[i] = Logout
    BY <2>3, <2>4 DEF KickWaits
  <2>5. ASSUME NEW i \in 1..Len(queue), queue[i] = Logout PROVE KickWaits'
    <3>1. CASE i = 1
      <4>1. wire'[Len(wire')] = Logout /\ Len(wire') \in 1..Len(wire')
        BY <2>3, <2>5, <3>1
      <4> QED BY <4>1 DEF KickWaits
    <3>2. CASE i # 1
      <4>1. i - 1 \in 1..Len(queue') /\ (i - 1) + 1 = i
        BY <2>3, <3>2
      <4>2. queue'[i - 1] = Logout
        BY <2>3, <2>5, <4>1
      <4> QED BY <4>1, <4>2 DEF KickWaits
    <3> QED BY <3>1, <3>2
  <2> QED BY <2>1, <1>O, <2>4, <2>5 DEF Ordered, KickWaits
<1> QED BY <1>1, <1>2, <1>3 DEF Next, Send, Kick, Post, Break, OnReadError, vars, sessionVars

LEMMA KickDoneNext == Ordered /\ [Next]_vars => KickDone'
<1> SUFFICES ASSUME Ordered, [Next]_vars, closing', ~broken' PROVE KickDone'
  BY DEF KickDone
<1>T. /\ wire \in Seq(Items) /\ queue \in Seq(Items) /\ posts \in Seq(Items)
      /\ accepted \in Seq(Items)
      /\ closing \in BOOLEAN /\ broken \in BOOLEAN /\ closeAfter \in BOOLEAN
  BY DEF Ordered, Types, WriterTypeOK
<1>O. ~broken
  BY <1>T DEF Next, Send, Kick, Post, RunPost, OnWrite, Break, OnReadError, vars, sessionVars
<1>1. CASE closing
  <2>1. PICK k \in 1..Len(wire) : /\ k <= Len(accepted) /\ wire[k] = Logout
                                  /\ \A i \in 1..k : wire[i] = accepted[i]
    BY <1>1, <1>O DEF Ordered, KickDone
  <2>2. wire' = wire
    BY <1>1, <1>O DEF Next, Send, Kick, Post, RunPost, OnWrite, Break, OnReadError,
                      vars, sessionVars
  <2>3. accepted' = accepted \/ \E p \in Items : accepted' = Append(accepted, p)
    BY DEF Next, Send, Kick, Post, RunPost, OnWrite, Break, OnReadError, vars, sessionVars, Items
  <2>4. Len(accepted) <= Len(accepted') /\ \A i \in 1..k : accepted'[i] = accepted[i]
    <3>1. ASSUME NEW p \in Items, accepted' = Append(accepted, p)
          PROVE  /\ Len(accepted) \in Nat /\ Len(accepted') = Len(accepted) + 1
                 /\ \A i \in 1..Len(accepted) : accepted'[i] = accepted[i]
      BY <1>T, <3>1
    <3>2. Len(accepted) \in Nat /\ Len(wire) \in Nat /\ k \in Nat
      BY <1>T, <2>1
    <3> QED BY <2>1, <2>3, <3>1, <3>2
  <2>5. Len(accepted) \in Nat /\ Len(accepted') \in Nat /\ k <= Len(accepted')
    BY <1>T, <2>1, <2>3, <2>4
  <2> QED BY <2>1, <2>2, <2>4, <2>5 DEF KickDone
<1>2. CASE ~closing
  <2>1. OnWrite(TRUE) /\ Drained(Tail(queue))
    <3>1. PICK ok \in BOOLEAN : OnWrite(ok)
      BY <1>2 DEF Next, Send, Kick, Post, RunPost, Break, OnReadError, vars, sessionVars
    <3>2. ok = TRUE
      BY <1>2, <1>O, <3>1 DEF OnWrite
    <3>3. queue # <<>>
      BY <3>1, <3>2, OnWriteMoves DEF Ordered
    <3> QED BY <1>2, <3>1, <3>2, <3>3 DEF OnWrite
  <2>2. /\ queue # <<>> /\ queue' = <<>> /\ closeAfter
        /\ wire' = Append(wire, Head(queue))
        /\ UNCHANGED <<posts, accepted>>
    BY <2>1, OnWriteMoves DEF OnWrite, Drained, Ordered
  <2>3. accepted' = wire' \o posts
    <3>1. wire \o queue \o posts = accepted
      BY <1>2, <1>O DEF Ordered, NothingLost
    <3>2. Append(wire, Head(queue)) \o Tail(queue) = wire \o queue /\ Tail(queue) = <<>>
      BY <1>T, <2>1, <2>2, QueueFacts DEF Drained
    <3>3. wire' \in Seq(Items)
      BY <1>T, <2>2
    <3>4. wire' \o <<>> = wire'
      BY <3>3
    <3> QED BY <2>2, <3>1, <3>2, <3>4
  <2>4. \E k \in 1..Len(wire') : wire'[k] = Logout
    <3>1. /\ Len(wire) \in Nat /\ Len(queue) = 1
          /\ Len(wire') = Len(wire) + 1 /\ wire'[Len(wire) + 1] = queue[1]
          /\ \A i \in 1..Len(wire) : wire'[i] = wire[i]
      <4>1. Tail(queue) = <<>>
        BY <2>1 DEF Drained
      <4>2. Len(Tail(queue)) = Len(queue) - 1 /\ Len(queue) \in Nat /\ Len(Tail(queue)) = 0
        <5>1. Len(Tail(queue)) = 0
          <6>1. Tail(queue) \in Seq(Items)
            BY <1>T, <2>2
          <6> QED BY <4>1, <6>1, EmptyFacts
        <5>2. Len(Tail(queue)) = Len(queue) - 1 /\ Len(queue) \in Nat
          BY <1>T, <2>2, SequenceFacts
        <5> QED BY <5>1, <5>2
      <4>3. Head(queue) = queue[1] /\ Head(queue) \in Items
        BY <1>T, <2>2
      <4>4. /\ Len(wire) \in Nat /\ Len(wire') = Len(wire) + 1
            /\ wire'[Len(wire) + 1] = Head(queue)
            /\ \A i \in 1..Len(wire) : wire'[i] = wire[i]
        BY <1>T, <2>2, <4>3, SequenceFacts
      <4> QED BY <4>2, <4>3, <4>4
    <3>2. CASE \E i \in 1..Len(wire) : wire[i] = Logout
      BY <3>1, <3>2
    <3>3. CASE \E i \in 1..Len(queue) : queue[i] = Logout
      BY <3>1, <3>3
    <3> QED BY <1>2, <1>O, <2>2, <3>2, <3>3 DEF Ordered, KickWaits
  <2>5. /\ wire' \in Seq(Items) /\ Len(wire') <= Len(accepted') /\ Len(wire') \in Nat
        /\ Len(accepted') \in Nat
        /\ \A i \in 1..Len(wire') : wire'[i] = accepted'[i]
    <3>1. wire' \in Seq(Items)
      BY <1>T, <2>2
    <3> QED BY <1>T, <2>3, <3>1
  <2> QED BY <2>4, <2>5 DEF KickDone
<1> QED BY <1>1, <1>2, <1>T

LEMMA KickDoneImplies == Ordered => LogoutBeforeClose
<1> SUFFICES ASSUME Ordered, closing, ~broken PROVE LogoutBeforeClose
  BY DEF LogoutBeforeClose
<1>1. PICK k \in 1..Len(wire) : /\ k <= Len(accepted) /\ wire[k] = Logout
                                /\ \A i \in 1..k : wire[i] = accepted[i]
  BY DEF Ordered, KickDone
<1>2. wire \in Seq(Items) /\ accepted \in Seq(Items)
  BY DEF Ordered, Types, WriterTypeOK
<1>3. SubSeq(wire, 1, k) = SubSeq(accepted, 1, k)
  BY <1>1, <1>2
<1> QED BY <1>1, <1>3 DEF LogoutBeforeClose

(* A kick closes a working connection only when its LOGOUT, and before it  *)
(* all packets that were given earlier, have been written.                 *)
THEOREM LogoutFirst == Spec => []LogoutBeforeClose
<1>1. Init => Ordered
  BY TypesInit DEF Init, Ordered, NothingLost, KickWaits, KickDone
<1>2. Ordered /\ [Next]_vars => Ordered'
  BY TypesNext, NothingLostNext, KickWaitsNext, KickDoneNext DEF Ordered
<1> QED BY <1>1, <1>2, KickDoneImplies, PTL DEF Spec

-------------------------------------------------------------------------------
(* The whole session *)

(* A handler that answers is a Send; the rest of OnRead leaves the queue   *)
(* alone, except that a failed read takes the session out of users_.       *)
LEMMA SessionStep ==
    ASSUME SessionNext PROVE [Next]_vars
<1>1. ASSUME HandlePacket PROVE [Next]_vars
  <2>1. CASE Current \in Answered
    <3>1. Post(Current) /\ UNCHANGED kicks
      BY <1>1, <2>1 DEF HandlePacket
    <3>2. Current \in Packets
      BY <2>1, RequestsAssumption
    <3> QED BY <3>1, <3>2 DEF Send, Next
  <2>2. CASE Current \notin Answered
    BY <1>1, <2>2 DEF HandlePacket, writerVars
  <2> QED BY <2>1, <2>2
<1>2. ASSUME Others PROVE [Next]_vars
  <2>1. ASSUME NEW p \in Pushes, PushNotify(p) PROVE Next
    <3>1. p \in Packets
      BY RequestsAssumption
    <3> QED BY <2>1, <3>1 DEF PushNotify, Next
  <2> QED BY <1>2, <2>1 DEF Others, Next
<1>3. ASSUME ReadError PROVE [Next]_vars
  BY <1>3 DEF ReadError, Next
<1>4. ASSUME NEW r \in Requests, ClientSend(r) PROVE [Next]_vars
  BY <1>4 DEF ClientSend, writerVars
<1>5. ASSUME NEW n \in 1..Len(transit), OnRead(n) PROVE [Next]_vars
  BY <1>5 DEF OnRead, writerVars
<1>6. ASSUME RejectPacket \/ DoRead PROVE [Next]_vars
  BY <1>6 DEF RejectPacket, DoRead, writerVars
<1> QED BY <1>1, <1>2, <1>3, <1>4, <1>5, <1>6 DEF SessionNext

(* Every behaviour of a session is one of its write queue.                 *)
THEOREM SessionImplementsWriter == SessionSpec => Spec
<1>1. SessionInit => Init
  BY DEF SessionInit
<1>2. [SessionNext]_sessionAllVars => [Next]_vars
  BY SessionStep DEF sessionAllVars
<1> QED BY <1>1, <1>2, PTL DEF SessionSpec, Spec

(* So in a whole session, too, there is one write at a time, nothing is    *)
(* lost while the connection works, and a kick's LOGOUT precedes the close.*)
THEOREM SessionIsSafe ==
    SessionSpec => [](OneWriteAtATime /\ NothingLost /\ LogoutBeforeClose)
BY SessionImplementsWriter, OneWrite, NothingIsLost, LogoutFirst, PTL

-------------------------------------------------------------------------------
(* Packets in the stream of pieces *)

PacketSize(r) == HeaderSize + Body(r)
PieceSet == Requests \X Nat

(***************************************************************************)
(* How the stream s falls into the packets rs[h + 1], rs[h + 2], ... that  *)
(* have not been handled: f says where each begins.                        *)
(***************************************************************************)
Cuts(f, rs, h, s) ==
    /\ f \in [(h + 1)..(Len(rs) + 1) -> Nat]
    /\ f[h + 1] = 1 /\ f[Len(rs) + 1] = Len(s) + 1
    /\ \A k, l \in (h + 1)..(Len(rs) + 1) : k <= l => f[k] <= f[l]
    /\ \A k \in (h + 1)..Len(rs) :
          /\ f[k + 1] = f[k] + PacketSize(rs[k])
          /\ \A m \in 1..PacketSize(rs[k]) : s[f[k] + m - 1] = <<rs[k], m>>

LEMMA SizeType == \A r \in Requests : PacketSize(r) \in Nat /\ PacketSize(r) >= HeaderSize
BY RequestsAssumption DEF PacketSize, HeaderSize

LEMMA PiecesType ==
    ASSUME NEW r \in Requests
    PROVE  /\ Pieces(r) \in Seq(PieceSet)
           /\ Len(Pieces(r)) = PacketSize(r)
           /\ \A m \in 1..PacketSize(r) : Pieces(r)[m] = <<r, m>>
<1>1. PacketSize(r) \in Nat
  BY SizeType
<1>2. Pieces(r) = [i \in 1..PacketSize(r) |-> <<r, i>>]
  BY DEF Pieces, PacketSize
<1>3. \A i \in 1..PacketSize(r) : <<r, i>> \in PieceSet
  BY <1>1 DEF PieceSet
<1> QED BY <1>1, <1>2, <1>3

LEMMA ConcatFacts ==
    ASSUME NEW S, NEW a \in Seq(S), NEW b \in Seq(S)
    PROVE  /\ a \o b \in Seq(S)
           /\ Len(a) \in Nat /\ Len(b) \in Nat
           /\ Len(a \o b) = Len(a) + Len(b)
           /\ \A i \in 1..Len(a) : (a \o b)[i] = a[i]
           /\ \A i \in 1..Len(b) : (a \o b)[Len(a) + i] = b[i]
OBVIOUS

(* A packet that is sent follows the others.                               *)
LEMMA SentCuts ==
    ASSUME NEW rs \in Seq(Requests), NEW r \in Requests, NEW h \in 0..Len(rs),
           NEW s \in Seq(PieceSet), NEW f, Cuts(f, rs, h, s)
    PROVE  \E g : Cuts(g, Append(rs, r), h, s \o Pieces(r))
<1> DEFINE L == Len(rs)
           g == [k \in (h + 1)..(L + 2) |->
                    IF k = L + 2 THEN Len(s) + 1 + PacketSize(r) ELSE f[k]]
           rs1 == Append(rs, r)
           s1 == s \o Pieces(r)
<1>1. /\ L \in Nat /\ h \in Nat /\ h <= L /\ Len(s) \in Nat
      /\ PacketSize(r) \in Nat
      /\ Len(rs1) = L + 1 /\ rs1[L + 1] = r /\ \A k \in 1..L : rs1[k] = rs[k]
  BY SizeType
<1>2. /\ Len(s1) = Len(s) + PacketSize(r)
      /\ \A i \in 1..Len(s) : s1[i] = s[i]
      /\ \A m \in 1..PacketSize(r) : s1[Len(s) + m] = <<r, m>>
  <2>1. /\ Pieces(r) \in Seq(PieceSet) /\ Len(Pieces(r)) = PacketSize(r)
        /\ \A m \in 1..PacketSize(r) : Pieces(r)[m] = <<r, m>>
    BY PiecesType
  <2>2. ASSUME NEW p \in Seq(PieceSet)
        PROVE  /\ Len(s \o p) = Len(s) + Len(p)
               /\ \A i \in 1..Len(s) : (s \o p)[i] = s[i]
               /\ \A m \in 1..Len(p) : (s \o p)[Len(s) + m] = p[m]
    BY ConcatFacts
  <2> QED BY <2>1, <2>2
<1>3. /\ f \in [(h + 1)..(L + 1) -> Nat]
      /\ f[h + 1] = 1 /\ f[L + 1] = Len(s) + 1
      /\ \A k, l \in (h + 1)..(L + 1) : k <= l => f[k] <= f[l]
      /\ \A k \in (h + 1)..L :
            /\ f[k + 1] = f[k] + PacketSize(rs[k])
            /\ \A m \in 1..PacketSize(rs[k]) : s[f[k] + m - 1] = <<rs[k], m>>
  BY DEF Cuts
<1> HIDE DEF L, rs1, s1
<1>4. /\ g \in [(h + 1)..(L + 2) -> Nat]
      /\ g[L + 2] = Len(s) + 1 + PacketSize(r)
      /\ \A k \in (h + 1)..(L + 1) : g[k] = f[k]
  BY <1>1, <1>3
<1> HIDE DEF g
<1>5. g[h + 1] = 1 /\ g[L + 2] = Len(s1) + 1
  <2>1. h + 1 \in (h + 1)..(L + 1)
    BY <1>1
  <2>2. g[h + 1] = f[h + 1]
    BY <1>4, <2>1
  <2> QED BY <1>1, <1>2, <1>3, <1>4, <2>2
<1>6. ASSUME NEW k \in (h + 1)..(L + 2), NEW l \in (h + 1)..(L + 2), k <= l
      PROVE  g[k] <= g[l]
  <2>1. \A i \in (h + 1)..(L + 1) : f[i] <= Len(s) + 1 /\ f[i] \in Nat
    BY <1>1, <1>3
  <2>2. CASE l \in (h + 1)..(L + 1)
    BY <1>1, <1>3, <1>4, <1>6, <2>2
  <2>3. CASE l = L + 2 /\ k \in (h + 1)..(L + 1)
    <3>1. g[k] = f[k] /\ f[k] <= Len(s) + 1 /\ f[k] \in Nat
      BY <1>4, <2>1, <2>3
    <3>2. g[l] = Len(s) + 1 + PacketSize(r)
      BY <1>4, <2>3
    <3> QED BY <1>1, <3>1, <3>2
  <2>4. CASE l = L + 2 /\ k = L + 2
    BY <1>1, <1>4, <2>4
  <2> QED BY <1>1, <2>2, <2>3, <2>4
<1>7. ASSUME NEW k \in (h + 1)..(L + 1)
      PROVE  /\ g[k + 1] = g[k] + PacketSize(rs1[k])
             /\ \A m \in 1..PacketSize(rs1[k]) : s1[g[k] + m - 1] = <<rs1[k], m>>
  <2>1. CASE k = L + 1
    <3>1. g[k] = Len(s) + 1 /\ g[k + 1] = Len(s) + 1 + PacketSize(r) /\ rs1[k] = r
      BY <1>1, <1>3, <1>4, <2>1
    <3>2. ASSUME NEW m \in 1..PacketSize(r) PROVE s1[g[k] + m - 1] = <<r, m>>
      <4>1. g[k] + m - 1 = Len(s) + m
        BY <1>1, <3>1
      <4> QED BY <1>2, <4>1
    <3> QED BY <3>1, <3>2
  <2>2. CASE k \in (h + 1)..L
    <3>0. /\ k \in 1..L /\ k \in (h + 1)..(L + 1) /\ k + 1 \in (h + 1)..(L + 1)
          /\ h + 1 \in (h + 1)..(L + 1) /\ L + 1 \in (h + 1)..(L + 1)
          /\ h + 1 <= k /\ k + 1 <= L + 1
      BY <1>1, <2>2
    <3>1. /\ g[k] = f[k] /\ g[k + 1] = f[k + 1] /\ rs1[k] = rs[k]
          /\ PacketSize(rs[k]) \in Nat
      <4>1. rs[k] \in Requests
        BY <3>0 DEF L
      <4> QED BY <1>1, <1>4, <3>0, <4>1, SizeType
    <3>2. /\ f[k] >= 1 /\ f[k + 1] <= Len(s) + 1 /\ f[k] \in Nat
          /\ f[k + 1] = f[k] + PacketSize(rs[k])
      BY <1>3, <2>2, <3>0
    <3>3. ASSUME NEW m \in 1..PacketSize(rs[k]) PROVE s1[g[k] + m - 1] = <<rs[k], m>>
      <4>1. f[k] + m - 1 \in 1..Len(s)
        <5>1. m \in Nat /\ 1 <= m /\ m <= PacketSize(rs[k])
          BY <3>1
        <5>2. 1 <= f[k] + m - 1 /\ f[k] + m <= f[k + 1] /\ f[k + 1] \in Nat
          BY <3>1, <3>2, <5>1
        <5>3. f[k] + m - 1 \in Int /\ f[k] + m - 1 <= Len(s) /\ Len(s) \in Nat
          BY <1>1, <3>2, <5>1, <5>2
        <5> QED BY <5>2, <5>3
      <4> QED BY <1>2, <1>3, <2>2, <3>1, <4>1
    <3> QED BY <1>3, <2>2, <3>1, <3>3
  <2> QED BY <1>1, <2>1, <2>2
<1>8. (L + 1) + 1 = L + 2
  BY <1>1
<1>9. Cuts(g, rs1, h, s1)
  BY <1>1, <1>4, <1>5, <1>6, <1>7, <1>8 DEF Cuts
<1> QED BY <1>9 DEF rs1, s1

(* A stream that is not empty begins with the first of them.               *)
LEMMA FirstPacket ==
    ASSUME NEW rs \in Seq(Requests), NEW h \in 0..Len(rs), NEW s \in Seq(PieceSet),
           NEW f, Cuts(f, rs, h, s)
    PROVE  /\ h = Len(rs) => Len(s) = 0
           /\ h < Len(rs) => /\ rs[h + 1] \in Requests
                             /\ PacketSize(rs[h + 1]) <= Len(s)
                             /\ s[1] = <<rs[h + 1], 1>>
<1>1. Len(rs) \in Nat /\ h \in Nat /\ Len(s) \in Nat
  OBVIOUS
<1>2. CASE h = Len(rs)
  BY <1>1, <1>2 DEF Cuts
<1>3. CASE h < Len(rs)
  <2>1. h + 1 \in (h + 1)..Len(rs) /\ rs[h + 1] \in Requests
    BY <1>1, <1>3
  <2>2. PacketSize(rs[h + 1]) \in Nat /\ PacketSize(rs[h + 1]) >= 2
    BY <2>1, SizeType DEF HeaderSize
  <2>3. f[h + 1] = 1 /\ f[(h + 1) + 1] = 1 + PacketSize(rs[h + 1])
    BY <2>1 DEF Cuts
  <2>4. f[(h + 1) + 1] <= Len(s) + 1
    <3>1. (h + 1) + 1 \in (h + 1)..(Len(rs) + 1) /\ Len(rs) + 1 \in (h + 1)..(Len(rs) + 1)
      BY <1>1, <1>3
    <3>2. (h + 1) + 1 <= Len(rs) + 1
      BY <1>1, <1>3
    <3> QED BY <3>1, <3>2 DEF Cuts
  <2>5. s[f[h + 1] + 1 - 1] = <<rs[h + 1], 1>>
    <3>1. 1 \in 1..PacketSize(rs[h + 1])
      BY <2>2
    <3>2. \A m \in 1..PacketSize(rs[h + 1]) : s[f[h + 1] + m - 1] = <<rs[h + 1], m>>
      BY <2>1 DEF Cuts
    <3> QED BY <3>1, <3>2
  <2> QED BY <1>1, <1>3, <2>1, <2>2, <2>3, <2>4, <2>5
<1> QED BY <1>1, <1>2, <1>3

LEMMA WithoutFacts ==
    ASSUME NEW S, NEW s \in Seq(S), NEW n \in 0..Len(s)
    PROVE  /\ Without(s, n) \in Seq(S) /\ First(s, n) \in Seq(S)
           /\ Len(Without(s, n)) = Len(s) - n /\ Len(First(s, n)) = n
           /\ \A i \in 1..(Len(s) - n) : Without(s, n)[i] = s[n + i]
           /\ \A i \in 1..n : First(s, n)[i] = s[i]
<1>1. Len(s) \in Nat /\ n \in Nat /\ n <= Len(s)
  OBVIOUS
<1>2. \A i \in (n + 1)..Len(s) : s[i] \in S
  BY <1>1
<1> QED BY <1>1, <1>2 DEF Without, First

LEMMA SameSequence ==
    ASSUME NEW S, NEW s \in Seq(S), NEW t \in Seq(S), Len(s) = Len(t),
           \A i \in 1..Len(s) : s[i] = t[i]
    PROVE  s = t
OBVIOUS

(* A position in a stream, and where it is when the front is gone.         *)
LEMMA Shift ==
    ASSUME NEW a \in Nat, NEW p \in Nat, NEW m \in 1..p, NEW n \in Nat, NEW l \in Nat,
           1 + n <= a, a + p <= l + 1
    PROVE  /\ (a - n) + m - 1 \in 1..(l - n)
           /\ n + ((a - n) + m - 1) = a + m - 1
OBVIOUS

(* Two ways to look at a buffer and what is still to come.                 *)
LEMMA StreamFacts ==
    ASSUME NEW S, NEW a \in Seq(S), NEW b \in Seq(S)
    PROVE  /\ \A n \in 0..Len(b) : (a \o First(b, n)) \o Without(b, n) = a \o b
           /\ \A n \in 0..Len(a) : Without(a, n) \o b = Without(a \o b, n)
           /\ \A c \in Seq(S) : a \o (b \o c) = (a \o b) \o c
<1>1. ASSUME NEW n \in 0..Len(b) PROVE (a \o First(b, n)) \o Without(b, n) = a \o b
  <2> DEFINE u == First(b, n)
             v == Without(b, n)
  <2>1. /\ u \in Seq(S) /\ v \in Seq(S) /\ Len(v) = Len(b) - n /\ Len(u) = n
        /\ \A i \in 1..(Len(b) - n) : v[i] = b[n + i]
        /\ \A i \in 1..n : u[i] = b[i]
    BY WithoutFacts
  <2>2. n \in Nat /\ Len(a) \in Nat /\ Len(b) \in Nat /\ n <= Len(b)
    OBVIOUS
  <2> HIDE DEF u, v
  <2>3. u \o v \in Seq(S) /\ Len(u \o v) = Len(b)
    BY <2>1, <2>2, ConcatFacts
  <2>4. ASSUME NEW i \in 1..Len(b) PROVE (u \o v)[i] = b[i]
    <3>1. CASE i <= n
      BY <2>1, <2>2, <3>1, ConcatFacts
    <3>2. CASE ~(i <= n)
      <4>1. i - n \in 1..(Len(b) - n) /\ n + (i - n) = i
        BY <2>2, <3>2
      <4>2. (u \o v)[n + (i - n)] = v[i - n] /\ v[i - n] = b[n + (i - n)]
        BY <2>1, <4>1, ConcatFacts
      <4> QED BY <4>1, <4>2
    <3> QED BY <3>1, <3>2
  <2>5. u \o v = b
    BY <2>3, <2>4, SameSequence
  <2>6. (a \o u) \o v = a \o (u \o v)
    BY <2>1
  <2> QED BY <2>5, <2>6 DEF u, v
<1>2. ASSUME NEW n \in 0..Len(a) PROVE Without(a, n) \o b = Without(a \o b, n)
  <2> DEFINE ab == a \o b
             v == Without(a, n)
             w == Without(ab, n)
  <2>1. /\ n \in Nat /\ Len(a) \in Nat /\ Len(b) \in Nat /\ n <= Len(a)
        /\ ab \in Seq(S) /\ Len(ab) = Len(a) + Len(b)
        /\ \A i \in 1..Len(a) : ab[i] = a[i]
        /\ \A i \in 1..Len(b) : ab[Len(a) + i] = b[i]
    BY ConcatFacts
  <2>2. /\ v \in Seq(S) /\ Len(v) = Len(a) - n
        /\ \A i \in 1..(Len(a) - n) : v[i] = a[n + i]
    BY WithoutFacts
  <2> HIDE DEF ab, v
  <2>3. n \in 0..Len(ab)
    BY <2>1
  <2>4. /\ w \in Seq(S) /\ Len(w) = Len(ab) - n
        /\ \A i \in 1..(Len(ab) - n) : w[i] = ab[n + i]
    BY <2>1, <2>3, WithoutFacts
  <2> HIDE DEF w
  <2>5. /\ v \o b \in Seq(S) /\ Len(v \o b) = Len(a) - n + Len(b)
        /\ \A i \in 1..(Len(a) - n) : (v \o b)[i] = v[i]
        /\ \A i \in 1..Len(b) : (v \o b)[(Len(a) - n) + i] = b[i]
    <3>1. v \in Seq(S) /\ b \in Seq(S)
      BY <2>2
    <3>2. /\ v \o b \in Seq(S) /\ Len(v \o b) = Len(v) + Len(b)
          /\ \A i \in 1..Len(v) : (v \o b)[i] = v[i]
          /\ \A i \in 1..Len(b) : (v \o b)[Len(v) + i] = b[i]
      BY <3>1, ConcatFacts
    <3>3. Len(v) = Len(a) - n
      BY <2>2
    <3> QED BY <3>2, <3>3
  <2>6. ASSUME NEW i \in 1..(Len(a) - n + Len(b)) PROVE (v \o b)[i] = w[i]
    <3>0. w[i] = ab[n + i]
      BY <2>1, <2>4
    <3>1. CASE i <= Len(a) - n
      <4>1. i \in 1..(Len(a) - n) /\ n + i \in 1..Len(a)
        BY <2>1, <3>1
      <4> QED BY <2>1, <2>2, <2>5, <3>0, <4>1
    <3>2. CASE ~(i <= Len(a) - n)
      <4>1. PICK j \in 1..Len(b) : i = (Len(a) - n) + j
        <5>1. i - (Len(a) - n) \in 1..Len(b) /\ i = (Len(a) - n) + (i - (Len(a) - n))
          BY <2>1, <3>2
        <5> QED BY <5>1
      <4>2. n + i = Len(a) + j
        BY <2>1, <4>1
      <4> QED BY <2>1, <2>5, <3>0, <4>1, <4>2
    <3> QED BY <3>1, <3>2
  <2>7. Len(w) = Len(a) - n + Len(b)
    BY <2>1, <2>4
  <2>8. v \o b = w
    BY <2>4, <2>5, <2>6, <2>7, SameSequence
  <2> QED BY <2>8 DEF ab, v, w
<1>3. ASSUME NEW c \in Seq(S) PROVE a \o (b \o c) = (a \o b) \o c
  OBVIOUS
<1> QED BY <1>1, <1>2, <1>3

(* A packet that is handled leaves the stream to those after it.           *)
LEMMA HandledCuts ==
    ASSUME NEW rs \in Seq(Requests), NEW h \in 0..Len(rs), h < Len(rs),
           NEW s \in Seq(PieceSet), NEW f, Cuts(f, rs, h, s)
    PROVE  \E g : Cuts(g, rs, h + 1, Without(s, PacketSize(rs[h + 1])))
<1> DEFINE L == Len(rs)
           size == PacketSize(rs[h + 1])
           s1 == Without(s, size)
           g == [k \in (h + 2)..(L + 1) |-> f[k] - size]
<1>1. L \in Nat /\ h \in Nat /\ h + 1 <= L /\ Len(s) \in Nat
  OBVIOUS
<1>2. size \in Nat /\ size <= Len(s)
  BY FirstPacket, SizeType
<1>3. /\ Len(s1) = Len(s) - size
      /\ \A i \in 1..(Len(s) - size) : s1[i] = s[size + i]
  <2>1. size \in 0..Len(s)
    BY <1>1, <1>2
  <2> QED BY <2>1, WithoutFacts
<1>4. /\ f \in [(h + 1)..(L + 1) -> Nat]
      /\ f[h + 1] = 1 /\ f[L + 1] = Len(s) + 1
      /\ \A k, l \in (h + 1)..(L + 1) : k <= l => f[k] <= f[l]
      /\ \A k \in (h + 1)..L :
            /\ f[k + 1] = f[k] + PacketSize(rs[k])
            /\ \A m \in 1..PacketSize(rs[k]) : s[f[k] + m - 1] = <<rs[k], m>>
  BY DEF Cuts
<1>5. f[h + 2] = 1 + size
  <2>1. h + 1 \in (h + 1)..L /\ (h + 1) + 1 = h + 2
    BY <1>1
  <2> QED BY <1>4, <2>1
<1> HIDE DEF L, size, s1
<1>6. \A k \in (h + 2)..(L + 1) : f[k] \in Nat /\ 1 + size <= f[k] /\ f[k] <= Len(s) + 1
  <2>1. h + 2 \in (h + 1)..(L + 1) /\ L + 1 \in (h + 1)..(L + 1)
    BY <1>1
  <2>2. ASSUME NEW k \in (h + 2)..(L + 1)
        PROVE  k \in (h + 1)..(L + 1) /\ h + 2 <= k /\ k <= L + 1
    BY <1>1
  <2> QED BY <1>4, <1>5, <2>1, <2>2
<1>7. /\ g \in [(h + 2)..(L + 1) -> Nat]
      /\ \A k \in (h + 2)..(L + 1) : g[k] = f[k] - size
  BY <1>2, <1>6
<1> HIDE DEF g
<1>8. g[h + 2] = 1 /\ g[L + 1] = Len(s1) + 1
  <2>1. h + 2 \in (h + 2)..(L + 1) /\ L + 1 \in (h + 2)..(L + 1)
    BY <1>1
  <2>2. g[h + 2] = f[h + 2] - size /\ g[L + 1] = f[L + 1] - size
    BY <1>7, <2>1
  <2> QED BY <1>1, <1>2, <1>3, <1>4, <1>5, <2>2
<1>9. ASSUME NEW k \in (h + 2)..(L + 1), NEW l \in (h + 2)..(L + 1), k <= l
      PROVE  g[k] <= g[l]
  <2>1. k \in (h + 1)..(L + 1) /\ l \in (h + 1)..(L + 1)
    BY <1>1
  <2>2. f[k] <= f[l] /\ f[k] \in Nat /\ f[l] \in Nat
    BY <1>4, <1>9, <2>1
  <2> QED BY <1>2, <1>7, <2>2
<1>10. ASSUME NEW k \in (h + 2)..L
       PROVE  /\ g[k + 1] = g[k] + PacketSize(rs[k])
              /\ \A m \in 1..PacketSize(rs[k]) : s1[g[k] + m - 1] = <<rs[k], m>>
  <2>1. /\ k \in (h + 1)..L /\ k \in (h + 2)..(L + 1) /\ k + 1 \in (h + 2)..(L + 1)
        /\ k \in 1..L
    BY <1>1
  <2>2. PacketSize(rs[k]) \in Nat
    <3>1. rs[k] \in Requests
      BY <2>1 DEF L
    <3> QED BY <3>1, SizeType
  <2>3. /\ g[k] = f[k] - size /\ g[k + 1] = f[k + 1] - size
        /\ f[k + 1] = f[k] + PacketSize(rs[k])
        /\ f[k] \in Nat /\ 1 + size <= f[k] /\ f[k + 1] <= Len(s) + 1
    BY <1>4, <1>6, <1>7, <2>1
  <2>4. ASSUME NEW m \in 1..PacketSize(rs[k]) PROVE s1[g[k] + m - 1] = <<rs[k], m>>
    <3>1. /\ f[k] \in Nat /\ 1 + size <= f[k]
          /\ f[k] + PacketSize(rs[k]) <= Len(s) + 1
      BY <2>3
    <3>2. /\ (f[k] - size) + m - 1 \in 1..(Len(s) - size)
          /\ size + ((f[k] - size) + m - 1) = f[k] + m - 1
      <4>1. PICK a \in Nat, p \in Nat, l \in Nat, n \in Nat :
              a = f[k] /\ p = PacketSize(rs[k]) /\ l = Len(s) /\ n = size
        BY <1>1, <1>2, <2>2, <3>1
      <4>2. m \in 1..p /\ 1 + n <= a /\ a + p <= l + 1
        BY <3>1, <4>1
      <4>3. (a - n) + m - 1 \in 1..(l - n) /\ n + ((a - n) + m - 1) = a + m - 1
        BY <4>2, Shift
      <4> QED BY <4>1, <4>3
    <3>3. s1[g[k] + m - 1] = s[f[k] + m - 1]
      BY <1>3, <2>3, <3>2
    <3> QED BY <1>4, <2>1, <3>3
  <2>5. \A a, p \in Nat : (a + p) - size = (a - size) + p
    BY <1>2
  <2> QED BY <2>2, <2>3, <2>4, <2>5
<1>11. (h + 1) + 1 = h + 2
  BY <1>1
<1>12. Cuts(g, rs, h + 1, s1)
  BY <1>7, <1>8, <1>9, <1>10, <1>11 DEF Cuts, L
<1> QED BY <1>12 DEF s1, size

-------------------------------------------------------------------------------
(* Requests are answered in order *)

(* The part of the property that is about what was accepted.              *)
AnswersInOrder ==
    /\ {accepted[i] : i \in Answers} = {sent[k] : k \in 1..handled} \cap Answered
    /\ \A i, j \in Answers : i < j =>
           \E k, l \in 1..handled : k < l /\ sent[k] = accepted[i] /\ sent[l] = accepted[j]

(* What a packet needs in the buffer before the loop does something.       *)
Needed(r) == HeaderSize + (IF r \in Junk THEN 0 ELSE Body(r))

(***************************************************************************)
(* Besides the property itself: what is in the buffer or on its way is the *)
(* packets that were sent and not yet handled, whole and in order; and a   *)
(* rejected packet is still there.                                         *)
(***************************************************************************)
StreamInv ==
    /\ sent \in Seq(Requests) /\ handled \in 0..Len(sent)
    /\ buffer \in Seq(PieceSet) /\ transit \in Seq(PieceSet)
    /\ \E f : Cuts(f, sent, handled, buffer \o transit)

ReadingInv ==
    /\ reader = "rejected" => handled < Len(sent) /\ sent[handled + 1] \in Junk
    /\ reader = "read" /\ handled < Len(sent) => Len(buffer) < Needed(sent[handled + 1])

ReaderInv == StreamInv /\ ReadingInv /\ AnswersInOrder

(* What the loop finds at the front of its buffer is the next request.     *)
LEMMA FrontIsNext ==
    ASSUME StreamInv
    PROVE  /\ handled = Len(sent) => Len(buffer) = 0
           /\ HasHeader => /\ handled < Len(sent)
                           /\ Current = sent[handled + 1] /\ Current \in Requests
                           /\ MagicIsGood <=> Current \notin Junk
                           /\ Size = PacketSize(sent[handled + 1])
<1>1. /\ sent \in Seq(Requests) /\ handled \in 0..Len(sent)
      /\ buffer \in Seq(PieceSet) /\ transit \in Seq(PieceSet)
      /\ Len(sent) \in Nat /\ Len(buffer) \in Nat /\ Len(transit) \in Nat
  BY DEF StreamInv
<1>2. PICK f : Cuts(f, sent, handled, buffer \o transit)
  BY DEF StreamInv
<1> DEFINE s == buffer \o transit
<1>3. /\ s \in Seq(PieceSet) /\ Len(s) = Len(buffer) + Len(transit)
      /\ \A i \in 1..Len(buffer) : s[i] = buffer[i]
  BY <1>1, ConcatFacts
<1> HIDE DEF s
<1>4. /\ handled = Len(sent) => Len(s) = 0
      /\ handled < Len(sent) => /\ sent[handled + 1] \in Requests
                                /\ s[1] = <<sent[handled + 1], 1>>
  BY <1>1, <1>2, <1>3, FirstPacket DEF s
<1>5. handled = Len(sent) => Len(buffer) = 0
  BY <1>1, <1>3, <1>4
<1>6. ASSUME HasHeader
      PROVE  /\ handled < Len(sent)
             /\ buffer[1] = <<sent[handled + 1], 1>> /\ sent[handled + 1] \in Requests
  <2>1. 1 \in 1..Len(buffer) /\ Len(buffer) # 0
    BY <1>1, <1>6 DEF HasHeader, HeaderSize
  <2>2. handled < Len(sent)
    BY <1>1, <1>5, <2>1
  <2> QED BY <1>3, <1>4, <2>1, <2>2
<1>7. HasHeader => /\ Current = sent[handled + 1]
                   /\ MagicIsGood <=> Current \notin Junk
  BY <1>6 DEF Current, MagicIsGood
<1> QED BY <1>5, <1>6, <1>7 DEF Size, PacketSize

(* In terms of elements, now and after a step *)
InOrder(a, rs, h) ==
    /\ \A i \in 1..Len(a) : a[i] \in Answered => \E k \in 1..h : rs[k] = a[i]
    /\ \A k \in 1..h : rs[k] \in Answered => \E i \in 1..Len(a) : a[i] = rs[k]
    /\ \A i, j \in 1..Len(a) : a[i] \in Answered /\ a[j] \in Answered /\ i < j =>
          \E k, l \in 1..h : k < l /\ rs[k] = a[i] /\ rs[l] = a[j]

LEMMA InOrderAsSets ==
    ASSUME NEW a, NEW rs, NEW h
    PROVE  LET A == {i \in 1..Len(a) : a[i] \in Answered}
           IN  InOrder(a, rs, h) <=>
                  /\ {a[i] : i \in A} = {rs[k] : k \in 1..h} \cap Answered
                  /\ \A i, j \in A : i < j =>
                        \E k, l \in 1..h : k < l /\ rs[k] = a[i] /\ rs[l] = a[j]
<1> DEFINE A == {i \in 1..Len(a) : a[i] \in Answered}
<1>1. \A i : i \in A <=> i \in 1..Len(a) /\ a[i] \in Answered
  OBVIOUS
<1> HIDE DEF A
<1>2. {a[i] : i \in A} = {rs[k] : k \in 1..h} \cap Answered <=>
         /\ \A i \in 1..Len(a) : a[i] \in Answered => \E k \in 1..h : rs[k] = a[i]
         /\ \A k \in 1..h : rs[k] \in Answered => \E i \in 1..Len(a) : a[i] = rs[k]
  <2>1. ASSUME {a[i] : i \in A} = {rs[k] : k \in 1..h} \cap Answered
        PROVE  /\ \A i \in 1..Len(a) : a[i] \in Answered => \E k \in 1..h : rs[k] = a[i]
               /\ \A k \in 1..h : rs[k] \in Answered => \E i \in 1..Len(a) : a[i] = rs[k]
    <3>1. \A i \in A : a[i] \in {rs[k] : k \in 1..h}
      BY <2>1
    <3>2. \A k \in 1..h : rs[k] \in Answered => rs[k] \in {a[i] : i \in A}
      BY <2>1
    <3> QED BY <1>1, <3>1, <3>2
  <2>2. ASSUME \A i \in 1..Len(a) : a[i] \in Answered => \E k \in 1..h : rs[k] = a[i],
               \A k \in 1..h : rs[k] \in Answered => \E i \in 1..Len(a) : a[i] = rs[k]
        PROVE  {a[i] : i \in A} = {rs[k] : k \in 1..h} \cap Answered
    <3>1. ASSUME NEW i \in A PROVE a[i] \in {rs[k] : k \in 1..h} \cap Answered
      BY <1>1, <2>2
    <3>2. ASSUME NEW k \in 1..h, rs[k] \in Answered PROVE rs[k] \in {a[i] : i \in A}
      <4>1. PICK i \in 1..Len(a) : a[i] = rs[k]
        BY <2>2, <3>2
      <4>2. i \in A
        BY <1>1, <3>2, <4>1
      <4> QED BY <4>1, <4>2
    <3> QED BY <3>1, <3>2
  <2> QED BY <2>1, <2>2
<1>3. (\A i, j \in A : i < j =>
          \E k, l \in 1..h : k < l /\ rs[k] = a[i] /\ rs[l] = a[j])
      <=> \A i, j \in 1..Len(a) : a[i] \in Answered /\ a[j] \in Answered /\ i < j =>
             \E k, l \in 1..h : k < l /\ rs[k] = a[i] /\ rs[l] = a[j]
  <2> DEFINE Follows(i, j) ==
               i < j => \E k, l \in 1..h : k < l /\ rs[k] = a[i] /\ rs[l] = a[j]
  <2>1. (\A i, j \in A : Follows(i, j))
        <=> \A i, j \in 1..Len(a) : a[i] \in Answered /\ a[j] \in Answered => Follows(i, j)
    <3> HIDE DEF Follows
    <3> QED BY <1>1
  <2> QED BY <2>1
<1>4. InOrder(a, rs, h) <=>
         /\ {a[i] : i \in A} = {rs[k] : k \in 1..h} \cap Answered
         /\ \A i, j \in A : i < j =>
               \E k, l \in 1..h : k < l /\ rs[k] = a[i] /\ rs[l] = a[j]
  BY <1>2, <1>3, Zenon DEF InOrder
<1> QED BY <1>4 DEF A

LEMMA AnswersElements ==
    /\ AnswersInOrder <=> InOrder(accepted, sent, handled)
    /\ AnswersInOrder' <=> InOrder(accepted', sent', handled')
<1>1. AnswersInOrder <=> InOrder(accepted, sent, handled)
  BY InOrderAsSets, Zenon DEF AnswersInOrder, Answers
<1>2. AnswersInOrder' <=> InOrder(accepted', sent', handled')
  BY InOrderAsSets, Zenon DEF AnswersInOrder, Answers
<1> QED BY <1>1, <1>2

(* Nothing that is no answer disturbs their order ...                      *)
LEMMA OthersInOrder ==
    ASSUME NEW a \in Seq(Items), NEW b, NEW rs, NEW ss, NEW h \in Nat,
           InOrder(a, rs, h),
           b = a \/ \E p \in Items \ Answered : b = Append(a, p),
           \A k \in 1..h : ss[k] = rs[k]
    PROVE  InOrder(b, ss, h)
<1>1. /\ Len(a) \in Nat /\ Len(b) \in Nat
      /\ \A i \in 1..Len(a) : i \in 1..Len(b) /\ b[i] = a[i]
      /\ \A i \in 1..Len(b) : b[i] \in Answered => i \in 1..Len(a)
  <2>1. CASE b = a
    BY <2>1
  <2>2. ASSUME NEW p \in Items \ Answered, b = Append(a, p)
        PROVE  /\ Len(b) = Len(a) + 1 /\ b[Len(a) + 1] = p
               /\ \A i \in 1..Len(a) : b[i] = a[i]
    BY <2>2
  <2>3. CASE b # a
    <3>1. PICK p \in Items \ Answered : b = Append(a, p)
      BY <2>3
    <3>2. /\ Len(b) = Len(a) + 1 /\ b[Len(a) + 1] = p
          /\ \A i \in 1..Len(a) : b[i] = a[i]
      BY <2>2, <3>1
    <3> QED BY <3>2
  <2> QED BY <2>1, <2>3
<1>2. \A i \in 1..Len(b) : b[i] \in Answered => \E k \in 1..h : ss[k] = b[i]
  BY <1>1 DEF InOrder
<1>3. \A k \in 1..h : ss[k] \in Answered => \E i \in 1..Len(b) : b[i] = ss[k]
  BY <1>1 DEF InOrder
<1>4. ASSUME NEW i \in 1..Len(b), NEW j \in 1..Len(b), b[i] \in Answered,
             b[j] \in Answered, i < j
      PROVE  \E k, l \in 1..h : k < l /\ ss[k] = b[i] /\ ss[l] = b[j]
  <2>1. i \in 1..Len(a) /\ j \in 1..Len(a) /\ b[i] = a[i] /\ b[j] = a[j]
    BY <1>1, <1>4
  <2>2. PICK k \in 1..h, l \in 1..h : k < l /\ rs[k] = a[i] /\ rs[l] = a[j]
    BY <1>4, <2>1 DEF InOrder
  <2> QED BY <2>1, <2>2
<1> QED BY <1>2, <1>3, <1>4 DEF InOrder

(* ... and the answer to the next request comes after the others.          *)
LEMMA NextInOrder ==
    ASSUME NEW a \in Seq(Items), NEW b, NEW rs, NEW h \in Nat, InOrder(a, rs, h),
           IF rs[h + 1] \in Answered THEN rs[h + 1] \in Items /\ b = Append(a, rs[h + 1])
                                     ELSE b = a
    PROVE  InOrder(b, rs, h + 1)
<1> DEFINE r == rs[h + 1]
<1>1. /\ Len(a) \in Nat
      /\ \A k \in 1..h : k \in 1..(h + 1) /\ k < h + 1
      /\ \A k \in 1..(h + 1) : k \in 1..h \/ k = h + 1
      /\ h + 1 \in 1..(h + 1)
  OBVIOUS
<1>2. /\ \A i \in 1..Len(a) : a[i] \in Answered => \E k \in 1..h : rs[k] = a[i]
      /\ \A k \in 1..h : rs[k] \in Answered => \E i \in 1..Len(a) : a[i] = rs[k]
      /\ \A i, j \in 1..Len(a) : a[i] \in Answered /\ a[j] \in Answered /\ i < j =>
            \E k, l \in 1..h : k < l /\ rs[k] = a[i] /\ rs[l] = a[j]
  BY DEF InOrder
<1>3. CASE r \in Answered
  <2>1. /\ Len(b) = Len(a) + 1 /\ b[Len(a) + 1] = r
        /\ \A i \in 1..Len(a) : b[i] = a[i]
    BY <1>3
  <2>2. /\ \A i \in 1..Len(a) : i \in 1..Len(b)
        /\ \A i \in 1..Len(b) : i \in 1..Len(a) \/ i = Len(a) + 1
        /\ Len(a) + 1 \in 1..Len(b)
    BY <1>1, <2>1
  <2>3. \A i \in 1..Len(b) : b[i] \in Answered => \E k \in 1..(h + 1) : rs[k] = b[i]
    BY <1>1, <1>2, <2>1, <2>2
  <2>4. \A k \in 1..(h + 1) : rs[k] \in Answered => \E i \in 1..Len(b) : b[i] = rs[k]
    BY <1>1, <1>2, <2>1, <2>2
  <2>5. ASSUME NEW i \in 1..Len(b), NEW j \in 1..Len(b), b[i] \in Answered,
               b[j] \in Answered, i < j
        PROVE  \E k, l \in 1..(h + 1) : k < l /\ rs[k] = b[i] /\ rs[l] = b[j]
    <3>1. i \in 1..Len(a) /\ b[i] = a[i]
      BY <1>1, <2>1, <2>5
    <3>2. CASE j \in 1..Len(a)
      <4>1. b[j] = a[j]
        BY <2>1, <3>2
      <4>2. PICK k \in 1..h, l \in 1..h : k < l /\ rs[k] = a[i] /\ rs[l] = a[j]
        BY <1>2, <2>5, <3>1, <3>2, <4>1
      <4> QED BY <1>1, <3>1, <4>1, <4>2
    <3>3. CASE j = Len(a) + 1
      <4>1. PICK k \in 1..h : rs[k] = b[i]
        BY <1>2, <2>5, <3>1
      <4>2. k < h + 1 /\ rs[h + 1] = b[j]
        BY <1>1, <2>1, <3>3
      <4> QED BY <1>1, <4>1, <4>2
    <3> QED BY <2>2, <3>2, <3>3
  <2> QED BY <2>3, <2>4, <2>5 DEF InOrder
<1>4. CASE r \notin Answered
  <2>1. b = a
    BY <1>4
  <2>2. \A i \in 1..Len(a) : a[i] \in Answered => \E k \in 1..(h + 1) : rs[k] = a[i]
    BY <1>1, <1>2
  <2>3. \A k \in 1..(h + 1) : rs[k] \in Answered => \E i \in 1..Len(a) : a[i] = rs[k]
    BY <1>1, <1>2, <1>4
  <2>4. \A i, j \in 1..Len(a) : a[i] \in Answered /\ a[j] \in Answered /\ i < j =>
            \E k, l \in 1..(h + 1) : k < l /\ rs[k] = a[i] /\ rs[l] = a[j]
    BY <1>1, <1>2
  <2> QED BY <2>1, <2>2, <2>3, <2>4 DEF InOrder
<1> QED BY <1>3, <1>4

-------------------------------------------------------------------------------
(* Each step of the session *)

LEMMA ReaderInit == SessionInit => ReaderInv
<1> SUFFICES ASSUME SessionInit PROVE ReaderInv
  OBVIOUS
<1>1. /\ sent = <<>> /\ transit = <<>> /\ buffer = <<>> /\ accepted = <<>>
      /\ reader = "read" /\ handled = 0
  BY DEF SessionInit, Init
<1>2. sent \in Seq(Requests) /\ buffer \in Seq(PieceSet) /\ transit \in Seq(PieceSet)
      /\ Len(sent) = 0 /\ Len(accepted) = 0
      /\ buffer \o transit = <<>> /\ Len(<<>>) = 0
  BY <1>1
<1> DEFINE f == [k \in 1..1 |-> 1]
<1>3. Cuts(f, sent, handled, buffer \o transit)
  <2>1. 0 + 1 = 1 /\ 1 \in 1..1 /\ \A k \in 1..1 : k = 1
    OBVIOUS
  <2>2. f \in [1..1 -> Nat] /\ f[1] = 1
    OBVIOUS
  <2> HIDE DEF f
  <2> QED BY <1>1, <1>2, <2>1, <2>2 DEF Cuts
<1>4. AnswersInOrder
  <2>1. InOrder(accepted, sent, handled)
    BY <1>1, <1>2 DEF InOrder
  <2> QED BY <2>1, AnswersElements
<1> QED BY <1>1, <1>2, <1>3, <1>4 DEF ReaderInv, StreamInv, ReadingInv

LEMMA ClientSends ==
    ASSUME ReaderInv, accepted \in Seq(Items), NEW r \in Requests, ClientSend(r)
    PROVE  ReaderInv'
<1> USE DEF ReaderInv
<1>1. /\ sent \in Seq(Requests) /\ handled \in 0..Len(sent)
      /\ buffer \in Seq(PieceSet) /\ transit \in Seq(PieceSet)
  BY DEF StreamInv
<1>2. /\ sent' = Append(sent, r) /\ transit' = transit \o Pieces(r)
      /\ buffer' = buffer /\ reader' = reader /\ handled' = handled
      /\ accepted' = accepted
  BY DEF ClientSend, writerVars, vars
<1>3. /\ Len(sent) \in Nat /\ handled \in Nat /\ handled <= Len(sent)
      /\ sent' \in Seq(Requests) /\ Len(sent') = Len(sent) + 1
      /\ \A k \in 1..Len(sent) : sent'[k] = sent[k]
      /\ sent'[Len(sent) + 1] = r
  BY <1>1, <1>2
<1>4. StreamInv'
  <2>1. Pieces(r) \in Seq(PieceSet)
    BY PiecesType
  <2>2. transit' \in Seq(PieceSet) /\ buffer \o transit \in Seq(PieceSet)
    BY <1>1, <1>2, <2>1
  <2>3. PICK f : Cuts(f, sent, handled, buffer \o transit)
    BY DEF StreamInv
  <2>4. \E g : Cuts(g, sent', handled, (buffer \o transit) \o Pieces(r))
    BY <1>1, <1>2, <2>2, <2>3, SentCuts
  <2>5. buffer \o transit' = (buffer \o transit) \o Pieces(r)
    <3>1. \A c \in Seq(PieceSet) :
             buffer \o (transit \o c) = (buffer \o transit) \o c
      BY <1>1, StreamFacts
    <3> QED BY <1>2, <2>1, <3>1
  <2>6. handled' \in 0..Len(sent')
    BY <1>2, <1>3
  <2> QED BY <1>1, <1>2, <1>3, <2>2, <2>4, <2>5, <2>6 DEF StreamInv
<1>5. ReadingInv'
  <2>1. CASE handled = Len(sent)
    <3>1. Len(buffer) = 0
      BY <2>1, FrontIsNext
    <3>2. Needed(r) \in Nat /\ Needed(r) >= 2
      BY RequestsAssumption DEF Needed, HeaderSize
    <3>3. reader' # "rejected"
      BY <1>2, <1>3, <2>1 DEF ReadingInv
    <3>4. Len(buffer') = 0 /\ sent'[handled' + 1] = r
      BY <1>2, <1>3, <2>1, <3>1
    <3>5. Len(buffer') < Needed(r)
      BY <3>2, <3>4
    <3> QED BY <3>3, <3>4, <3>5 DEF ReadingInv, Needed
  <2>2. CASE handled < Len(sent)
    <3>1. handled + 1 \in 1..Len(sent)
      BY <1>3, <2>2
    <3>2. sent'[handled + 1] = sent[handled + 1]
      BY <1>3, <3>1
    <3> QED BY <1>2, <1>3, <2>2, <3>2 DEF ReadingInv
  <2> QED BY <1>3, <2>1, <2>2
<1>6. AnswersInOrder'
  <2>1. InOrder(accepted, sent, handled)
    BY AnswersElements
  <2>2. \A k \in 1..handled : sent'[k] = sent[k]
    BY <1>3
  <2>3. InOrder(accepted, sent', handled)
    BY <1>3, <2>1, <2>2, OthersInOrder
  <2> QED BY <1>2, <2>3, AnswersElements
<1> QED BY <1>4, <1>5, <1>6

LEMMA ReadDone ==
    ASSUME ReaderInv, NEW n \in 1..Len(transit), OnRead(n)
    PROVE  ReaderInv'
<1> USE DEF ReaderInv
<1>1. /\ sent \in Seq(Requests) /\ handled \in 0..Len(sent)
      /\ buffer \in Seq(PieceSet) /\ transit \in Seq(PieceSet)
  BY DEF StreamInv
<1>2. /\ buffer' = buffer \o First(transit, n) /\ transit' = Without(transit, n)
      /\ sent' = sent /\ reader' = "handle" /\ handled' = handled
      /\ accepted' = accepted
  BY DEF OnRead, writerVars, vars
<1>3. n \in 0..Len(transit)
  BY <1>1
<1>4. buffer' \o transit' = buffer \o transit
  BY <1>1, <1>2, <1>3, StreamFacts
<1>5. buffer' \in Seq(PieceSet) /\ transit' \in Seq(PieceSet)
  <2>1. First(transit, n) \in Seq(PieceSet) /\ Without(transit, n) \in Seq(PieceSet)
    BY <1>1, <1>3, WithoutFacts
  <2> QED BY <1>1, <1>2, <2>1
<1>6. StreamInv'
  BY <1>1, <1>2, <1>4, <1>5 DEF StreamInv
<1>7. ReadingInv'
  BY <1>2 DEF ReadingInv
<1>8. AnswersInOrder'
  BY <1>2, AnswersElements
<1> QED BY <1>6, <1>7, <1>8

LEMMA PacketHandled ==
    ASSUME ReaderInv, accepted \in Seq(Items), HandlePacket
    PROVE  ReaderInv'
<1> USE DEF ReaderInv
<1>1. /\ sent \in Seq(Requests) /\ handled \in 0..Len(sent)
      /\ buffer \in Seq(PieceSet) /\ transit \in Seq(PieceSet)
  BY DEF StreamInv
<1> DEFINE r == sent[handled + 1]
<1>2. /\ buffer' = Without(buffer, Size) /\ transit' = transit /\ sent' = sent
      /\ handled' = handled + 1 /\ reader' = "handle"
      /\ HasHeader /\ Len(buffer) >= Size
  BY DEF HandlePacket, HasPacket, GoOn
<1>3. handled < Len(sent) /\ Current = r /\ r \in Requests /\ Size = PacketSize(r)
  BY <1>2, FrontIsNext
<1>4. Size \in 0..Len(buffer)
  BY <1>1, <1>2, <1>3, SizeType
<1>5. StreamInv'
  <2>1. buffer \o transit \in Seq(PieceSet)
    BY <1>1
  <2>2. PICK f : Cuts(f, sent, handled, buffer \o transit)
    BY DEF StreamInv
  <2>3. \E g : Cuts(g, sent, handled + 1, Without(buffer \o transit, PacketSize(r)))
    BY <1>1, <1>3, <2>1, <2>2, HandledCuts
  <2>4. buffer' \o transit' = Without(buffer \o transit, Size)
    <3>1. \A n \in 0..Len(buffer) :
             Without(buffer, n) \o transit = Without(buffer \o transit, n)
      BY <1>1, StreamFacts
    <3> QED BY <1>2, <1>4, <3>1
  <2>5. buffer' \in Seq(PieceSet)
    BY <1>1, <1>2, <1>4, WithoutFacts
  <2>6. handled' \in 0..Len(sent')
    BY <1>1, <1>2, <1>3
  <2>7. \E g : Cuts(g, sent', handled', buffer' \o transit')
    BY <1>2, <1>3, <2>3, <2>4
  <2> QED BY <1>1, <1>2, <2>5, <2>6, <2>7 DEF StreamInv
<1>6. ReadingInv'
  BY <1>2 DEF ReadingInv
<1>7. AnswersInOrder'
  <2>1. r \in Answered => accepted' = Append(accepted, r)
    BY <1>3 DEF HandlePacket, Post
  <2>2. r \notin Answered => accepted' = accepted
    BY <1>3 DEF HandlePacket, writerVars, vars
  <2>3. r \in Answered => r \in Items
    BY RequestsAssumption DEF Items
  <2>4. InOrder(accepted, sent, handled) /\ handled \in Nat
    BY <1>1, AnswersElements
  <2>5. InOrder(accepted', sent, handled + 1)
    BY <2>1, <2>2, <2>3, <2>4, NextInOrder
  <2> QED BY <1>2, <2>5, AnswersElements
<1> QED BY <1>5, <1>6, <1>7

(* Steps that leave the stream and what was handled alone                  *)
LEMMA StreamStays ==
    ASSUME ReaderInv, accepted \in Seq(Items), UNCHANGED <<sent, transit, buffer, handled>>,
           \/ accepted' = accepted
           \/ \E p \in Items \ Answered : accepted' = Append(accepted, p)
    PROVE  StreamInv' /\ AnswersInOrder'
<1>1. StreamInv'
  BY DEF ReaderInv, StreamInv
<1>2. InOrder(accepted, sent, handled) /\ handled \in Nat
  BY AnswersElements DEF ReaderInv, StreamInv
<1>3. InOrder(accepted', sent, handled)
  BY <1>2, OthersInOrder
<1> QED BY <1>1, <1>3, AnswersElements

LEMMA OthersAnswerNothing ==
    ASSUME Others
    PROVE  \/ accepted' = accepted
           \/ \E p \in Items \ Answered : accepted' = Append(accepted, p)
<1>1. Logout \in Items \ Answered
  BY RequestsAssumption, LogoutAssumption DEF Items
<1>2. \A p \in Pushes : p \in Items \ Answered
  BY RequestsAssumption DEF Items
<1>3. ASSUME NEW p \in Pushes, PushNotify(p) PROVE accepted' = Append(accepted, p)
  BY <1>3 DEF PushNotify, Send, Post
<1>4. Kick => accepted' = Append(accepted, Logout)
  BY DEF Kick, Post
<1>5. RunPost \/ (\E ok \in BOOLEAN : OnWrite(ok)) \/ Break => accepted' = accepted
  BY DEF RunPost, OnWrite, Break
<1> QED BY <1>1, <1>2, <1>3, <1>4, <1>5 DEF Others

LEMMA ReaderNext ==
    ASSUME ReaderInv, accepted \in Seq(Items), [SessionNext]_sessionAllVars
    PROVE  ReaderInv'
<1>1. ASSUME NEW r \in Requests, ClientSend(r) PROVE ReaderInv'
  BY <1>1, ClientSends
<1>2. ASSUME NEW n \in 1..Len(transit), OnRead(n) PROVE ReaderInv'
  BY <1>2, ReadDone
<1>3. ASSUME HandlePacket PROVE ReaderInv'
  BY <1>3, PacketHandled
<1>4. ASSUME RejectPacket PROVE ReaderInv'
  <2>1. /\ UNCHANGED <<sent, transit, buffer, handled>> /\ accepted' = accepted
        /\ reader' = "rejected"
    BY <1>4 DEF RejectPacket, writerVars, vars
  <2>2. StreamInv' /\ AnswersInOrder'
    BY <2>1, StreamStays
  <2>3. handled < Len(sent) /\ sent[handled + 1] \in Junk
    BY <1>4, FrontIsNext DEF RejectPacket, HasJunk, ReaderInv
  <2> QED BY <2>1, <2>2, <2>3 DEF ReaderInv, ReadingInv
<1>5. ASSUME DoRead PROVE ReaderInv'
  <2>1. /\ UNCHANGED <<sent, transit, buffer, handled>> /\ accepted' = accepted
        /\ reader' = "read" /\ ~HasPacket /\ ~HasJunk
    BY <1>5 DEF DoRead, writerVars, vars
  <2>2. StreamInv' /\ AnswersInOrder'
    BY <2>1, StreamStays
  <2>3. ASSUME handled < Len(sent) PROVE Len(buffer) < Needed(sent[handled + 1])
    <3>1. /\ sent[handled + 1] \in Requests /\ Len(buffer) \in Nat
      BY <2>3 DEF ReaderInv, StreamInv
    <3>2. Body(sent[handled + 1]) \in Nat
      BY <3>1, RequestsAssumption
    <3>3. CASE ~HasHeader
      BY <3>1, <3>2, <3>3 DEF HasHeader, Needed, HeaderSize
    <3>4. CASE HasHeader
      <4>1. /\ Current \notin Junk /\ Current = sent[handled + 1]
            /\ Size = PacketSize(sent[handled + 1])
        BY <2>1, <3>4, FrontIsNext DEF HasJunk, ReaderInv
      <4>2. ~(Len(buffer) >= Size)
        BY <2>1, <3>4 DEF HasPacket, HasJunk
      <4> QED BY <3>1, <3>2, <4>1, <4>2 DEF Needed, PacketSize, HeaderSize
    <3> QED BY <3>3, <3>4
  <2> QED BY <2>1, <2>2, <2>3 DEF ReaderInv, ReadingInv
<1>6. ASSUME ReadError PROVE ReaderInv'
  <2>1. /\ UNCHANGED <<sent, transit, buffer, handled>> /\ accepted' = accepted
        /\ reader' = "ended"
    BY <1>6 DEF ReadError, OnReadError
  <2>2. StreamInv' /\ AnswersInOrder'
    BY <2>1, StreamStays
  <2> QED BY <2>1, <2>2 DEF ReaderInv, ReadingInv
<1>7. ASSUME Others, UNCHANGED readerVars PROVE ReaderInv'
  <2>1. UNCHANGED <<sent, transit, buffer, handled>> /\ reader' = reader
    BY <1>7 DEF readerVars
  <2>2. StreamInv' /\ AnswersInOrder'
    BY <1>7, <2>1, OthersAnswerNothing, StreamStays
  <2> QED BY <2>1, <2>2 DEF ReaderInv, ReadingInv
<1>8. ASSUME UNCHANGED sessionAllVars PROVE ReaderInv'
  <2>1. /\ UNCHANGED <<sent, transit, buffer, handled>> /\ accepted' = accepted
        /\ reader' = reader
    BY <1>8 DEF sessionAllVars, vars, readerVars
  <2>2. StreamInv' /\ AnswersInOrder'
    BY <2>1, StreamStays
  <2> QED BY <2>1, <2>2 DEF ReaderInv, ReadingInv
<1> QED BY <1>1, <1>2, <1>3, <1>4, <1>5, <1>6, <1>7, <1>8 DEF SessionNext

LEMMA ReaderInvariant == SessionSpec => []ReaderInv
<1>1. SessionSpec => [](accepted \in Seq(Items))
  <2>1. WriterTypeOK => accepted \in Seq(Items)
    BY DEF WriterTypeOK
  <2> QED BY <2>1, SessionImplementsWriter, TypeCorrect, PTL
<1>2. SessionInit => ReaderInv
  BY ReaderInit
<1>3. ReaderInv /\ accepted \in Seq(Items) /\ [SessionNext]_sessionAllVars => ReaderInv'
  BY ReaderNext
<1> QED BY <1>1, <1>2, <1>3, PTL DEF SessionSpec

(* Whatever the requests are, however long, and however the connection     *)
(* cuts them: they are answered in the order in which they were sent, and  *)
(* none that has arrived whole waits for another read.                     *)
THEOREM RequestsInOrder == SessionSpec => []RequestsAnsweredInOrder
<1>1. ReaderInv => RequestsAnsweredInOrder
  <2> SUFFICES ASSUME ReaderInv PROVE RequestsAnsweredInOrder
    OBVIOUS
  <2>1. handled <= Len(sent)
    BY DEF ReaderInv, StreamInv
  <2>2. reader = "rejected" => sent[handled + 1] \in Junk
    BY DEF ReaderInv, ReadingInv
  <2>3. reader = "read" /\ handled < Len(sent) => Len(buffer) < Needed(sent[handled + 1])
    BY DEF ReaderInv, ReadingInv
  <2>4. AnswersInOrder
    BY DEF ReaderInv
  <2> QED BY <2>1, <2>2, <2>3, <2>4 DEF AnswersInOrder, Needed, RequestsAnsweredInOrder
<1> QED BY <1>1, ReaderInvariant, PTL

(* A client that sends each request once gets no answer twice, also when   *)
(* two packets arrive at once or one in many reads.                        *)
THEOREM AnsweredOnce ==
    SessionSpec => [](\A i, j \in Answers : accepted[i] = accepted[j] => i = j)
<1> DEFINE SentOnce == \A k, l \in 1..Len(sent) : sent[k] = sent[l] => k = l
           Once == SentOnce /\ sent \in Seq(Requests)
<1>1. SessionInit => Once
  BY DEF SessionInit
<1>2. Once /\ [SessionNext]_sessionAllVars => Once'
  <2> SUFFICES ASSUME Once, [SessionNext]_sessionAllVars PROVE Once'
    OBVIOUS
  <2>1. ASSUME NEW r \in Requests, ClientSend(r) PROVE Once'
    <3>1. /\ sent' = Append(sent, r) /\ Len(sent) \in Nat
          /\ \A i \in 1..Len(sent) : sent[i] # r
      BY <2>1 DEF ClientSend
    <3>2. /\ Len(sent') = Len(sent) + 1 /\ sent'[Len(sent) + 1] = r
          /\ \A i \in 1..Len(sent) : sent'[i] = sent[i]
          /\ sent' \in Seq(Requests)
      BY <3>1
    <3>3. \A k \in 1..(Len(sent) + 1) : k \in 1..Len(sent) \/ k = Len(sent) + 1
      BY <3>1
    <3>4. SentOnce'
      BY <3>1, <3>2, <3>3
    <3> QED BY <3>2, <3>4
  <2>2. ASSUME UNCHANGED sent PROVE Once'
    BY <2>2
  <2>3. (\E r \in Requests : ClientSend(r)) \/ UNCHANGED sent
    BY DEF SessionNext, sessionAllVars, readerVars, OnRead, HandlePacket, RejectPacket,
       DoRead, ReadError
  <2> QED BY <2>1, <2>2, <2>3
<1>3. Once /\ ReaderInv => \A i, j \in Answers : accepted[i] = accepted[j] => i = j
  <2> SUFFICES ASSUME Once, ReaderInv, NEW i \in Answers, NEW j \in Answers, i < j
               PROVE  accepted[i] # accepted[j]
    BY DEF Answers
  <2>1. PICK k \in 1..handled, l \in 1..handled :
           k < l /\ sent[k] = accepted[i] /\ sent[l] = accepted[j]
    BY DEF ReaderInv, AnswersInOrder
  <2>2. k \in 1..Len(sent) /\ l \in 1..Len(sent) /\ k # l
    BY <2>1 DEF ReaderInv, StreamInv
  <2> QED BY <2>1, <2>2
<1> QED BY <1>1, <1>2, <1>3, ReaderInvariant, PTL DEF SessionSpec
===============================================================================
