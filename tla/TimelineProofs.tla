---------------------------- MODULE TimelineProofs ----------------------------
(***************************************************************************)
(* Proofs of the safety properties of Timeline, for any set of users,      *)
(* clients, threads and slaves, any page limit and any number of           *)
(* connections.                                                            *)
(***************************************************************************)
EXTENDS Timeline, ChatServerProofs, FiniteSetTheorems, TLAPS

-------------------------------------------------------------------------------
(* The chat service within the composition *)

(* Each step is one of the chat service, or leaves the service alone.      *)
LEMMA ServiceStep == [TimelineNext]_timelineVars => [Next]_vars
<1> SUFFICES ASSUME [TimelineNext]_timelineVars PROVE [Next]_vars
  OBVIOUS
<1>1. CASE Environment
  BY <1>1 DEF Environment, Next
<1>2. ASSUME NEW h \in Handlers, HandlerStep(h) PROVE Next
  BY <1>2 DEF HandlerStep, PushNotify, Step, Next
<1>3. ASSUME NEW u \in Clients,
             Connect(u) \/ Disconnect(u) \/ Heartbeat(u) \/ Gateway(u) \/ Client(u)
      PROVE  UNCHANGED vars
  BY <1>3 DEF Connect, Disconnect, Heartbeat, Gateway, Client, Join, Welcome, HandleSync,
     HandleHeartbeat, ReceiveLogin, ReceiveNotify, ReceiveSync, ReceiveHeartbeat
<1>4. CASE UNCHANGED timelineVars
  BY <1>4 DEF timelineVars
<1> QED BY <1>1, <1>2, <1>3, <1>4 DEF TimelineNext

(* What the composition adds takes nothing from the service: each of its   *)
(* behaviours is one of ChatServer, so all that is proved of it holds.     *)
THEOREM ServiceWithin == TimelineSpec => Spec
<1>1. TimelineInit => Init
  BY DEF TimelineInit
<1> QED BY <1>1, ServiceStep, PTL DEF TimelineSpec, Spec

-------------------------------------------------------------------------------
(* Pages *)

(* What is stored or about to be is finite: a batch grows row by row.      *)
StoredFinite ==
    /\ IsFiniteSet(Master("index"))
    /\ \A h \in Handlers : IsFiniteSet(call[h].batch)

LEMMA StoredFiniteInductive ==
    /\ Init => StoredFinite
    /\ Typed /\ StoredFinite /\ [Next]_vars => StoredFinite'
<1>1. ASSUME Init PROVE StoredFinite
  <2>1. binlog = << [table |-> "member", rows |-> InitialMembers] >>
    BY <1>1 DEF Init
  <2>2. Master("index") = {}
    BY <2>1 DEF Master, Rows
  <2> QED BY <1>1, <2>2, FS_EmptySet DEF Init, StoredFinite, NoCall
<1>2. ASSUME Typed, StoredFinite, [Next]_vars PROVE StoredFinite'
  <2> USE <1>2
  <2>1. IsFiniteSet(Master("index"))'
    BY IndexEffect, FS_Union DEF StoredFinite
  <2>2. ASSUME NEW h \in Handlers PROVE IsFiniteSet(call[h].batch)'
    <3>1. CASE call'[h].batch \subseteq call[h].batch
      BY <3>1, FS_Subset DEF StoredFinite
    <3>2. ASSUME NEW u \in Users, Allocate(h, u) PROVE IsFiniteSet(call'[h].batch)
      <4>1. PICK r : call'[h].batch = call[h].batch \cup {r}
        BY <3>2, AllocateEffect DEF Typed
      <4> QED BY <4>1, FS_AddElement DEF StoredFinite
    <3> QED BY <3>1, <3>2, BatchEffect
  <2> QED BY <2>1, <2>2 DEF StoredFinite
<1> QED BY <1>1, <1>2

(* Of finitely many rows one has the largest number.                       *)
LEMMA LargestSeq ==
    ASSUME NEW S \in SUBSET InboxRows, IsFiniteSet(S), S # {}
    PROVE  \E r \in S : \A q \in S : q.seq <= r.seq
<1> DEFINE Above(r) == {q \in S : q.seq > r.seq}
           T == {Above(r) : r \in S}
<1>1. T \subseteq FiniteSubsetsOf(S) /\ T # {}
  <2>1. \A r \in S : Above(r) \in SUBSET S
    OBVIOUS
  <2>2. \A A \in SUBSET S : IsFiniteSet(A)
    BY FS_Subset
  <2> QED BY <2>1, <2>2 DEF FiniteSubsetsOf
<1>2. \A r \in S : r.seq \in Nat
  BY DEF InboxRows
<1>3. PICK A \in T : \A B \in T : ~ (<<B, A>> \in StrictSubsetOrdering(S))
  BY <1>1, FS_StrictSubsetOrderingWellFounded, WFMin
<1>4. PICK r \in S : A = Above(r)
  BY <1>3
<1>5. ASSUME NEW q \in S, q.seq > r.seq PROVE FALSE
  <2>1. Above(q) \subseteq Above(r) /\ Above(q) # Above(r)
    BY <1>2, <1>5
  <2>2. <<Above(q), Above(r)>> \in StrictSubsetOrdering(S)
    BY <2>1 DEF StrictSubsetOrdering
  <2> QED BY <1>3, <1>4, <2>2
<1> QED BY <1>2, <1>5

(* MaxSeq is the number of a row of the page, and of the last one.         *)
LEMMA MaxSeqIsLargest ==
    ASSUME NEW S \in SUBSET InboxRows, IsFiniteSet(S), S # {}, NEW seq
    PROVE  /\ \E r \in S : MaxSeq(S, seq) = r.seq
           /\ \A r \in S : r.seq <= MaxSeq(S, seq)
<1> DEFINE N == {r.seq : r \in S}
<1>1. \E n \in N : \A r \in S : r.seq <= n
  BY LargestSeq
<1>2. MaxSeq(S, seq) = CHOOSE n \in N : \A r \in S : r.seq <= n
  BY DEF MaxSeq
<1>3. MaxSeq(S, seq) \in N /\ \A r \in S : r.seq <= MaxSeq(S, seq)
  BY <1>1, <1>2
<1> QED BY <1>3

(* A page holds every newer row up to any of its rows.                     *)
LEMMA PageHasNoGap ==
    ASSUME NEW S \in SUBSET InboxRows, IsFiniteSet(S), NEW seq \in Nat, NEW limit \in Nat,
           NEW m \in Page(S, seq, limit), NEW r \in S, seq < r.seq, r.seq <= m.seq
    PROVE  r \in Page(S, seq, limit)
<1> DEFINE newer == {q \in S : q.seq > seq}
           Before(x) == {q \in newer : q.seq < x.seq}
<1>1. \A q \in S : q.seq \in Nat
  BY DEF InboxRows
<1>2. m \in newer /\ Cardinality(Before(m)) < limit
  BY DEF Page
<1>3. r \in newer
  BY <1>1
<1>4. IsFiniteSet(Before(m)) /\ Before(r) \subseteq Before(m)
  BY <1>1, <1>2, FS_Subset
<1>5. /\ Cardinality(Before(r)) <= Cardinality(Before(m))
      /\ Cardinality(Before(r)) \in Nat /\ Cardinality(Before(m)) \in Nat
  BY <1>4, FS_Subset, FS_CardinalityType
<1>6. Cardinality(Before(r)) < limit
  BY <1>2, <1>5
<1> QED BY <1>3, <1>6 DEF Page

(***************************************************************************)
(* The answer to a sync request, whichever server it was read from: it     *)
(* moves the client on to the number of a row it brings, if to any, and    *)
(* brings all there is in between.                                         *)
(***************************************************************************)
LEMMA AnswerEffect ==
    ASSUME Typed, Counted, StoredFinite, NEW u, NEW seq \in Nat, NEW n \in ReadPositions
    PROVE  /\ n \in 0..Len(binlog)
           /\ Answer(u, seq, n) \in Packets
           /\ Answer(u, seq, n).cmd = "sync"
           /\ Answer(u, seq, n).seq >= seq
           /\ \/ Answer(u, seq, n).seq = seq
              \/ \E r \in InboxOf(u, n) : r.seq = Answer(u, seq, n).seq
           /\ \A r \in InboxOf(u, n) :
                 seq < r.seq /\ r.seq <= Answer(u, seq, n).seq => r \in Answer(u, seq, n).rows
<1> DEFINE S == InboxOf(u, n)
           page == Page(S, seq, PageLimit)
           max == MaxSeq(page, seq)
<1>1. n \in 0..Len(binlog)
  BY DEF ReadPositions, Typed, TypeOK
<1>2. S \subseteq Master("index")
  BY <1>1, PrefixOnMaster DEF InboxOf, Typed, TypeOK
<1>3. S \subseteq InboxRows /\ IsFiniteSet(S)
  BY <1>2, FS_Subset DEF Counted, Held, StoredFinite
<1>4. page \subseteq S /\ \A r \in page : r.seq > seq
  BY DEF Page
<1>5. page \subseteq InboxRows /\ IsFiniteSet(page)
  BY <1>3, <1>4, FS_Subset
<1>6. PageLimit \in Nat
  BY LimitsAssumption
<1>7. \A r \in S : r.seq \in Nat
  BY <1>3 DEF InboxRows
<1>8. /\ max \in Nat /\ max >= seq
      /\ max = seq \/ \E r \in page : max = r.seq
  <2>1. CASE page = {}
    BY <2>1 DEF MaxSeq
  <2>2. CASE page # {}
    BY <2>2, <1>4, <1>5, <1>7, MaxSeqIsLargest
  <2> QED BY <2>1, <2>2
<1>9. ASSUME NEW r \in S, seq < r.seq, r.seq <= max PROVE r \in page
  <2>1. PICK m \in page : max = m.seq
    BY <1>7, <1>8, <1>9
  <2> QED BY <1>3, <1>6, <1>9, <2>1, PageHasNoGap
<1>10. Answer(u, seq, n) = [cmd |-> "sync", seq |-> max, rows |-> page]
  BY DEF Answer, Packet
<1> HIDE DEF S, page, max
<1>11. /\ Answer(u, seq, n) \in Packets
       /\ Answer(u, seq, n).cmd = "sync"
       /\ Answer(u, seq, n).seq = max
       /\ Answer(u, seq, n).rows = page
  BY <1>5, <1>8, <1>10 DEF Packets
<1>12. \A r \in page : r \in S
  BY <1>4
<1> QED BY <1>1, <1>8, <1>9, <1>11, <1>12 DEF S

-------------------------------------------------------------------------------
(* Types *)

(* What sending, receiving and breaking do to a channel.                   *)
LEMMA ChannelTypes ==
    ASSUME NEW f \in [Clients -> Seq(Packets)], NEW u \in Clients
    PROVE  /\ \A p \in Packets : [f EXCEPT ![u] = Append(@, p)] \in [Clients -> Seq(Packets)]
           /\ [f EXCEPT ![u] = <<>>] \in [Clients -> Seq(Packets)]
           /\ f[u] # <<>> => /\ [f EXCEPT ![u] = Tail(@)] \in [Clients -> Seq(Packets)]
                             /\ Head(f[u]) \in Packets
OBVIOUS

(* ... and to what is in it.                                               *)
LEMMA ChannelContents ==
    ASSUME NEW f \in [Clients -> Seq(Packets)], NEW u \in Clients, NEW v \in Clients
    PROVE  /\ \A p \in Packets : \A x \in Range([f EXCEPT ![u] = Append(@, p)][v]) :
                 x \in Range(f[v]) \/ (x = p /\ v = u)
           /\ \A x \in Range([f EXCEPT ![u] = <<>>][v]) : x \in Range(f[v])
           /\ f[u] # <<>> => /\ \A x \in Range([f EXCEPT ![u] = Tail(@)][v]) : x \in Range(f[v])
                             /\ Head(f[u]) \in Range(f[u])
<1>1. ASSUME NEW s \in Seq(Packets), NEW p \in Packets, NEW x \in Range(Append(s, p))
      PROVE  x \in Range(s) \/ x = p
  BY <1>1 DEF Range
<1>2. ASSUME NEW s \in Seq(Packets), s # <<>>
      PROVE  /\ Head(s) \in Range(s)
             /\ \A x \in Range(Tail(s)) : x \in Range(s)
  BY <1>2 DEF Range
<1>3. Range(<<>>) = {}
  BY DEF Range
<1> QED BY <1>1, <1>2, <1>3

(* The packets of the protocol are packets.                                *)
LEMMA PacketTypes ==
    /\ \A cmd \in {"login", "notify", "sync", "heartbeat"} :
          Signal(cmd) \in Packets /\ Signal(cmd).cmd = cmd
    /\ ClientTypeOK => \A u \in Clients : SyncRequest(u) \in Packets
BY DEF Signal, SyncRequest, Packet, Packets, ClientTypeOK

(* Sessions, clients and what they send to each other keep their types.    *)
LEMMA ClientTypesInductive ==
    /\ TimelineInit => ClientTypeOK
    /\ /\ Typed /\ Counted /\ StoredFinite /\ ClientTypeOK /\ [TimelineNext]_timelineVars
       => ClientTypeOK'
<1>1. TimelineInit => ClientTypeOK
  BY LimitsAssumption DEF TimelineInit, ClientTypeOK
<1>2. ASSUME Typed, Counted, StoredFinite, ClientTypeOK, [TimelineNext]_timelineVars
      PROVE  ClientTypeOK'
  <2> USE <1>2
  <2>0. /\ upstream \in [Clients -> Seq(Packets)] /\ downstream \in [Clients -> Seq(Packets)]
        /\ MaxConnects \in Nat
    BY LimitsAssumption DEF ClientTypeOK
  <2>1. CASE UNCHANGED clientVars
    BY <2>1 DEF clientVars, ClientTypeOK
  <2>2. ASSUME NEW h \in Handlers, NEW u \in Users, NotifyClient(h, u) PROVE ClientTypeOK'
    <3>1. CASE MayNotify(h, u) /\ Send(downstream, u, Signal("notify"))
               /\ UNCHANGED <<session, status, localSeq, shown, upstream, connects>>
      <4>1. downstream' \in [Clients -> Seq(Packets)]
        BY <2>0, <3>1, ChannelTypes, PacketTypes DEF Send, MayNotify
      <4> QED BY <3>1, <4>1 DEF ClientTypeOK
    <3> QED BY <2>1, <2>2, <3>1 DEF NotifyClient
  <2> SUFFICES ASSUME NEW u \in Clients,
                      Connect(u) \/ Disconnect(u) \/ Heartbeat(u) \/ Gateway(u) \/ Client(u)
               PROVE  ClientTypeOK'
    BY <2>1, <2>2 DEF TimelineNext, HandlerStep, PushNotify, timelineVars
  <2>a. ASSUME Consume(upstream, u), upstream[u] # <<>>
        PROVE  upstream' \in [Clients -> Seq(Packets)]
    BY <2>0, <2>a, ChannelTypes DEF Consume
  <2>b. ASSUME Consume(downstream, u), downstream[u] # <<>>
        PROVE  downstream' \in [Clients -> Seq(Packets)]
    BY <2>0, <2>b, ChannelTypes DEF Consume
  <2>c. ASSUME NEW p \in Packets, Send(upstream, u, p)
        PROVE  upstream' \in [Clients -> Seq(Packets)]
    BY <2>0, <2>c, ChannelTypes DEF Send
  <2>d. ASSUME NEW p \in Packets, Send(downstream, u, p)
        PROVE  downstream' \in [Clients -> Seq(Packets)]
    BY <2>0, <2>d, ChannelTypes DEF Send
  <2>e. ASSUME SyncMessages(u) PROVE upstream' \in [Clients -> Seq(Packets)]
    BY <2>0, <2>c, <2>e, PacketTypes DEF SyncMessages
  <2>3. CASE Connect(u)
    <3>1. upstream' \in [Clients -> Seq(Packets)]
      BY <2>3, <2>c, PacketTypes DEF Connect
    <3>2. connects' \in [Clients -> 0..MaxConnects]
      BY <2>0, <2>3 DEF Connect, ClientTypeOK
    <3> QED BY <2>3, <3>1, <3>2 DEF Connect, ClientTypeOK
  <2>4. CASE Disconnect(u)
    <3>1. /\ upstream' \in [Clients -> Seq(Packets)]
          /\ downstream' \in [Clients -> Seq(Packets)]
      BY <2>0, <2>4, ChannelTypes DEF Disconnect
    <3> QED BY <2>4, <3>1 DEF Disconnect, ClientTypeOK
  <2>5. CASE Heartbeat(u)
    <3>1. upstream' \in [Clients -> Seq(Packets)]
      BY <2>5, <2>c, PacketTypes DEF Heartbeat
    <3> QED BY <2>5, <3>1 DEF Heartbeat, ClientTypeOK
  <2>6. CASE Join(u)
    BY <2>6 DEF Join, ClientTypeOK
  <2>7. CASE Welcome(u)
    <3>1. downstream' \in [Clients -> Seq(Packets)] /\ upstream' \in [Clients -> Seq(Packets)]
      BY <2>7, <2>a, <2>d, PacketTypes DEF Welcome, Receives
    <3> QED BY <2>7, <3>1 DEF Welcome, ClientTypeOK
  <2>8. CASE HandleSync(u)
    <3>0. Head(upstream[u]) \in Packets
      BY <2>0, <2>8, ChannelTypes DEF HandleSync, Receives
    <3>1. \A n \in ReadPositions : Answer(u, Head(upstream[u]).seq, n) \in Packets
      BY <3>0, AnswerEffect DEF Packets
    <3>2. downstream' \in [Clients -> Seq(Packets)]
      BY <2>8, <2>d, <3>1, PacketTypes DEF HandleSync
    <3>3. upstream' \in [Clients -> Seq(Packets)]
      BY <2>8, <2>a DEF HandleSync, Receives
    <3> QED BY <2>8, <3>2, <3>3 DEF HandleSync, ClientTypeOK
  <2>9. CASE HandleHeartbeat(u)
    <3>1. downstream' \in [Clients -> Seq(Packets)] /\ upstream' \in [Clients -> Seq(Packets)]
      BY <2>9, <2>a, <2>d, PacketTypes DEF HandleHeartbeat, Receives
    <3> QED BY <2>9, <3>1 DEF HandleHeartbeat, ClientTypeOK
  <2>10. CASE ReceiveLogin(u)
    <3>1. downstream' \in [Clients -> Seq(Packets)] /\ upstream' \in [Clients -> Seq(Packets)]
      BY <2>10, <2>b, <2>c, PacketTypes DEF ReceiveLogin, Receives
    <3> QED BY <2>10, <3>1 DEF ReceiveLogin, ClientTypeOK
  <2>11. CASE ReceiveNotify(u)
    <3>1. downstream' \in [Clients -> Seq(Packets)] /\ upstream' \in [Clients -> Seq(Packets)]
      BY <2>11, <2>b, <2>e DEF ReceiveNotify, Receives
    <3> QED BY <2>11, <3>1 DEF ReceiveNotify, ClientTypeOK
  <2>12. CASE ReceiveSync(u)
    <3>1. downstream' \in [Clients -> Seq(Packets)]
      BY <2>12, <2>b DEF ReceiveSync, Receives
    <3>2. Head(downstream[u]).seq \in Nat /\ Head(downstream[u]).rows \in SUBSET InboxRows
      <4>1. Head(downstream[u]) \in Packets
        BY <2>0, <2>12, ChannelTypes DEF ReceiveSync, Receives
      <4> QED BY <4>1 DEF Packets
    <3>3. localSeq' \in [Clients -> Nat] /\ shown' \in [Clients -> SUBSET InboxRows]
      BY <2>12, <3>2 DEF ReceiveSync, Advance, ClientTypeOK
    <3> QED BY <2>12, <3>1, <3>3 DEF ReceiveSync, ClientTypeOK
  <2>13. CASE ReceiveHeartbeat(u)
    <3>1. downstream' \in [Clients -> Seq(Packets)] /\ upstream' \in [Clients -> Seq(Packets)]
      BY <2>0, <2>13, <2>b, <2>e DEF ReceiveHeartbeat, Receives
    <3> QED BY <2>13, <3>1 DEF ReceiveHeartbeat, ClientTypeOK
  <2> QED
    BY <2>3, <2>4, <2>5, <2>6, <2>7, <2>8, <2>9, <2>10, <2>11, <2>12, <2>13 DEF Gateway, Client
<1> QED BY <1>1, <1>2

(* The variables of the service and of its clients are well typed.         *)
TimelineTyped == Typed /\ Counted /\ StoredFinite /\ ClientTypeOK

LEMMA TimelineTypedInductive ==
    /\ TimelineInit => TimelineTyped
    /\ TimelineTyped /\ [TimelineNext]_timelineVars => TimelineTyped'
<1>1. TimelineInit => Init
  BY DEF TimelineInit
<1> QED
  BY <1>1, ServiceStep, TypedInductive, CountedInductive, StoredFiniteInductive,
     ClientTypesInductive DEF TimelineTyped

(* The variables of sessions and clients have their types.                 *)
THEOREM ClientTypes == TimelineSpec => []ClientTypeOK
<1>1. TimelineTyped => ClientTypeOK
  BY DEF TimelineTyped
<1> QED BY <1>1, TimelineTypedInductive, PTL DEF TimelineSpec

-------------------------------------------------------------------------------
(* What localSeq stands for *)

(* Each step leaves localSeq of a client alone, starts it anew with the    *)
(* connection, or moves it on to the number of an answer, whose rows are   *)
(* then shown.                                                             *)
LEMMA LocalSeqEffect ==
    ASSUME TimelineTyped, [TimelineNext]_timelineVars, NEW u \in Clients
    PROVE  \/ localSeq'[u] = localSeq[u] /\ shown'[u] = shown[u]
           \/ localSeq'[u] = 0 /\ shown'[u] = shown[u] /\ status'[u] = "handshaking"
           \/ \E p \in Range(downstream[u]) :
                 /\ p.cmd = "sync" /\ p.seq \in Nat
                 /\ localSeq'[u] = Advance(localSeq[u], p.seq)
                 /\ shown'[u] = shown[u] \cup p.rows
<1>0. /\ localSeq \in [Clients -> Nat] /\ shown \in [Clients -> SUBSET InboxRows]
      /\ status \in [Clients -> {"offline", "handshaking", "online"}]
      /\ downstream \in [Clients -> Seq(Packets)]
  BY DEF TimelineTyped, ClientTypeOK
<1>1. CASE UNCHANGED <<localSeq, shown>>
  BY <1>1
<1>2. ASSUME NEW v \in Clients, Connect(v)
      PROVE  \/ localSeq'[u] = localSeq[u] /\ shown'[u] = shown[u]
             \/ localSeq'[u] = 0 /\ shown'[u] = shown[u] /\ status'[u] = "handshaking"
  BY <1>0, <1>2 DEF Connect
<1>3. ASSUME NEW v \in Clients, ReceiveSync(v), v # u
      PROVE  localSeq'[u] = localSeq[u] /\ shown'[u] = shown[u]
  BY <1>0, <1>3 DEF ReceiveSync
<1>4. CASE ReceiveSync(u)
  <2>1. PICK p : p = Head(downstream[u])
    OBVIOUS
  <2>2. p \in Range(downstream[u]) /\ p \in Packets /\ p.cmd = "sync"
    BY <1>0, <1>4, <2>1, ChannelTypes, ChannelContents DEF ReceiveSync, Receives
  <2>3. /\ localSeq'[u] = Advance(localSeq[u], p.seq)
        /\ shown'[u] = shown[u] \cup p.rows
    BY <1>0, <1>4, <2>1 DEF ReceiveSync
  <2> QED BY <2>2, <2>3 DEF Packets
<1> QED
  BY <1>1, <1>2, <1>3, <1>4
  DEF TimelineNext, HandlerStep, PushNotify, NotifyClient, timelineVars, clientVars, Gateway,
      Client, Disconnect, Heartbeat, Join, Welcome, HandleSync, HandleHeartbeat,
      ReceiveLogin, ReceiveNotify, ReceiveHeartbeat

(* Within a connection localSeq never goes back.                           *)
THEOREM NeverBack == TimelineSpec => LocalSeqNeverBack
<1> DEFINE Forward == \A u \in Clients : status'[u] # "handshaking" => localSeq'[u] >= localSeq[u]
<1>1. TimelineTyped /\ [TimelineNext]_timelineVars => [Forward]_timelineVars
  <2> SUFFICES ASSUME TimelineTyped, [TimelineNext]_timelineVars, NEW u \in Clients,
                      status'[u] # "handshaking"
               PROVE  localSeq'[u] >= localSeq[u]
    OBVIOUS
  <2>1. localSeq[u] \in Nat
    BY DEF TimelineTyped, ClientTypeOK
  <2> QED BY <2>1, LocalSeqEffect DEF Advance
<1> QED BY <1>1, TimelineTypedInductive, PTL DEF TimelineSpec, LocalSeqNeverBack

(* What a step puts on its way to the gateway: of sync requests only those *)
(* that start from localSeq.                                               *)
LEMMA UpstreamEffect ==
    ASSUME TimelineTyped, [TimelineNext]_timelineVars, NEW u \in Clients,
           NEW p \in Range(upstream'[u])
    PROVE  p \in Range(upstream[u]) \/ p.cmd # "sync" \/ p = SyncRequest(u)
<1>0. upstream \in [Clients -> Seq(Packets)]
  BY DEF TimelineTyped, ClientTypeOK
<1>1. CASE UNCHANGED upstream
  BY <1>1
<1>2. ASSUME NEW v \in Clients, Consume(upstream, v), upstream[v] # <<>>
      PROVE  p \in Range(upstream[u])
  BY <1>0, <1>2, ChannelContents DEF Consume
<1>3. ASSUME NEW v \in Clients, NEW q \in Packets, Send(upstream, v, q)
      PROVE  p \in Range(upstream[u]) \/ (p = q /\ v = u)
  BY <1>0, <1>3, ChannelContents DEF Send
<1>4. ASSUME NEW v \in Clients, SyncMessages(v)
      PROVE  p \in Range(upstream[u]) \/ p = SyncRequest(u)
  BY <1>1, <1>3, <1>4, PacketTypes DEF SyncMessages, TimelineTyped
<1>5. ASSUME NEW v \in Clients, Disconnect(v) PROVE p \in Range(upstream[u])
  BY <1>0, <1>5, ChannelContents DEF Disconnect
<1>6. ASSUME NEW v \in Clients, Connect(v) \/ Heartbeat(v)
      PROVE  p \in Range(upstream[u]) \/ p.cmd # "sync"
  BY <1>3, <1>6, PacketTypes DEF Connect, Heartbeat
<1>7. ASSUME NEW v \in Clients, Gateway(v) PROVE p \in Range(upstream[u])
  BY <1>2, <1>1, <1>7 DEF Gateway, Join, Welcome, HandleSync, HandleHeartbeat, Receives
<1>8. ASSUME NEW v \in Clients, Client(v)
      PROVE  p \in Range(upstream[u]) \/ p = SyncRequest(u)
  BY <1>1, <1>3, <1>4, <1>8, PacketTypes
  DEF Client, ReceiveLogin, ReceiveNotify, ReceiveSync, ReceiveHeartbeat, TimelineTyped
<1> QED
  BY <1>1, <1>5, <1>6, <1>7, <1>8
  DEF TimelineNext, HandlerStep, PushNotify, NotifyClient, timelineVars, clientVars

(* What a step puts on its way to the client: of sync responses only those *)
(* that answer a request under way, and empty ones.                        *)
LEMMA DownstreamEffect ==
    ASSUME TimelineTyped, [TimelineNext]_timelineVars, NEW u \in Clients,
           NEW p \in Range(downstream'[u])
    PROVE  \/ p \in Range(downstream[u])
           \/ p.cmd # "sync"
           \/ p = Signal("sync")
           \/ /\ UNCHANGED vars
              /\ \E q \in Range(upstream[u]), n \in ReadPositions :
                    q.cmd = "sync" /\ q \in Packets /\ p = Answer(u, q.seq, n)
<1>0. upstream \in [Clients -> Seq(Packets)] /\ downstream \in [Clients -> Seq(Packets)]
  BY DEF TimelineTyped, ClientTypeOK
<1>1. CASE UNCHANGED downstream
  BY <1>1
<1>2. ASSUME NEW v \in Clients, Consume(downstream, v), downstream[v] # <<>>
      PROVE  p \in Range(downstream[u])
  BY <1>0, <1>2, ChannelContents DEF Consume
<1>3. ASSUME NEW v \in Clients, NEW q \in Packets, Send(downstream, v, q)
      PROVE  p \in Range(downstream[u]) \/ (p = q /\ v = u)
  <2>1. downstream' = [downstream EXCEPT ![v] = Append(@, q)]
    BY <1>3 DEF Send
  <2>2. p \in Range([downstream EXCEPT ![v] = Append(@, q)][u])
    BY <2>1, Zenon
  <2>3. \A f \in [Clients -> Seq(Packets)] : \A x \in Range([f EXCEPT ![v] = Append(@, q)][u]) :
            x \in Range(f[u]) \/ (x = q /\ u = v)
    BY ChannelContents
  <2> QED BY <1>0, <2>2, <2>3, Zenon
<1>4. ASSUME NEW v \in Clients, Disconnect(v) PROVE p \in Range(downstream[u])
  BY <1>0, <1>4, ChannelContents DEF Disconnect
<1>5. ASSUME NEW v \in Clients, Client(v) PROVE p \in Range(downstream[u])
  BY <1>2, <1>5
  DEF Client, ReceiveLogin, ReceiveNotify, ReceiveSync, ReceiveHeartbeat, Receives
<1>6. ASSUME NEW h \in Handlers, NEW v \in Users, NotifyClient(h, v)
      PROVE  p \in Range(downstream[u]) \/ p.cmd # "sync"
  BY <1>1, <1>3, <1>6, PacketTypes DEF NotifyClient, MayNotify, clientVars
<1>7. ASSUME NEW v \in Clients, Join(v) \/ Welcome(v) \/ HandleHeartbeat(v)
      PROVE  p \in Range(downstream[u]) \/ p.cmd # "sync"
  BY <1>1, <1>3, <1>7, PacketTypes DEF Join, Welcome, HandleHeartbeat
<1>8. ASSUME NEW v \in Clients, HandleSync(v)
      PROVE  \/ p \in Range(downstream[u]) \/ p = Signal("sync")
             \/ /\ UNCHANGED vars
                /\ \E q \in Range(upstream[u]), n \in ReadPositions :
                    q.cmd = "sync" /\ q \in Packets /\ p = Answer(u, q.seq, n)
  <2>1. PICK q : q = Head(upstream[v])
    OBVIOUS
  <2>2. q \in Packets /\ q \in Range(upstream[v]) /\ q.cmd = "sync"
    BY <1>0, <1>8, <2>1, ChannelTypes, ChannelContents DEF HandleSync, Receives
  <2>3. CASE Send(downstream, v, Signal("sync"))
    BY <1>3, <2>3, PacketTypes
  <2>4. ASSUME NEW n \in ReadPositions, Send(downstream, v, Answer(v, q.seq, n))
        PROVE  p \in Range(downstream[u]) \/ (v = u /\ p = Answer(u, q.seq, n))
    <3>1. q.seq \in Nat
      BY <2>2 DEF Packets
    <3>2. Answer(v, q.seq, n) \in Packets
      BY <3>1, AnswerEffect DEF TimelineTyped
    <3> QED BY <1>3, <2>4, <3>2
  <2> QED BY <1>8, <2>1, <2>2, <2>3, <2>4 DEF HandleSync
<1> QED
  BY <1>1, <1>4, <1>5, <1>6, <1>7, <1>8
  DEF TimelineNext, HandlerStep, PushNotify, timelineVars, clientVars, Gateway, Connect, Heartbeat

-------------------------------------------------------------------------------
(* What is behind localSeq has been seen *)

(***************************************************************************)
(* A number up to which rows have been seen.  It is that of a row, so that *)
(* a row with a larger number than all before it is not behind it.         *)
(***************************************************************************)
SeenUpTo(rows, k, seen) ==
    /\ k = 0 \/ \E r \in rows : r.seq = k
    /\ \A r \in rows : 0 < r.seq /\ r.seq <= k => r \in seen

(* It stays one when an inbox grows in the order of its numbers.           *)
LEMMA SeenWhileGrowing ==
    ASSUME NEW I \in SUBSET InboxRows, NEW J \in SUBSET InboxRows, I \subseteq J,
           \A r \in J \ I : r.seq > 0 => \A q \in I : q.seq < r.seq,
           NEW k, NEW S, NEW T, S \subseteq T, SeenUpTo(I, k, S)
    PROVE  SeenUpTo(J, k, T)
<1>1. k = 0 \/ \E r \in J : r.seq = k
  BY DEF SeenUpTo
<1>2. ASSUME NEW r \in J, 0 < r.seq, r.seq <= k PROVE r \in T
  <2>0. r.seq \in Nat /\ \A q \in I : q.seq \in Nat
    BY DEF InboxRows
  <2>1. CASE r \in I
    BY <1>2, <2>1 DEF SeenUpTo
  <2>2. CASE r \notin I
    BY <1>2, <2>0, <2>2 DEF SeenUpTo
  <2> QED BY <2>1, <2>2
<1> QED BY <1>1, <1>2 DEF SeenUpTo

Stored(u) == InboxOf(u, Len(binlog))

(* Every number a client may come to have as its localSeq.                 *)
NumbersSeen ==
    \A u \in Clients :
        /\ SeenUpTo(Stored(u), localSeq[u], shown[u])
        /\ \A p \in Range(upstream[u]) :
              p.cmd = "sync" => SeenUpTo(Stored(u), p.seq, shown[u])
        /\ \A p \in Range(downstream[u]) :
              p.cmd = "sync" => SeenUpTo(Stored(u), p.seq, shown[u] \cup p.rows)

(* A server that lags behind lacks only rows with larger numbers.          *)
PrefixesOrdered ==
    \A u \in Clients : \A n \in 0..Len(binlog) :
        \A r \in Stored(u) \ InboxOf(u, n) :
            r.seq > 0 => \A q \in InboxOf(u, n) : q.seq < r.seq

(* A step that stores rows in the order of their numbers.                  *)
StoresInOrder ==
    \A r \in Master("index")' \ Master("index") :
        r.seq > 0 => \A q \in Master("index") : q.owner = r.owner => q.seq < r.seq

(* How the inbox of a client grows in such a step.                         *)
LEMMA StoredEffect ==
    ASSUME Typed, Counted, Typed', Counted', [Next]_vars, StoresInOrder, NEW u
    PROVE  /\ Stored(u) \in SUBSET InboxRows /\ Stored(u)' \in SUBSET InboxRows
           /\ Stored(u) \subseteq Stored(u)'
           /\ \A r \in Stored(u)' \ Stored(u) :
                 r.seq > 0 => \A q \in Stored(u) : q.seq < r.seq
<1>1. Master("index") \subseteq InboxRows /\ Master("index")' \subseteq InboxRows
  BY DEF Counted, Held
<1>2. Master("index") \subseteq Master("index")'
  BY TablesGrow
<1>3. /\ Stored(u) = {r \in Master("index") : r.owner = u}
      /\ Stored(u)' = {r \in Master("index")' : r.owner = u}
  BY DEF Stored, InboxOf, Master
<1> QED BY <1>1, <1>2, <1>3 DEF StoresInOrder

LEMMA PrefixesOrderedInductive ==
    /\ Init => PrefixesOrdered
    /\ /\ Typed /\ Counted /\ Typed' /\ Counted' /\ PrefixesOrdered /\ [Next]_vars /\ StoresInOrder
       => PrefixesOrdered'
<1>1. ASSUME Init PROVE PrefixesOrdered
  <2>1. binlog = << [table |-> "member", rows |-> InitialMembers] >>
    BY <1>1 DEF Init
  <2>2. Rows("index", Len(binlog)) = {}
    BY <2>1 DEF Rows
  <2> QED BY <2>2 DEF PrefixesOrdered, Stored, InboxOf
<1>2. ASSUME Typed, Counted, Typed', Counted', PrefixesOrdered, [Next]_vars, StoresInOrder,
             NEW u \in Clients, NEW n \in 0..Len(binlog'),
             NEW r \in Stored(u)' \ InboxOf(u, n)', r.seq > 0,
             NEW q \in InboxOf(u, n)'
      PROVE  q.seq < r.seq
  <2>1. CASE n \in 0..Len(binlog) /\ \A t : Rows(t, n)' = Rows(t, n)
    <3>1. InboxOf(u, n)' = InboxOf(u, n)
      BY <2>1 DEF InboxOf
    <3>2. q \in InboxOf(u, n) /\ r \notin InboxOf(u, n)
      BY <1>2, <3>1
    <3>3. CASE r \in Stored(u)
      BY <1>2, <2>1, <3>2, <3>3 DEF PrefixesOrdered
    <3>4. CASE r \notin Stored(u)
      <4>1. q \in Stored(u)
        BY <1>2, <2>1, <3>2, PrefixOnMaster DEF InboxOf, Stored, Master, Typed, TypeOK
      <4> QED BY <1>2, <3>4, <4>1, StoredEffect
    <3> QED BY <3>3, <3>4
  <2>2. CASE \A t : Rows(t, n)' = Master(t)'
    <3>1. InboxOf(u, n)' = Stored(u)'
      BY <2>2 DEF InboxOf, Stored, Master
    <3> QED BY <1>2, <3>1
  <2> QED BY <1>2, <2>1, <2>2, Prefixes
<1>3. /\ Typed /\ Counted /\ Typed' /\ Counted' /\ PrefixesOrdered /\ [Next]_vars /\ StoresInOrder
      => PrefixesOrdered'
  BY <1>2 DEF PrefixesOrdered
<1> QED BY <1>1, <1>3

(* An answer brings the client to another such number, however far the     *)
(* server it was read from lags behind.                                    *)
LEMMA AnswerSeen ==
    ASSUME Typed, Counted, StoredFinite, PrefixesOrdered, NEW u \in Clients, NEW seq \in Nat,
           NEW n \in ReadPositions, NEW S, SeenUpTo(Stored(u), seq, S)
    PROVE  SeenUpTo(Stored(u), Answer(u, seq, n).seq, S \cup Answer(u, seq, n).rows)
<1> DEFINE p == Answer(u, seq, n)
<1>1. /\ n \in 0..Len(binlog)
      /\ p.seq = seq \/ \E r \in InboxOf(u, n) : r.seq = p.seq
      /\ \A r \in InboxOf(u, n) : seq < r.seq /\ r.seq <= p.seq => r \in p.rows
      /\ p.seq \in Nat
  BY AnswerEffect DEF Packets
<1> HIDE DEF p
<1>2. InboxOf(u, n) \subseteq Stored(u)
  BY <1>1, PrefixOnMaster DEF InboxOf, Stored, Master, Typed, TypeOK
<1>3. \A r \in Stored(u) : r.seq \in Nat
  BY DEF Stored, InboxOf, Counted, Held, InboxRows, Master
<1>4. p.seq = 0 \/ \E r \in Stored(u) : r.seq = p.seq
  BY <1>1, <1>2 DEF SeenUpTo
<1>5. ASSUME NEW r \in Stored(u), 0 < r.seq, r.seq <= p.seq PROVE r \in S \cup p.rows
  <2>1. CASE r.seq <= seq
    BY <1>5, <2>1 DEF SeenUpTo
  <2>2. CASE r.seq > seq
    <3>1. r \in InboxOf(u, n)
      BY <1>1, <1>2, <1>3, <1>5, <2>2 DEF PrefixesOrdered
    <3> QED BY <1>1, <1>5, <2>2, <3>1
  <2> QED BY <1>3, <2>1, <2>2
<1>6. SeenUpTo(Stored(u), p.seq, S \cup p.rows)
  BY <1>4, <1>5 DEF SeenUpTo
<1> QED BY <1>6 DEF p

LEMMA NumbersSeenInductive ==
    /\ TimelineInit => NumbersSeen
    /\ /\ TimelineTyped /\ TimelineTyped' /\ PrefixesOrdered /\ NumbersSeen
       /\ [TimelineNext]_timelineVars /\ StoresInOrder
       => NumbersSeen'
<1>0. \A u : Stored(u) \in SUBSET InboxRows \/ ~Counted
  BY DEF Stored, InboxOf, Counted, Held, Master
<1>z. \A rows, seen : rows \subseteq InboxRows => SeenUpTo(rows, 0, seen)
  BY DEF SeenUpTo, InboxRows
<1>1. ASSUME TimelineInit PROVE NumbersSeen
  <2>1. Counted
    BY <1>1, CountedInductive DEF TimelineInit
  <2>2. ASSUME NEW u \in Clients
        PROVE  localSeq[u] = 0 /\ Range(upstream[u]) = {} /\ Range(downstream[u]) = {}
    BY <1>1 DEF TimelineInit, Range
  <2> QED BY <1>0, <1>z, <2>1, <2>2 DEF NumbersSeen
<1>2. ASSUME TimelineTyped, TimelineTyped', PrefixesOrdered, NumbersSeen,
             [TimelineNext]_timelineVars, StoresInOrder, NEW u \in Clients
      PROVE  /\ SeenUpTo(Stored(u)', localSeq'[u], shown'[u])
             /\ \A p \in Range(upstream'[u]) :
                   p.cmd = "sync" => SeenUpTo(Stored(u)', p.seq, shown'[u])
             /\ \A p \in Range(downstream'[u]) :
                   p.cmd = "sync" => SeenUpTo(Stored(u)', p.seq, shown'[u] \cup p.rows)
  <2> USE <1>2
  <2> DEFINE I == Stored(u)
             J == Stored(u)'
  <2>1. /\ I \in SUBSET InboxRows /\ J \in SUBSET InboxRows /\ I \subseteq J
        /\ \A r \in J \ I : r.seq > 0 => \A q \in I : q.seq < r.seq
    BY ServiceStep, StoredEffect DEF TimelineTyped
  <2>2. /\ SeenUpTo(I, localSeq[u], shown[u])
        /\ \A p \in Range(upstream[u]) : p.cmd = "sync" => SeenUpTo(I, p.seq, shown[u])
        /\ \A p \in Range(downstream[u]) :
              p.cmd = "sync" => SeenUpTo(I, p.seq, shown[u] \cup p.rows)
    BY DEF NumbersSeen
  <2>3. shown[u] \subseteq shown'[u]
    BY LocalSeqEffect
  <2> HIDE DEF I, J
  <2>4. ASSUME NEW k, NEW S, NEW T, S \subseteq T, SeenUpTo(I, k, S) PROVE SeenUpTo(J, k, T)
    BY <2>1, <2>4, SeenWhileGrowing
  <2>5. SeenUpTo(J, localSeq'[u], shown'[u])
    <3>1. CASE localSeq'[u] = localSeq[u]
      BY <2>2, <2>3, <2>4, <3>1
    <3>2. CASE localSeq'[u] = 0
      BY <1>z, <2>1, <3>2
    <3>3. ASSUME NEW p \in Range(downstream[u]), p.cmd = "sync",
                 localSeq'[u] = p.seq, shown'[u] = shown[u] \cup p.rows
          PROVE  SeenUpTo(J, localSeq'[u], shown'[u])
      BY <2>2, <2>4, <3>3
    <3> QED BY <3>1, <3>2, <3>3, LocalSeqEffect DEF Advance
  <2>6. ASSUME NEW p \in Range(upstream'[u]), p.cmd = "sync"
        PROVE  SeenUpTo(J, p.seq, shown'[u])
    <3>1. CASE p \in Range(upstream[u])
      BY <2>2, <2>3, <2>4, <2>6, <3>1
    <3>2. CASE p = SyncRequest(u)
      <4>1. p.seq = localSeq[u]
        BY <3>2 DEF SyncRequest, Packet
      <4> QED BY <2>2, <2>3, <2>4, <4>1
    <3> QED BY <2>6, <3>1, <3>2, UpstreamEffect
  <2>7. ASSUME NEW p \in Range(downstream'[u]), p.cmd = "sync"
        PROVE  SeenUpTo(J, p.seq, shown'[u] \cup p.rows)
    <3>0. shown[u] \cup p.rows \subseteq shown'[u] \cup p.rows
      BY <2>3
    <3>1. CASE p \in Range(downstream[u])
      BY <2>2, <2>4, <2>7, <3>0, <3>1
    <3>2. CASE p = Signal("sync")
      <4>1. p.seq = 0
        BY <3>2 DEF Signal, Packet
      <4> QED BY <1>z, <2>1, <4>1
    <3>3. ASSUME NEW q \in Range(upstream[u]), NEW n \in ReadPositions,
                 q.cmd = "sync", q \in Packets, p = Answer(u, q.seq, n)
          PROVE  SeenUpTo(J, p.seq, shown'[u] \cup p.rows)
      <4>1. q.seq \in Nat /\ SeenUpTo(I, q.seq, shown[u])
        BY <2>2, <3>3 DEF Packets
      <4>2. SeenUpTo(I, p.seq, shown[u] \cup p.rows)
        BY <3>3, <4>1, AnswerSeen DEF I, TimelineTyped
      <4> QED BY <2>4, <3>0, <4>2
    <3> QED BY <2>7, <3>1, <3>2, <3>3, DownstreamEffect
  <2> QED BY <2>5, <2>6, <2>7 DEF J
<1>3. /\ TimelineTyped /\ TimelineTyped' /\ PrefixesOrdered /\ NumbersSeen
      /\ [TimelineNext]_timelineVars /\ StoresInOrder
      => NumbersSeen'
  BY <1>2 DEF NumbersSeen
<1> QED BY <1>1, <1>3

(* As long as rows are stored in the order of their numbers, a client has  *)
(* shown every row of its inbox up to its localSeq: whatever replicas lag, *)
(* calls fail, notifications are lost and connections break.               *)
THEOREM LocalSeqCovers ==
    TimelineSpec /\ [][StoresInOrder]_timelineVars => []LocalSeqCoversInbox
<1> DEFINE Seen == TimelineTyped /\ PrefixesOrdered /\ NumbersSeen
<1>1. TimelineInit => Seen
  BY TimelineTypedInductive, PrefixesOrderedInductive, NumbersSeenInductive DEF TimelineInit
<1>2. Seen /\ [TimelineNext]_timelineVars /\ [StoresInOrder]_timelineVars => Seen'
  <2>1. UNCHANGED timelineVars => StoresInOrder
    BY DEF timelineVars, vars, storeVars, StoresInOrder, Master, Rows
  <2> QED
    BY <2>1, ServiceStep, TimelineTypedInductive, PrefixesOrderedInductive, NumbersSeenInductive
    DEF TimelineTyped
<1>3. Seen => LocalSeqCoversInbox
  BY DEF NumbersSeen, SeenUpTo, Stored, LocalSeqCoversInbox
<1> QED BY <1>1, <1>2, <1>3, PTL DEF TimelineSpec

-------------------------------------------------------------------------------
(* One at a time is in order *)

(* A call between its first INCR and its INSERT, for an addressee.         *)
Storing(h, u) ==
    /\ call[h].pc \in {"incr", "insert"}
    /\ u \in call[h].todo \cup Owners(call[h].batch)

(* No two calls store into one inbox at the same time.                     *)
StoredOneAtATime ==
    \A u \in Users : \A g, h \in Handlers : Storing(g, u) /\ Storing(h, u) => g = h

(* The numbers a call is about to store are larger than those stored.      *)
BatchesAhead ==
    \A h \in Handlers : call[h].pc \in {"incr", "insert"} =>
        \A r \in call[h].batch :
            r.seq > 0 => \A q \in Master("index") : q.owner = r.owner => q.seq < r.seq

LEMMA BatchesAheadInductive ==
    /\ Init => BatchesAhead
    /\ ServiceInv /\ BatchesAhead /\ StoredOneAtATime /\ [Next]_vars => BatchesAhead'
<1>1. Init => BatchesAhead
  BY DEF Init, BatchesAhead, NoCall
<1>2. ASSUME ServiceInv, BatchesAhead, StoredOneAtATime, [Next]_vars,
             NEW h \in Handlers, call'[h].pc \in {"incr", "insert"},
             NEW r \in call'[h].batch, r.seq > 0,
             NEW q \in Master("index")', q.owner = r.owner
      PROVE  q.seq < r.seq
  <2> USE <1>2
  <2>0. Typed /\ Counted
    BY DEF ServiceInv
  <2>1. ASSUME NEW u \in Users, Allocate(h, u) PROVE q.seq < r.seq
    <3>1. PICK n \in {0, seqCounter[u] + 1} :
            call'[h].batch = call[h].batch \cup {InboxRow(u, n, call[h].msg)}
      BY <2>1, <2>0, AllocateEffect DEF Typed
    <3>2. call[h].pc = "incr" /\ q \in Master("index")
      BY <2>1 DEF Allocate, At, storeVars, Master, Rows
    <3>3. CASE r \in call[h].batch
      BY <3>2, <3>3 DEF BatchesAhead
    <3>4. CASE r = InboxRow(u, n, call[h].msg)
      <4>1. r.owner = u /\ r.seq = n /\ n = seqCounter[u] + 1
        BY <3>4, <3>1 DEF InboxRow
      <4>2. q.seq <= seqCounter[u] /\ q.seq \in Nat /\ seqCounter[u] \in Nat
        BY <2>0, <3>2, <4>1 DEF Counted, Held, InboxRows, Typed, TypeOK
      <4> QED BY <4>1, <4>2
    <3> QED BY <3>1, <3>3, <3>4
  <2>2. ASSUME call'[h].batch \subseteq call[h].batch, ~ \E u \in Users : Allocate(h, u)
        PROVE  q.seq < r.seq
    <3>1. r \in call[h].batch
      BY <2>2
    <3>0. call[h].pc \in {"incr", "insert"}
      <4>1. call[h].pc \in Early
        BY <2>0, <2>2, BeginEffect, PhaseEffect DEF Early, ServiceInv, Typed
      <4> QED BY <3>1, <4>1 DEF Early, Unsent, ServiceInv, Fresh
    <3>2. CASE q \in Master("index")
      BY <3>0, <3>1, <3>2 DEF BatchesAhead
    <3>3. ASSUME NEW g \in Handlers, At(g, "insert"), q \in call[g].batch,
                 Continue(g, "push", Owners(call[g].batch)) \/ Return(g)
          PROVE  FALSE
      <4>1. Storing(g, q.owner) /\ Storing(h, q.owner)
        BY <3>0, <3>1, <3>3 DEF Storing, At, Owners
      <4>2. q.owner \in Users
        BY <2>0, <3>3 DEF Counted, Held, InboxRows
      <4>3. g = h
        BY <4>1, <4>2 DEF StoredOneAtATime
      <4>4. call'[g].pc \in {"push", "idle"}
        <5>1. call[g] \in Calls
          BY <2>0 DEF Typed, TypeOK
        <5> QED BY <2>0, <3>3, <5>1, ReturnEffect DEF NoCall, Continue, Typed, TypeOK, Calls
      <4> QED BY <4>3, <4>4
    <3> QED BY <3>2, <3>3, <2>0, IndexEffect
  <2> QED BY <2>1, <2>2, <2>0, BatchEffect
<1>3. ServiceInv /\ BatchesAhead /\ StoredOneAtATime /\ [Next]_vars => BatchesAhead'
  BY <1>2 DEF BatchesAhead
<1> QED BY <1>1, <1>3

(* Calls that store into an inbox one after the other store in the order   *)
(* of the numbers, and so do all calls where they never overlap at all.    *)
THEOREM OneAtATimeInOrder ==
    TimelineSpec /\ []StoredOneAtATime => [][StoresInOrder]_timelineVars
<1>1. Init => BatchesAhead
  BY BatchesAheadInductive
<1>2. ServiceInv /\ BatchesAhead /\ StoredOneAtATime /\ [Next]_vars => BatchesAhead'
  BY BatchesAheadInductive
<1>3. ServiceInv /\ BatchesAhead /\ [Next]_vars => StoresInOrder
  <2> SUFFICES ASSUME ServiceInv, BatchesAhead, [Next]_vars,
                      NEW r \in Master("index")' \ Master("index"), r.seq > 0,
                      NEW q \in Master("index"), q.owner = r.owner
               PROVE  q.seq < r.seq
    BY DEF StoresInOrder
  <2>1. PICK h \in Handlers : At(h, "insert") /\ r \in call[h].batch
    BY IndexEffect DEF ServiceInv
  <2> QED BY <2>1 DEF At, BatchesAhead
<1>4. Init => ServiceInv
  BY InvInductive
<1>5. ServiceInv /\ [Next]_vars => ServiceInv'
  BY InvInductive
<1> QED
  BY <1>1, <1>2, <1>3, <1>4, <1>5, ServiceWithin, ServiceStep, PTL
  DEF TimelineSpec, Spec

(* "The client only has to record local_max_seq": that is enough as long   *)
(* as messages are stored into an inbox one at a time.                     *)
THEOREM OneAtATimeCovers ==
    TimelineSpec /\ []StoredOneAtATime => []LocalSeqCoversInbox
BY LocalSeqCovers, OneAtATimeInOrder, PTL
===============================================================================
