------------------------------- MODULE Timeline -------------------------------
(***************************************************************************)
(* Push and pull: how the rows the chat service puts into an inbox come to *)
(* be shown by a client.  SendMessage notifies the gateway that holds the  *)
(* session of an addressee; the gateway passes the notification on; the    *)
(* client answers it with SyncMessages from its local_seq, which reads a   *)
(* slave.                                                                  *)
(*                                                                         *)
(* This module composes ChatServer with the session of each client at a    *)
(* gateway (gateway/websocket_session.cpp OnRead, gateway_service_impl.cpp *)
(* PushNotify) and with the web client (connection_manager.js).  A         *)
(* connection carries packets in order both ways, the gateway handles one  *)
(* packet of a session after the other, and a broken connection loses      *)
(* whatever is under way.  A client has one connection at a time here;     *)
(* what several logins do to each other is the subject of Presence.        *)
(***************************************************************************)
EXTENDS ChatServer

CONSTANTS
    Clients,            \* users whose client is part of the model
    LoggedIn,           \* those with a token in im:session from /api/login
    PageLimit,          \* rows a sync request asks for: 50 in the client
    RPCsFail,           \* may PushNotify and SyncMessages fail?
    MaxConnects         \* bound on the connections each client opens

VARIABLES
    session,            \* gateway: "none", "joined" or "welcomed"
    status,             \* client: the status shown for the user
    localSeq,           \* client: conn.localSeq
    shown,              \* client: the rows it has shown
    upstream,           \* packets from the client to the gateway
    downstream,         \* packets from the gateway to the client
    connects            \* connections opened so far

clientVars == <<session, status, localSeq, shown, upstream, downstream, connects>>
timelineVars == <<vars, clientVars>>

ASSUME ClientsAssumption == Clients \subseteq Users /\ LoggedIn \subseteq Clients
ASSUME LimitsAssumption == PageLimit \in Nat \ {0} /\ MaxConnects \in Nat
ASSUME RPCsFailAssumption == RPCsFail \in BOOLEAN

-------------------------------------------------------------------------------
(* Packets: only a sync request says from where, only its answer has rows  *)
Packet(cmd, seq, rows) == [cmd |-> cmd, seq |-> seq, rows |-> rows]
Signal(cmd) == Packet(cmd, 0, {})
Packets == [cmd : {"login", "notify", "sync", "heartbeat"}, seq : Nat,
            rows : SUBSET InboxRows]

Send(channel, u, p) == channel' = [channel EXCEPT ![u] = Append(@, p)]
Receives(channel, u, cmd) == channel[u] # <<>> /\ Head(channel[u]).cmd = cmd
UnderWay(u, cmd) ==
    \E channel \in {upstream[u], downstream[u]} :
        \E i \in 1..Len(channel) : channel[i].cmd = cmd
Consume(channel, u) == channel' = [channel EXCEPT ![u] = Tail(@)]

TimelineInit ==
    /\ Init
    /\ session = [u \in Clients |-> "none"]
    /\ status = [u \in Clients |-> "offline"]
    /\ localSeq = [u \in Clients |-> 0]
    /\ shown = [u \in Clients |-> {}]
    /\ upstream = [u \in Clients |-> <<>>]
    /\ downstream = [u \in Clients |-> <<>>]
    /\ connects = [u \in Clients |-> 0]

-------------------------------------------------------------------------------
(* SyncMessages, chat_service_impl.cpp 227-298 *)

(* The fault: the last rows instead of the first *)
PageFromEnd(rows, seq, limit) ==
    LET newer == {r \in rows : r.seq > seq}
    IN  {r \in newer : Cardinality({q \in newer : q.seq > r.seq}) < limit}

(* WHERE seq_id > local_seq ORDER BY seq_id ASC LIMIT limit *)
Page(rows, seq, limit) ==
    LET newer == {r \in rows : r.seq > seq}
    IN  {r \in newer : Cardinality({q \in newer : q.seq < r.seq}) < limit}

(* The fault: nothing found is -1 *)
MaxSeqOrNone(page, seq) ==
    IF page = {} THEN -1
    ELSE CHOOSE n \in {r.seq : r \in page} : \A r \in page : r.seq <= n

(* max_seq: the largest number of the page, local_seq when it is empty *)
MaxSeq(page, seq) ==
    IF page = {} THEN seq
    ELSE CHOOSE n \in {r.seq : r \in page} : \A r \in page : r.seq <= n

InboxOf(u, n) == {r \in Rows("index", n) : r.owner = u}

Answer(u, seq, n) ==
    LET page == Page(InboxOf(u, n), seq, PageLimit)
    IN  Packet("sync", MaxSeq(page, seq), page)

-------------------------------------------------------------------------------
(* The gateway: one session of OnRead, lines 104-325 *)

(* CMD_LOGIN_REQ first makes the session known (lines 286-297): from now   *)
(* on notifications reach it.                                              *)
Join(u) ==
    /\ Receives(upstream, u, "login")
    /\ session[u] = "none"
    /\ session' = [session EXCEPT ![u] = "joined"]
    /\ UNCHANGED <<vars, status, localSeq, shown, upstream, downstream, connects>>

(* Then it answers (lines 299-307). *)
Welcome(u) ==
    /\ Receives(upstream, u, "login")
    /\ session[u] = "joined"
    /\ session' = [session EXCEPT ![u] = "welcomed"]
    /\ Send(downstream, u, Signal("login"))
    /\ Consume(upstream, u)
    /\ UNCHANGED <<vars, status, localSeq, shown, connects>>

(* CMD_MSG_SYNC_REQ (lines 247-267); a failed call is answered with an     *)
(* empty response.                                                         *)
HandleSync(u) ==
    /\ Receives(upstream, u, "sync")
    /\ \/ \E n \in ReadPositions :
              Send(downstream, u, Answer(u, Head(upstream[u]).seq, n))
       \/ RPCsFail /\ Send(downstream, u, Signal("sync"))
    /\ Consume(upstream, u)
    /\ UNCHANGED <<vars, session, status, localSeq, shown, connects>>

(* CMD_HEARTBEAT_REQ (lines 268-270) is answered with an empty body. *)
HandleHeartbeat(u) ==
    /\ Receives(upstream, u, "heartbeat")
    /\ Send(downstream, u, Signal("heartbeat"))
    /\ Consume(upstream, u)
    /\ UNCHANGED <<vars, session, status, localSeq, shown, connects>>

(***************************************************************************)
(* PushNotify: SendToUser queues a packet for the session of the user if   *)
(* there is one.  Between Join and the HSET of the location the chat       *)
(* service does not find a session that has joined.  A group message is    *)
(* pushed only to users with a token in im:session (line 118), which a     *)
(* login by packet does not leave.                                         *)
(***************************************************************************)
MayNotify(h, u) == u \in Clients /\ (ToGroup(h) => u \in LoggedIn)

NotifyClient(h, u) ==
    \/ /\ MayNotify(h, u) /\ session[u] # "none"
       /\ Send(downstream, u, Signal("notify"))
       /\ UNCHANGED <<session, status, localSeq, shown, upstream, connects>>
    \/ /\ MayNotify(h, u) => session[u] # "welcomed" \/ RPCsFail
       /\ UNCHANGED clientVars

PushNotify(h, u) == Push(h, u) /\ NotifyClient(h, u)

-------------------------------------------------------------------------------
(* The client: connection_manager.js *)

(* createConnection (lines 58-103): a new state with localSeq 0. *)
Connect(u) ==
    /\ status[u] = "offline"
    /\ connects[u] < MaxConnects
    /\ connects' = [connects EXCEPT ![u] = @ + 1]
    /\ status' = [status EXCEPT ![u] = "handshaking"]
    /\ localSeq' = [localSeq EXCEPT ![u] = 0]
    /\ Send(upstream, u, Signal("login"))
    /\ UNCHANGED <<vars, session, shown, downstream>>

(* The connection breaks: onclose here, an error in OnRead there. *)
Disconnect(u) ==
    /\ status[u] # "offline"
    /\ status' = [status EXCEPT ![u] = "offline"]
    /\ session' = [session EXCEPT ![u] = "none"]
    /\ upstream' = [upstream EXCEPT ![u] = <<>>]
    /\ downstream' = [downstream EXCEPT ![u] = <<>>]
    /\ UNCHANGED <<vars, localSeq, shown, connects>>

SyncRequest(u) == Packet("sync", localSeq[u], {})

(* The fault: online, but nothing is asked for before a notification *)
ReceiveLoginOnly(u) ==
    /\ Receives(downstream, u, "login")
    /\ status' = [status EXCEPT ![u] = "online"]
    /\ Consume(downstream, u)
    /\ UNCHANGED <<vars, session, localSeq, shown, upstream, connects>>

(* LOGIN_RESP (lines 136-152): online, and a first sync. *)
ReceiveLogin(u) ==
    /\ Receives(downstream, u, "login")
    /\ status' = [status EXCEPT ![u] = "online"]
    /\ Send(upstream, u, SyncRequest(u))
    /\ Consume(downstream, u)
    /\ UNCHANGED <<vars, session, localSeq, shown, connects>>

(* syncMessages does nothing while the user is not online (lines 271-279). *)
SyncMessages(u) ==
    IF status[u] = "online" THEN Send(upstream, u, SyncRequest(u)) ELSE UNCHANGED upstream

(* MSG_PUSH_NOTIFY (lines 165-168) *)
ReceiveNotify(u) ==
    /\ Receives(downstream, u, "notify")
    /\ SyncMessages(u)
    /\ Consume(downstream, u)
    /\ UNCHANGED <<vars, session, status, localSeq, shown, connects>>

(* The fault: whatever the response says *)
AdvanceTo(old, new) == new
Advance(old, new) == IF new > old THEN new ELSE old

(* MSG_SYNC_RESP (lines 182-205) *)
ReceiveSync(u) ==
    /\ Receives(downstream, u, "sync")
    /\ LET p == Head(downstream[u])
       IN  /\ localSeq' = [localSeq EXCEPT ![u] = Advance(@, p.seq)]
           /\ shown' = [shown EXCEPT ![u] = @ \cup p.rows]
    /\ Consume(downstream, u)
    /\ UNCHANGED <<vars, session, status, upstream, connects>>

(* HEARTBEAT_RESP (lines 206-220): with no max_seq_id in the body there is *)
(* never anything to compare with localSeq.                                *)
ReceiveHeartbeat(u) ==
    /\ Receives(downstream, u, "heartbeat")
    /\ IF Head(downstream[u]).seq > localSeq[u] THEN SyncMessages(u) ELSE UNCHANGED upstream
    /\ Consume(downstream, u)
    /\ UNCHANGED <<vars, session, status, localSeq, shown, connects>>

(* startHeartbeat (lines 329-344): every 30 seconds, which is long enough  *)
(* for the last one to be answered.                                        *)
Heartbeat(u) ==
    /\ status[u] = "online"
    /\ ~UnderWay(u, "heartbeat")
    /\ Send(upstream, u, Signal("heartbeat"))
    /\ UNCHANGED <<vars, session, status, localSeq, shown, downstream, connects>>

-------------------------------------------------------------------------------
Gateway(u) == Join(u) \/ Welcome(u) \/ HandleSync(u) \/ HandleHeartbeat(u)

Client(u) == ReceiveLogin(u) \/ ReceiveNotify(u) \/ ReceiveSync(u) \/ ReceiveHeartbeat(u)

(* A call as in ChatServer, its Push being PushNotify here *)
HandlerStep(h) ==
    \/ /\ \/ GetMembers(h)
          \/ CheckRelation(h)
          \/ \E u \in Users : Allocate(h, u)
          \/ InsertIndex(h)
          \/ Reply(h)
       /\ UNCHANGED clientVars
    \/ \E u \in Users : PushNotify(h, u)

Environment ==
    \/ \E h \in Handlers, r \in Requests : StoreBody(h, r)
    \/ LoseBody
    \/ \E g \in Groups, u \in Users : JoinGroup(g, u)
    \/ \E s \in Slaves : SlaveReplays(s)

TimelineNext ==
    \/ Environment /\ UNCHANGED clientVars
    \/ \E h \in Handlers : HandlerStep(h)
    \/ \E u \in Clients : \/ Connect(u) \/ Disconnect(u) \/ Heartbeat(u)
                          \/ Gateway(u) \/ Client(u)

(* Threads run, packets arrive unless the connection breaks, timers fire   *)
(* and replication catches up.  Nobody has to send or to connect.          *)
TimelineFairness ==
    /\ \A h \in Handlers : WF_timelineVars(HandlerStep(h))
    /\ \A u \in Clients : /\ WF_timelineVars(Gateway(u))
                          /\ WF_timelineVars(Client(u))
                          /\ WF_timelineVars(Heartbeat(u))
    /\ \A s \in Slaves : WF_timelineVars(SlaveReplays(s) /\ UNCHANGED clientVars)

TimelineSpec == TimelineInit /\ [][TimelineNext]_timelineVars
FairTimelineSpec == TimelineSpec /\ TimelineFairness

-------------------------------------------------------------------------------
(* The variables of sessions and clients have their types. *)
ClientTypeOK ==
    /\ session \in [Clients -> {"none", "joined", "welcomed"}]
    /\ status \in [Clients -> {"offline", "handshaking", "online"}]
    /\ localSeq \in [Clients -> Nat]
    /\ shown \in [Clients -> SUBSET InboxRows]
    /\ upstream \in [Clients -> Seq(Packets)]
    /\ downstream \in [Clients -> Seq(Packets)]
    /\ connects \in [Clients -> 0..MaxConnects]

(* "The client only has to record local_max_seq": it has shown every row   *)
(* of its inbox up to its localSeq.  Notifications may be lost, slaves lag *)
(* and calls fail, yet as long as messages are stored one at a time, what  *)
(* is behind localSeq has been seen.                                       *)
LocalSeqCoversInbox ==
    \A u \in Clients : \A r \in InboxOf(u, Len(binlog)) :
        0 < r.seq /\ r.seq <= localSeq[u] => r \in shown[u]

(* Within a connection localSeq never goes back, although responses to     *)
(* several requests may come from slaves that know less than the last one. *)
LocalSeqNeverBack ==
    [][\A u \in Clients : status'[u] # "handshaking" => localSeq'[u] >= localSeq[u]]_timelineVars

(* A client that stays online comes to show each message in its inbox that *)
(* has a number and whose sender was told of success ("no message is lost" *)
(* because notifications, heartbeats and logins make the client pull).     *)
Delivered(u, m) ==
    /\ \E a \in replies : a.msg = m
    /\ \E r \in Master("index") : r.owner = u /\ r.msg = m /\ r.seq > 0
Shown(u, m) == \E r \in shown[u] : r.msg = m

CatchesUp ==
    \A u \in Clients : \A m \in 1..MaxMessages :
        <>[](status[u] = "online") => (Delivered(u, m) ~> Shown(u, m))
===============================================================================
