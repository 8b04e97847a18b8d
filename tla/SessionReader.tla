---------------------------- MODULE SessionReader ----------------------------
(***************************************************************************)
(* The whole of a WebsocketSession (gateway/websocket_session.cpp): OnRead *)
(* cuts packets out of what has been received, handles them one after the  *)
(* other and answers through the write queue of SessionWriter, while       *)
(* pushes and kicks use that queue too.                                    *)
(*                                                                         *)
(* A packet is a header (common/packet.h) and a body; the connection may   *)
(* cut it anywhere, so it travels in pieces <<request, number>>.  The      *)
(* services called by the handlers are external: their answer to a request *)
(* is a packet that bears its name.                                        *)
(***************************************************************************)
EXTENDS SessionWriter

CONSTANTS
    Requests,           \* what a client sends, each once
    Answered,           \* those with a response: the rest has an unknown
                        \*   command or a body that cannot be parsed
    Junk,               \* those whose magic is not "IM"
    Body(_),            \* pieces of the body of a request
    MaxRequests,        \* bound on what a client sends
    Pushes              \* what PushNotify calls bring, each once

VARIABLES
    sent,               \* history: what the client sent, in order
    transit,            \* pieces on their way
    buffer,             \* buffer_, in pieces
    reader,             \* "read": in async_read; "handle": in OnRead's loop;
                        \*   "rejected", "ended": no read will follow
    handled             \* history: packets that were consumed

readerVars == <<sent, transit, buffer, reader, handled>>
writerVars == vars

ASSUME RequestsAssumption ==
    /\ Answered \subseteq Requests \ Junk /\ Junk \subseteq Requests
    /\ Packets = Answered \cup Pushes /\ Answered \cap Pushes = {}
    /\ \A r \in Requests : Body(r) \in Nat
    /\ MaxRequests \in Nat

HeaderSize == 2
Pieces(r) == [i \in 1..(HeaderSize + Body(r)) |-> <<r, i>>]
First(s, n) == SubSeq(s, 1, n)
Without(s, n) == SubSeq(s, n + 1, Len(s))

SessionInit ==
    /\ Init
    /\ sent = <<>> /\ transit = <<>> /\ buffer = <<>>
    /\ reader = "read" /\ handled = 0

-------------------------------------------------------------------------------
ClientSend(r) ==
    /\ Len(sent) < MaxRequests
    /\ \A i \in 1..Len(sent) : sent[i] # r
    /\ sent' = Append(sent, r)
    /\ transit' = transit \o Pieces(r)
    /\ UNCHANGED <<writerVars, buffer, reader, handled>>

(* async_read is done: what came is appended to the buffer. *)
OnRead(n) ==
    /\ reader = "read" /\ ~broken
    /\ buffer' = buffer \o First(transit, n)
    /\ transit' = Without(transit, n)
    /\ reader' = "handle"
    /\ UNCHANGED <<writerVars, sent, handled>>

(* What the loop finds: a header, which names its packet; its magic *)
HasHeader == Len(buffer) >= HeaderSize
Current == buffer[1][1]
MagicIsGood == buffer[1][2] = 1 /\ Current \notin Junk
Size == HeaderSize + Body(Current)
HasPacket == HasHeader /\ MagicIsGood /\ Len(buffer) >= Size
HasJunk == HasHeader /\ ~MagicIsGood

(* The fault: one packet for each read *)
GoOnReading == "read"
GoOn == "handle"

(* A complete packet: the handler runs, SendPacket, consume (lines 138-321)*)
HandlePacket ==
    /\ reader = "handle" /\ HasPacket
    /\ IF Current \in Answered THEN Post(Current) /\ UNCHANGED kicks
                               ELSE UNCHANGED writerVars
    /\ buffer' = Without(buffer, Size)
    /\ handled' = handled + 1
    /\ reader' = GoOn
    /\ UNCHANGED <<sent, transit>>

(* Lines 126-130: Close, and no further read: nothing will take the session*)
(* out of users_.  The close ends the connection (Break), soon or late.    *)
RejectPacket ==
    /\ reader = "handle" /\ HasJunk
    /\ reader' = "rejected"
    /\ UNCHANGED <<writerVars, sent, transit, buffer, handled>>

(* No complete packet: DoRead (lines 132-136, 324) *)
DoRead ==
    /\ reader = "handle"
    /\ ~HasPacket /\ ~HasJunk
    /\ reader' = "read"
    /\ UNCHANGED <<writerVars, sent, transit, buffer, handled>>

(* The read fails (lines 105-116). *)
ReadError ==
    /\ reader = "read"
    /\ OnReadError
    /\ reader' = "ended"
    /\ UNCHANGED <<sent, transit, buffer, handled>>

PushNotify(p) ==
    /\ \A i \in 1..Len(accepted) : accepted[i] # p
    /\ Send(p)

Others ==
    \/ \E p \in Pushes : PushNotify(p)
    \/ Kick
    \/ RunPost
    \/ \E ok \in BOOLEAN : OnWrite(ok)
    \/ Break

SessionNext ==
    \/ \E r \in Requests : ClientSend(r)
    \/ \E n \in 1..Len(transit) : OnRead(n)
    \/ HandlePacket
    \/ RejectPacket
    \/ DoRead
    \/ ReadError
    \/ Others /\ UNCHANGED readerVars

sessionAllVars == <<vars, readerVars>>

(* The strand runs what is posted to it, handlers return, and operations   *)
(* complete: beast's timeouts break a connection on which nothing moves.   *)
SessionFairness ==
    /\ WF_sessionAllVars(RunPost /\ UNCHANGED readerVars)
    /\ WF_sessionAllVars((\E ok \in BOOLEAN : OnWrite(ok)) /\ UNCHANGED readerVars)
    /\ WF_sessionAllVars(HandlePacket \/ RejectPacket \/ DoRead)
    /\ WF_sessionAllVars(ReadError)
    /\ WF_sessionAllVars(Break /\ reader = "rejected" /\ UNCHANGED readerVars)

SessionSpec == SessionInit /\ [][SessionNext]_sessionAllVars
FairSessionSpec == SessionSpec /\ SessionFairness

-------------------------------------------------------------------------------
(* The positions of the answers in the history *)
Answers == {i \in 1..Len(accepted) : accepted[i] \in Answered}

(* However the stream is cut, requests are handled as they were sent, one  *)
(* answer each and in their order, and none waits that has arrived whole.  *)
RequestsAnsweredInOrder ==
    /\ handled <= Len(sent)
    /\ {accepted[i] : i \in Answers} = {sent[k] : k \in 1..handled} \cap Answered
    /\ \A i, j \in Answers : i < j =>
           \E k, l \in 1..handled : k < l /\ sent[k] = accepted[i] /\ sent[l] = accepted[j]
    /\ reader = "rejected" => sent[handled + 1] \in Junk
    /\ reader = "read" /\ handled < Len(sent) =>
           LET next == sent[handled + 1]
           IN  Len(buffer) < HeaderSize + (IF next \in Junk THEN 0 ELSE Body(next))

(* A kicked session leaves users_, also when writes fail on the way: only  *)
(* one whose packet was rejected stays.                                    *)
KickedSessionLeaves == kicks > 0 ~> (~member \/ reader = "rejected")
===============================================================================
