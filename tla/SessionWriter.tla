---------------------------- MODULE SessionWriter ----------------------------
(***************************************************************************)
(* The write queue of a WebsocketSession (gateway/websocket_session.cpp    *)
(* lines 327-410): packets come from OnRead, from PushNotify calls and     *)
(* from the kick subscriber, each on a thread of its own, and are posted   *)
(* to the strand of the session, which alone touches the queue.  Only one  *)
(* async_write may be under way, and its buffer is the front of the queue. *)
(*                                                                         *)
(* The WebSocket stream is external: a write succeeds or, once the         *)
(* connection is broken or being closed, fails.                            *)
(***************************************************************************)
EXTENDS Integers, Sequences

CONSTANTS
    Packets,            \* what is sent
    Logout,             \* the packet of a kick, CMD_LOGOUT_RESP
    MaxKicks            \* bound on the kicks: a login publishes up to two

VARIABLES
    posts,              \* posted to strand_ and not yet run
    queue,              \* write_queue_
    writing,            \* is_writing_
    closeAfter,         \* close_after_write_
    inFlight,           \* the buffers of the async_writes under way
    closing,            \* has Close been called?
    broken,             \* is the connection broken?
    member,             \* is the session in users_?
    kicks,              \* how many kicks there were
    accepted,           \* history: what Send and Kick were given, in order
    wire                \* history: what was written to the connection

sessionVars == <<posts, queue, writing, closeAfter, inFlight, closing, broken, member>>
vars == <<sessionVars, kicks, accepted, wire>>

ASSUME LogoutAssumption == Logout \notin Packets
ASSUME MaxKicksAssumption == MaxKicks \in Nat

Items == Packets \cup {Logout}

Init ==
    /\ posts = <<>> /\ queue = <<>> /\ inFlight = <<>>
    /\ writing = FALSE /\ closeAfter = FALSE
    /\ closing = FALSE /\ broken = FALSE /\ member = TRUE
    /\ kicks = 0
    /\ accepted = <<>> /\ wire = <<>>

-------------------------------------------------------------------------------
Post(p) ==
    /\ member
    /\ posts' = Append(posts, p)
    /\ accepted' = Append(accepted, p)
    /\ UNCHANGED <<queue, writing, closeAfter, inFlight, closing, broken, member, wire>>

Send(p) ==
    /\ p \in Packets
    /\ Post(p)
    /\ UNCHANGED kicks

Kick ==
    /\ kicks < MaxKicks
    /\ kicks' = kicks + 1
    /\ Post(Logout)

(* The faults: the flag is not looked at; all of the queue is the buffer *)
DoWriteAlways(q, busy, ops) ==
    IF q = <<>> THEN writing' = busy /\ inFlight' = ops
                ELSE writing' = TRUE /\ inFlight' = Append(ops, Head(q))
DoWriteAll(q, busy, ops) ==
    IF busy \/ q = <<>> THEN writing' = busy /\ inFlight' = ops
                        ELSE writing' = TRUE /\ inFlight' = Append(ops, q)

(* DoWrite with the queue q, is_writing_ = busy and ops under way *)
DoWrite(q, busy, ops) ==
    IF busy \/ q = <<>> THEN writing' = busy /\ inFlight' = ops
                        ELSE writing' = TRUE /\ inFlight' = Append(ops, Head(q))

(* The fault: a kick does not wait its turn *)
PushUrgent(q, p) == IF p = Logout THEN <<p>> \o q ELSE Append(q, p)
Push(q, p) == Append(q, p)

(* The functions Send and Kick post (lines 378-397, 401-404) *)
RunPost ==
    /\ posts # <<>>
    /\ posts' = Tail(posts)
    /\ queue' = Push(queue, Head(posts))
    /\ closeAfter' = (closeAfter \/ Head(posts) = Logout)
    /\ DoWrite(queue', writing, inFlight)
    /\ UNCHANGED <<closing, broken, member, kicks, accepted, wire>>

(* The faults: the next Send will go on; a kick does not wait for the rest *)
(* of the queue; the queue is looked at before its front is gone.          *)
NothingMore(q, ok) == <<>>
CloseNow(q) == closeAfter
DrainedBefore(q) == queue = <<>> /\ closeAfter

(* What OnWrite goes on with, and when it closes for a kick *)
NextWrites(q, ok) == IF ok THEN q ELSE <<>>
Drained(q) == q = <<>> /\ closeAfter

(***************************************************************************)
(* OnWrite: the front of the queue is done with, also when the write       *)
(* failed.  A success goes on with the next packet, and an empty queue is  *)
(* the moment a kick waits for.                                            *)
(***************************************************************************)
OnWrite(ok) ==
    LET q == IF queue = <<>> THEN queue ELSE Tail(queue)
    IN  /\ inFlight # <<>>
        /\ IF ok THEN ~broken /\ ~closing ELSE broken \/ closing
        /\ queue' = q
        /\ DoWrite(NextWrites(q, ok), FALSE, Tail(inFlight))
        /\ closing' = (closing \/ Drained(q))
        /\ wire' = IF ok THEN Append(wire, Head(inFlight)) ELSE wire
        /\ UNCHANGED <<posts, closeAfter, broken, member, kicks, accepted>>

Break ==
    /\ ~broken
    /\ broken' = TRUE
    /\ UNCHANGED <<posts, queue, writing, closeAfter, inFlight, closing, member,
                   kicks, accepted, wire>>

(* OnRead gets an error and leaves users_ (lines 105-116). *)
OnReadError ==
    /\ member
    /\ broken \/ closing
    /\ member' = FALSE
    /\ UNCHANGED <<posts, queue, writing, closeAfter, inFlight, closing, broken,
                   kicks, accepted, wire>>

Next ==
    \/ \E p \in Packets : Send(p)
    \/ Kick
    \/ RunPost
    \/ \E ok \in BOOLEAN : OnWrite(ok)
    \/ Break
    \/ OnReadError

Spec == Init /\ [][Next]_vars

-------------------------------------------------------------------------------
(* The variables have the types the code gives them. *)
WriterTypeOK ==
    /\ posts \in Seq(Items) /\ queue \in Seq(Items) /\ inFlight \in Seq(Items)
    /\ {writing, closeAfter, closing, broken, member} \subseteq BOOLEAN
    /\ kicks \in 0..MaxKicks
    /\ accepted \in Seq(Items) /\ wire \in Seq(Items)

(* beast allows one async_write at a time, and its buffer has to stay: the *)
(* one under way writes the front of the queue, and is_writing_ says so.   *)
OneWriteAtATime ==
    /\ Len(inFlight) = IF writing THEN 1 ELSE 0
    /\ writing => queue # <<>> /\ Head(queue) = Head(inFlight)

(* While the connection works nothing is lost, repeated or overtaken:      *)
(* what was written, is queued and is still to be run is what was given.   *)
NothingLost == ~broken /\ ~closing => wire \o queue \o posts = accepted

(* "The LOGOUT packet is sent first, and the connection is closed after    *)
(* the queue has drained": when a kick has closed a working connection,    *)
(* the client has got its LOGOUT and all that was given before it.         *)
LogoutBeforeClose ==
    closing /\ ~broken =>
        \E k \in 1..Len(wire) : /\ wire[k] = Logout
                                /\ SubSeq(wire, 1, k) = SubSeq(accepted, 1, k)

(* Each packet is written in the end, unless the connection goes away.     *)
EveryPacketSent ==
    \A p \in Packets :
        (\E i \in 1..Len(accepted) : accepted[i] = p)
            ~> (broken \/ closing \/ \E i \in 1..Len(wire) : wire[i] = p)
===============================================================================
