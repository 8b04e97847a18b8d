-------------------------------- MODULE Inbox --------------------------------
(***************************************************************************)
(* What the chat service promises about inboxes, without calls, statements *)
(* or servers: a row is prepared for an inbox under the next number of its *)
(* owner, or under 0 when none could be had; later the rows of a message   *)
(* enter their inboxes all at once, or none of them ever does.             *)
(***************************************************************************)
EXTENDS Integers

CONSTANTS
    Users,              \* owners of an inbox
    Messages            \* ids of messages

VARIABLES
    counter,            \* the numbers handed out for each inbox
    prepared,           \* rows that have a number and are in no inbox yet
    inbox               \* rows that can be read

inboxVars == <<counter, prepared, inbox>>

Init ==
    /\ counter = [u \in Users |-> 0]
    /\ prepared = {}
    /\ inbox = {}

(* A message is prepared at most once for each inbox.  The number 0 means  *)
(* that none came back, whether or not the counter has moved.              *)
Prepare(u, m, n) ==
    /\ \A r \in prepared \cup inbox : ~(r.owner = u /\ r.msg = m)
    /\ \/ counter' = [counter EXCEPT ![u] = @ + 1]
       \/ n = 0 /\ UNCHANGED counter
    /\ prepared' = prepared \cup {[owner |-> u, seq |-> n, msg |-> m]}
    /\ UNCHANGED inbox

PreparedFor(m) == {r \in prepared : r.msg = m}

(* An inbox never holds two rows under one number. *)
Deposit(m) ==
    /\ \A r \in PreparedFor(m), s \in inbox : ~(r.owner = s.owner /\ r.seq = s.seq)
    /\ inbox' = inbox \cup PreparedFor(m)
    /\ prepared' = prepared \ PreparedFor(m)
    /\ UNCHANGED counter

Discard(m) ==
    /\ prepared' = prepared \ PreparedFor(m)
    /\ UNCHANGED <<counter, inbox>>

Next ==
    \E m \in Messages :
        \/ \E u \in Users : \E n \in {0, counter[u] + 1} : Prepare(u, m, n)
        \/ Deposit(m)
        \/ Discard(m)

Spec == Init /\ [][Next]_inboxVars
==============================================================================
