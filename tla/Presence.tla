------------------------------- MODULE Presence -------------------------------
(***************************************************************************)
(* Who is logged in where: logins and logouts at the auth server, the      *)
(* tokens and locations they and the gateways keep in Redis, the kicks     *)
(* published to all gateways, and the sessions these are meant to end.     *)
(*                                                                         *)
(* auth_server/auth_service_impl.cpp Login and Logout, gateway/            *)
(* http_session.cpp (the upgrade and /api/login), websocket_session.cpp    *)
(* OnAccept, OnRead and Kick, connection_manager.cpp, and the subscriber   *)
(* of gateway/main.cpp.  A Redis command is one step: between any two of   *)
(* them the other actors move.  The n-th login of a behaviour gets token n.*)
(***************************************************************************)
EXTENDS Integers, Sequences, FiniteSets

CONSTANTS
    Users, Devices,
    PC,                 \* the device of a connection that names none
    Gateways,
    Nowhere,            \* no gateway
    Conns,              \* session objects, each used once
    Frontends,          \* who serves /api/login: "gateway", "dispatch" or both
    MaxLogins,          \* bound on the logins of a behaviour
    MaxLogouts,         \* bound on the logouts of each device
    FullLogouts,        \* are there logouts that name no device?
    PacketLogins,       \* do clients log in over the connection?
    Overlap,            \* may logins, logouts and upgrades of one user overlap?
    BadPackets,         \* may a client send a packet with a wrong magic?
    RedisFails,         \* may a command to Redis fail?
    MaxFaults           \* bound on crashes of gateways and lost subscribers

VARIABLES
    token,              \* Redis im:session:{uid}: the token of each device
    expiring,           \* users whose im:session has a time to live
    location,           \* Redis im:location:{uid}: the gateway of each device
    login,              \* the calls of Login
    leaving,            \* calls of Logout about to publish a kick
    logouts,            \* how often each device was logged out
    kicks,              \* Redis im:kick: what each gateway has still to receive
    conn,               \* the sessions
    subscriber,         \* whether a gateway listens to im:kick
    missed,             \* history: gateways that missed a kick since they started
    stale,              \* history: slots whose location a crash left behind
    faults,             \* how many there were
    hidden,             \* history: sessions whose location another one deleted
    lapsed,             \* history: sessions that went on without a stored token
    raced               \* history: sessions set up while their device logged in

tokens == <<token, expiring>>
history == <<hidden, lapsed, raced>>
faultVars == <<subscriber, missed, stale, faults>>
vars == <<tokens, location, login, leaving, logouts, kicks, conn, faultVars, history>>

Slots == Users \X Devices
Logins == 1..MaxLogins
Tokens == 0..MaxLogins          \* 0: no token

ASSUME PCAssumption == PC \in Devices
ASSUME NowhereAssumption == Nowhere \notin Gateways
ASSUME FrontendsAssumption == Frontends \subseteq {"gateway", "dispatch"} /\ Frontends # {}
ASSUME NonEmptyAssumption == Users # {} /\ Gateways # {}
ASSUME BoundsAssumption == MaxLogins \in Nat /\ MaxLogouts \in Nat /\ MaxFaults \in Nat
ASSUME SwitchesAssumption == {FullLogouts, PacketLogins, Overlap, BadPackets, RedisFails} \subseteq BOOLEAN

(***************************************************************************)
(* A login: its next step, its slot (user and device), whether the client  *)
(* called the gateway's /api/login or dispatch's, and the sessions of the  *)
(* slot that were registered when it began (history).                      *)
(***************************************************************************)
LoginSteps == {"unused", "location", "kickLocation", "token", "kickToken",
               "store", "expire", "storeAgain", "done"}
LoginCalls == [pc : LoginSteps, slot : Slots, via : Frontends,
               present : SUBSET Conns]

(***************************************************************************)
(* A session: anonymous or accepted, then joined (in users_ of the         *)
(* ConnectionManager), located (its HSET done, reading packets), and, when *)
(* it ends, removed from the location and then from users_.  A session     *)
(* closed for a bad packet is not read again and stays "abandoned".        *)
(***************************************************************************)
Phases == {"unused", "anonymous", "accepted", "joined", "located", "unlocated",
           "abandoned", "gone"}
Sessions == [phase : Phases, slot : Slots, gateway : Gateways, login : Tokens,
             kicked : BOOLEAN]

(***************************************************************************)
(* The subscriber of a gateway is a thread of its own that ends when its   *)
(* connection to Redis breaks; only a restart of the gateway brings it back*)
(***************************************************************************)
Subscribers == {"starting", "listening", "ended"}

Slot0 == CHOOSE s \in Slots : TRUE
Frontend0 == CHOOSE f \in Frontends : TRUE
Gateway0 == CHOOSE g \in Gateways : TRUE

Init ==
    /\ token = [s \in Slots |-> 0] /\ expiring = {}
    /\ location = [s \in Slots |-> Nowhere]
    /\ login = [n \in Logins |->
           [pc |-> "unused", slot |-> Slot0, via |-> Frontend0, present |-> {}]]
    /\ leaving = {}
    /\ logouts = [s \in Slots |-> 0]
    /\ kicks = [g \in Gateways |-> <<>>]
    /\ conn = [c \in Conns |-> [phase |-> "unused", slot |-> Slot0,
                                gateway |-> Gateway0, login |-> 0, kicked |-> FALSE]]
    /\ subscriber = [g \in Gateways |-> "listening"]
    /\ missed = {} /\ stale = {} /\ faults = 0
    /\ hidden = {} /\ lapsed = {} /\ raced = {}

-------------------------------------------------------------------------------
(* Sessions a packet can reach, and those in users_ *)
Live(c) == conn[c].phase \in {"joined", "located"}
InUsers(c) == conn[c].phase \in {"joined", "located", "unlocated", "abandoned"}
Of(slot) == {c \in Conns : conn[c].slot = slot}

InLogin(n) == login[n].pc \notin {"unused", "done"}
Upgrading(c) == conn[c].phase \in {"accepted", "joined"}
GoingOn(user) == {c \in Conns : conn[c].slot[1] = user
                                 /\ (Upgrading(c) \/ conn[c].phase = "located")}

(* What one user does next waits for what it does now, unless Overlap *)
Alone(user) ==
    Overlap \/ /\ \A n \in Logins : InLogin(n) => login[n].slot[1] # user
               /\ \A s \in leaving : s[1] # user
               /\ \A c \in Conns : Upgrading(c) => conn[c].slot[1] # user

(***************************************************************************)
(* A command that reads gets nothing when it fails, one that writes does   *)
(* not happen: redis_client.cpp returns "" or false, and nobody looks.     *)
(***************************************************************************)
Got(value, nothing) == IF RedisFails THEN {value, nothing} ELSE {value}
Written(old, new) == IF RedisFails THEN {old, new} ELSE {new}

(* PUBLISH im:kick reaches every gateway that listens *)
Listens(g) == subscriber[g] = "listening"
Publish(slot) ==
    /\ \E k \in Written(kicks, [g \in Gateways |-> IF Listens(g) THEN Append(kicks[g], slot)
                                                     ELSE kicks[g]]) : kicks' = k
    /\ missed' = missed \cup {g \in Gateways : ~Listens(g)}

(* All tokens of a user are one hash: it goes with its last field, and its *)
(* time to live with it; HSET leaves that as it is.                        *)
HasTokens(user) == \E d \in Devices : token[<<user, d>>] # 0
TimesKept == expiring' = {u \in expiring : HasTokens(u)'}
SetToken(slot, n) ==
    /\ \E t \in Written(token[slot], n) : token' = [token EXCEPT ![slot] = t]
    /\ TimesKept
DropTokens(user, devices) ==
    /\ token' = [s \in Slots |-> IF s[1] = user /\ s[2] \in devices THEN 0 ELSE token[s]]
    /\ TimesKept
SetLocation(slot, g) ==
    /\ \E a \in Written(location[slot], g) : location' = [location EXCEPT ![slot] = a]
    /\ stale' = stale \ {slot}

-------------------------------------------------------------------------------
(* AuthServiceImpl::Login *)
At(n, pc) == login[n].pc = pc
Goto(n, pc) == login' = [login EXCEPT ![n].pc = pc]

(* The user is found and the password is right (lines 53-101). *)
BeginLogin(n, slot, via) ==
    /\ At(n, "unused")
    /\ \A m \in 1..n-1 : ~At(m, "unused")
    /\ Alone(slot[1])
    /\ login' = [login EXCEPT ![n] =
           [pc |-> "location", slot |-> slot, via |-> via,
            present |-> {c \in Of(slot) : conn[c].phase = "located"}]]
    /\ raced' = raced \cup {c \in Of(slot) : Upgrading(c)}
    /\ UNCHANGED <<tokens, location, leaving, logouts, kicks, conn, faultVars, hidden, lapsed>>

(* The fault: a login kicks whether or not there is a session *)
KickAnyway(n) ==
    /\ At(n, "location")
    /\ Goto(n, "kickLocation")
    /\ UNCHANGED <<tokens, location, leaving, logouts, kicks, conn, faultVars, history>>

(* HGET im:location (lines 110-113) *)
CheckLocation(n) ==
    /\ At(n, "location")
    /\ \E a \in Got(location[login[n].slot], Nowhere) :
           Goto(n, IF a # Nowhere THEN "kickLocation" ELSE "token")
    /\ UNCHANGED <<tokens, location, leaving, logouts, kicks, conn, faultVars, history>>

KickLocation(n) ==
    /\ At(n, "kickLocation")
    /\ Publish(login[n].slot)
    /\ Goto(n, "token")
    /\ UNCHANGED <<tokens, location, leaving, logouts, conn, subscriber, stale, faults, history>>

(* The fault: the location is thought to be enough *)
SkipToken(n) ==
    /\ At(n, "token")
    /\ Goto(n, "store")
    /\ UNCHANGED <<tokens, location, leaving, logouts, kicks, conn, faultVars, history>>

(* HGET im:session (lines 122-123) *)
CheckToken(n) ==
    /\ At(n, "token")
    /\ \E t \in Got(token[login[n].slot], 0) :
           Goto(n, IF t # 0 THEN "kickToken" ELSE "store")
    /\ UNCHANGED <<tokens, location, leaving, logouts, kicks, conn, faultVars, history>>

KickToken(n) ==
    /\ At(n, "kickToken")
    /\ Publish(login[n].slot)
    /\ Goto(n, "store")
    /\ UNCHANGED <<tokens, location, leaving, logouts, conn, subscriber, stale, faults, history>>

(* HSET im:session (line 132).  The gateway does it once more when the     *)
(* call is back (http_session.cpp line 175).                               *)
StoreToken(n) ==
    /\ login[n].pc \in {"store", "storeAgain"}
    /\ SetToken(login[n].slot, n)
    /\ Goto(n, IF At(n, "store") THEN "expire" ELSE "done")
    /\ UNCHANGED <<location, leaving, logouts, kicks, conn, faultVars, history>>

(* EXPIRE im:session (line 133): one day for all tokens of the user, if    *)
(* there is any *)
Expire(n) ==
    LET user == login[n].slot[1]
    IN  /\ At(n, "expire")
        /\ \E e \in Written(expiring, IF HasTokens(user) THEN expiring \cup {user}
                                       ELSE expiring) : expiring' = e
        /\ Goto(n, IF login[n].via = "gateway" THEN "storeAgain" ELSE "done")
        /\ UNCHANGED <<token, location, leaving, logouts, kicks, conn, faultVars, history>>

(* The day is over; sessions and their locations know no such end. *)
ExpireTokens(user) ==
    /\ user \in expiring
    /\ DropTokens(user, Devices)
    /\ lapsed' = lapsed \cup GoingOn(user)
    /\ UNCHANGED <<location, login, leaving, logouts, kicks, conn, faultVars, hidden, raced>>

(* AuthServiceImpl::Logout with a device (lines 191-196): HDEL, PUBLISH *)
Logout(slot) ==
    /\ logouts[slot] < MaxLogouts
    /\ slot \notin leaving
    /\ Alone(slot[1])
    /\ logouts' = [logouts EXCEPT ![slot] = @ + 1]
    /\ leaving' = leaving \cup {slot}
    /\ SetToken(slot, 0)
    /\ lapsed' = lapsed \cup {c \in Of(slot) : conn[c].phase = "accepted"}
    /\ UNCHANGED <<location, login, kicks, conn, faultVars, hidden, raced>>

KickLeaver(slot) ==
    /\ slot \in leaving
    /\ Publish(slot)
    /\ leaving' = leaving \ {slot}
    /\ UNCHANGED <<tokens, location, login, logouts, conn, subscriber, stale, faults, history>>

(* Without a device (lines 187-190) all tokens go and nobody is kicked. *)
LogoutAll(user) ==
    /\ FullLogouts
    /\ Alone(user)
    /\ \E gone \in Written({}, Devices) : DropTokens(user, gone)
    /\ lapsed' = lapsed \cup GoingOn(user)
    /\ UNCHANGED <<location, login, leaving, logouts, kicks, conn, faultVars, hidden, raced>>

-------------------------------------------------------------------------------
(* The gateway *)
Phase(c, phase) == conn' = [conn EXCEPT ![c].phase = phase]
Open(c, phase, slot, g, n) ==
    /\ conn[c].phase = "unused"
    /\ Alone(slot[1])
    /\ conn' = [conn EXCEPT ![c] = [phase |-> phase, slot |-> slot, gateway |-> g,
                                    login |-> n, kicked |-> FALSE]]

(* The fault: any stored token will do *)
UpgradeAnyToken(c, n, g) ==
    /\ At(n, "done")
    /\ \E t \in Got(token[login[n].slot], 0) :
           Open(c, IF t # 0 THEN "accepted" ELSE "anonymous", login[n].slot, g, n)
    /\ raced' = IF \E m \in Logins : InLogin(m) /\ login[m].slot = login[n].slot
                THEN raced \cup {c} ELSE raced
    /\ UNCHANGED <<tokens, location, login, leaving, logouts, kicks, faultVars, hidden, lapsed>>

(* HttpSession::OnRead (lines 76-98): the token of login n is compared     *)
(* with the stored one; the session is anonymous if it is another.         *)
Upgrade(c, n, g) ==
    /\ At(n, "done")
    /\ \E t \in Got(token[login[n].slot], 0) :
           Open(c, IF t = n THEN "accepted" ELSE "anonymous", login[n].slot, g, n)
    /\ raced' = IF \E m \in Logins : InLogin(m) /\ login[m].slot = login[n].slot
                THEN raced \cup {c} ELSE raced
    /\ UNCHANGED <<tokens, location, login, leaving, logouts, kicks, faultVars, hidden, lapsed>>

(* A client that has no token connects and is anonymous. *)
UpgradeAnonymous(c, user, g) ==
    /\ PacketLogins
    /\ Open(c, "anonymous", <<user, PC>>, g, 0)
    /\ UNCHANGED <<tokens, location, login, leaving, logouts, kicks, faultVars, history>>

(* ConnectionManager::Join in OnAccept (line 52) *)
Join(c) ==
    /\ conn[c].phase = "accepted"
    /\ Phase(c, "joined")
    /\ UNCHANGED <<tokens, location, login, leaving, logouts, kicks, faultVars, history>>

(* An anonymous client sends a login packet: its id is trusted and joined  *)
(* (lines 282-290); no token is asked for or stored, and nobody is kicked. *)
PacketLogin(c) ==
    /\ PacketLogins
    /\ conn[c].phase = "anonymous"
    /\ Alone(conn[c].slot[1])
    /\ conn' = [conn EXCEPT ![c].phase = "joined", ![c].login = 0]
    /\ lapsed' = IF token[conn[c].slot] = 0 THEN lapsed \cup {c} ELSE lapsed
    /\ UNCHANGED <<tokens, location, login, leaving, logouts, kicks, faultVars, hidden, raced>>

(* The fault: the device's field is not a gateway *)
LocateTwice(c) ==
    /\ conn[c].phase = "joined"
    /\ SetLocation(conn[c].slot, conn[c].slot)
    /\ Phase(c, "located")
    /\ UNCHANGED <<tokens, login, leaving, logouts, kicks, subscriber, missed, faults, history>>

(* HSET im:location (lines 60-61, 296-297) *)
Locate(c) ==
    /\ conn[c].phase = "joined"
    /\ SetLocation(conn[c].slot, conn[c].gateway)
    /\ Phase(c, "located")
    /\ UNCHANGED <<tokens, login, leaving, logouts, kicks, subscriber, missed, faults, history>>

(* The fault: one session of the slot is enough *)
ReceiveKickOnce(g) ==
    LET hit == {c \in Conns : InUsers(c) /\ conn[c].gateway = g /\ conn[c].slot = Head(kicks[g])}
    IN  /\ kicks[g] # <<>>
        /\ kicks' = [kicks EXCEPT ![g] = Tail(@)]
        /\ conn' = IF hit = {} THEN conn
                   ELSE [conn EXCEPT ![CHOOSE c \in hit : TRUE].kicked = TRUE]
        /\ UNCHANGED <<tokens, location, login, leaving, logouts, faultVars, history>>

(* main.cpp lines 40-54: the subscriber kicks every session of the slot *)
ReceiveKick(g) ==
    /\ kicks[g] # <<>>
    /\ kicks' = [kicks EXCEPT ![g] = Tail(@)]
    /\ conn' = [c \in Conns |->
           IF InUsers(c) /\ conn[c].gateway = g /\ conn[c].slot = Head(kicks[g])
           THEN [conn[c] EXCEPT !.kicked = TRUE] ELSE conn[c]]
    /\ UNCHANGED <<tokens, location, login, leaving, logouts, faultVars, history>>

(* The fault: the location is left as it is *)
UnlocateOnly(c) ==
    /\ conn[c].phase = "located"
    /\ Phase(c, "unlocated")
    /\ UNCHANGED <<tokens, location, login, leaving, logouts, kicks, faultVars, history>>

(* The connection ends: the client closes it, it breaks or times out, or   *)
(* Kick closes it.  OnRead deletes the location (lines 107, 113), whoever  *)
(* it is of ...                                                            *)
Unlocate(c) ==
    /\ conn[c].phase = "located"
    /\ SetLocation(conn[c].slot, Nowhere)
    /\ Phase(c, "unlocated")
    /\ hidden' = hidden \cup {d \in Of(conn[c].slot) \ {c} : conn[d].phase = "located"}
    /\ UNCHANGED <<tokens, login, leaving, logouts, kicks, subscriber, missed, faults,
                   lapsed, raced>>

(* ... and leaves.  An anonymous session was in neither. *)
Leave(c) ==
    /\ conn[c].phase \in {"unlocated", "anonymous"}
    /\ Phase(c, "gone")
    /\ UNCHANGED <<tokens, location, login, leaving, logouts, kicks, faultVars, history>>

(* A packet with a wrong magic: OnRead closes the connection and returns   *)
(* without reading again (lines 126-130).                                  *)
Abandon(c) ==
    /\ BadPackets
    /\ conn[c].phase = "located"
    /\ Phase(c, "abandoned")
    /\ UNCHANGED <<tokens, location, login, leaving, logouts, kicks, faultVars, history>>

-------------------------------------------------------------------------------
(* A gateway goes down and is started again: its sessions are gone, their  *)
(* locations stay (they have no time to live), and it listens once its     *)
(* subscriber has connected, which serving sessions does not wait for.     *)
CrashGateway(g) ==
    /\ faults < MaxFaults
    /\ faults' = faults + 1
    /\ conn' = [c \in Conns |-> IF conn[c].phase # "unused" /\ conn[c].gateway = g
                                THEN [conn[c] EXCEPT !.phase = "gone"] ELSE conn[c]]
    /\ kicks' = [kicks EXCEPT ![g] = <<>>]
    /\ subscriber' = [subscriber EXCEPT ![g] = "starting"]
    /\ missed' = missed \ {g}
    /\ stale' = stale \cup {s \in Slots : location[s] = g}
    /\ UNCHANGED <<tokens, location, login, leaving, logouts, history>>

(* SUBSCRIBE im:kick (redis_client.cpp lines 190-197) *)
Subscribe(g) ==
    /\ subscriber[g] = "starting"
    /\ subscriber' = [subscriber EXCEPT ![g] = "listening"]
    /\ UNCHANGED <<tokens, location, login, leaving, logouts, kicks, conn, missed, stale, faults, history>>

(* The connection cannot be made or breaks, and the loop ends (lines 191,  *)
(* 199): what was published and not yet read is lost.                      *)
LoseSubscriber(g) ==
    /\ faults < MaxFaults
    /\ faults' = faults + 1
    /\ subscriber' = [subscriber EXCEPT ![g] = "ended"]
    /\ kicks' = [kicks EXCEPT ![g] = <<>>]
    /\ missed' = IF kicks[g] = <<>> THEN missed ELSE missed \cup {g}
    /\ UNCHANGED <<tokens, location, login, leaving, logouts, conn, stale, history>>

-------------------------------------------------------------------------------
LoginStep(n) ==
    \/ CheckLocation(n) \/ KickLocation(n) \/ CheckToken(n) \/ KickToken(n)
    \/ StoreToken(n) \/ Expire(n)

Next ==
    \/ \E n \in Logins : \/ \E slot \in Slots, via \in Frontends :
                                BeginLogin(n, slot, via)
                         \/ LoginStep(n)
    \/ \E slot \in Slots : Logout(slot) \/ KickLeaver(slot)
    \/ \E user \in Users : LogoutAll(user) \/ ExpireTokens(user)
    \/ \E c \in Conns : \/ \E n \in Logins, g \in Gateways : Upgrade(c, n, g)
                        \/ \E user \in Users, g \in Gateways : UpgradeAnonymous(c, user, g)
                        \/ Join(c) \/ PacketLogin(c) \/ Locate(c) \/ Unlocate(c) \/ Leave(c) \/ Abandon(c)
    \/ \E g \in Gateways : ReceiveKick(g) \/ CrashGateway(g) \/ Subscribe(g) \/ LoseSubscriber(g)

(* Calls return, an accepted session is set up, the subscriber runs, and a *)
(* session that was kicked is closed by Kick or by its client.             *)
Fairness ==
    /\ \A n \in Logins : WF_vars(LoginStep(n))
    /\ \A slot \in Slots : WF_vars(KickLeaver(slot))
    /\ \A g \in Gateways : WF_vars(ReceiveKick(g))
    /\ \A c \in Conns : /\ WF_vars(Join(c))
                        /\ WF_vars(Locate(c))
                        /\ WF_vars(conn[c].kicked /\ Unlocate(c))
                        /\ WF_vars(conn[c].phase = "unlocated" /\ Leave(c))

Spec == Init /\ [][Next]_vars
FairSpec == Spec /\ Fairness

-------------------------------------------------------------------------------
Pending(slot, g) == \E i \in 1..Len(kicks[g]) : kicks[g][i] = slot
Quiet(slot) ==
    /\ \A n \in Logins : InLogin(n) => login[n].slot # slot
    /\ slot \notin leaving
    /\ \A g \in Gateways : ~Pending(slot, g)

(* Both records of a session are or were lost: another session of the      *)
(* device ended and took the location with it, and the token has expired,  *)
(* went with a logout, or was never stored because a packet logged it in.  *)
Forgotten == hidden \cap lapsed

(* The variables have the types the code gives them. *)
PresenceTypeOK ==
    /\ token \in [Slots -> Tokens] /\ expiring \subseteq Users
    /\ location \in [Slots -> Gateways \cup {Nowhere}]
    /\ login \in [Logins -> LoginCalls]
    /\ leaving \subseteq Slots
    /\ logouts \in [Slots -> 0..MaxLogouts]
    /\ kicks \in [Gateways -> Seq(Slots)]
    /\ conn \in [Conns -> Sessions]
    /\ subscriber \in [Gateways -> Subscribers]
    /\ missed \subseteq Gateways /\ stale \subseteq Slots /\ faults \in 0..MaxFaults
    /\ hidden \subseteq Conns /\ lapsed \subseteq Conns /\ raced \subseteq Conns

(* When a login has made its checks, each session its device had when the  *)
(* login began has ended, was kicked, or has its kick on the way, whatever *)
(* logins, logouts, packet logins and ends of sessions come in between.    *)
(* Location and token stand in for each other: only a session that lost    *)
(* both, or whose gateway did not listen in time, may escape.              *)
KickReachesPresent ==
    \A n \in Logins : login[n].pc \in {"store", "expire", "storeAgain", "done"} =>
        \A c \in login[n].present \ Forgotten :
            \/ conn[c].phase # "located" \/ conn[c].kicked
            \/ Pending(conn[c].slot, conn[c].gateway) \/ conn[c].slot \in leaving
            \/ conn[c].gateway \in missed

(* A location names a gateway whose table has a session of that user and   *)
(* device, so SendMessage does not push to nobody; what a crash leaves     *)
(* behind goes with the next session of the device.  (A session that was   *)
(* closed for a bad packet stays in the table, and so does its location.)  *)
LocationHasSession ==
    \A s \in Slots \ stale : location[s] # Nowhere =>
        \E c \in Of(s) : /\ conn[c].phase \in {"located", "abandoned"}
                         /\ conn[c].gateway = location[s]

(* Sessions of a device that go on, once no call and no kick is under way, *)
(* at gateways that heard all kicks                                        *)
Remaining(slot) == {c \in Of(slot) : Live(c) /\ ~conn[c].kicked /\ conn[c].gateway \notin missed}

(* The sessions that remain of a device and showed a token stem from one   *)
(* login, however the calls interleave, unless a login of the device ran   *)
(* while one of them was set up (the token is compared before the session  *)
(* can be found), or one was forgotten.                                    *)
OneLoginRemains ==
    \A s \in Slots : Quiet(s) =>
        \A c, d \in Remaining(s) \ (raced \cup Forgotten) :
            conn[c].login # 0 /\ conn[d].login # 0 => conn[c].login = conn[d].login

(* README.md line 49: a repeated login of the same kind of device removes  *)
(* the old connection.  All sessions that remain of a device then stem     *)
(* from one login (the n-th call of Login, or one login packet).           *)
OneLoginPerDevice ==
    \A s \in Slots : Quiet(s) =>
        \A c, d \in Remaining(s) :
            c # d => conn[c].login = conn[d].login /\ conn[c].login # 0

(* Only a conflict ends a session: another login, another session, or a    *)
(* logout of the same user on the same device.  Other devices never do,    *)
(* whatever Redis commands fail.                                           *)
OnlyConflictsKick ==
    \A c \in Conns : conn[c].kicked =>
        \/ logouts[conn[c].slot] > 0
        \/ \E n \in Logins \ {conn[c].login} : ~At(n, "unused") /\ login[n].slot = conn[c].slot
        \/ \E d \in Of(conn[c].slot) \ {c} : conn[d].phase # "unused"

(* Each session that was there when a login of its device began comes to   *)
(* an end and leaves the gateway's table, unless it was forgotten, the     *)
(* gateway missed a kick, or it was closed for a bad packet and never      *)
(* leaves.                                                                 *)
SupersededLeave ==
    \A c \in Conns :
        (\E n \in Logins : c \in login[n].present) ~>
            \/ conn[c].phase \in {"gone", "abandoned"}
            \/ c \in Forgotten \/ conn[c].gateway \in missed
===============================================================================
