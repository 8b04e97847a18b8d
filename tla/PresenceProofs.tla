---------------------------- MODULE PresenceProofs ----------------------------
(***************************************************************************)
(* Proofs of the safety properties of Presence, for any users, devices,    *)
(* gateways and sessions, and any number of logins and logouts.            *)
(***************************************************************************)
EXTENDS Presence, TLAPS

-------------------------------------------------------------------------------
(* What the helpers of the actions do *)

LEMMA SlotFacts ==
    /\ Slot0 \in Slots /\ Frontend0 \in Frontends /\ Gateway0 \in Gateways
    /\ \A s \in Slots : s[1] \in Users /\ s[2] \in Devices /\ s = <<s[1], s[2]>>
    /\ \A u \in Users : <<u, PC>> \in Slots
<1>1. /\ \A u \in Users, d \in Devices : <<u, d>> \in Slots
      /\ \A s \in Slots : s[1] \in Users /\ s[2] \in Devices /\ s = <<s[1], s[2]>>
  BY DEF Slots
<1>2. \E s : s \in Slots
  BY <1>1, PCAssumption, NonEmptyAssumption
<1>3. Slot0 \in Slots
  BY <1>2 DEF Slot0
<1>4. Frontend0 \in Frontends
  BY FrontendsAssumption DEF Frontend0
<1>5. Gateway0 \in Gateways
  BY NonEmptyAssumption DEF Gateway0
<1> QED BY <1>1, <1>3, <1>4, <1>5, PCAssumption

LEMMA GotoEffect ==
    ASSUME login \in [Logins -> LoginCalls], NEW n \in Logins, NEW pc \in LoginSteps,
           Goto(n, pc)
    PROVE  /\ login' \in [Logins -> LoginCalls]
           /\ login'[n].pc = pc
           /\ \A m \in Logins : /\ login'[m].slot = login[m].slot
                                /\ login'[m].via = login[m].via
                                /\ login'[m].present = login[m].present
                                /\ m # n => login'[m].pc = login[m].pc
BY DEF Goto, LoginCalls

LEMMA BeginEffect ==
    ASSUME login \in [Logins -> LoginCalls], NEW n \in Logins, NEW slot \in Slots,
           NEW via \in Frontends, BeginLogin(n, slot, via)
    PROVE  /\ login' \in [Logins -> LoginCalls]
           /\ login[n].pc = "unused" /\ login'[n].pc = "location"
           /\ login'[n].slot = slot
           /\ login'[n].present = {c \in Of(slot) : conn[c].phase = "located"}
           /\ \A m \in Logins : m # n => login'[m] = login[m]
<1> DEFINE new == [pc |-> "location", slot |-> slot, via |-> via,
                   present |-> {c \in Of(slot) : conn[c].phase = "located"}]
<1>1. login' = [login EXCEPT ![n] = new]
  BY DEF BeginLogin
<1>2. new \in LoginCalls
  BY DEF LoginCalls, LoginSteps, Of
<1> QED BY <1>1, <1>2 DEF BeginLogin, At

LEMMA PhaseEffect ==
    ASSUME conn \in [Conns -> Sessions], NEW c \in Conns, NEW phase \in Phases,
           Phase(c, phase)
    PROVE  /\ conn' \in [Conns -> Sessions]
           /\ conn'[c].phase = phase
           /\ \A d \in Conns : /\ conn'[d].slot = conn[d].slot
                               /\ conn'[d].gateway = conn[d].gateway
                               /\ conn'[d].login = conn[d].login
                               /\ conn'[d].kicked = conn[d].kicked
                               /\ d # c => conn'[d].phase = conn[d].phase
BY DEF Phase, Sessions

LEMMA PacketEffect ==
    ASSUME conn \in [Conns -> Sessions], NEW c \in Conns, PacketLogin(c)
    PROVE  /\ conn' \in [Conns -> Sessions]
           /\ conn[c].phase = "anonymous" /\ conn'[c].phase = "joined" /\ conn'[c].login = 0
           /\ token[conn[c].slot] = 0 => c \in lapsed'
           /\ UNCHANGED <<token, location, login, leaving, logouts, kicks, missed>>
           /\ \A d \in Conns : /\ conn'[d].slot = conn[d].slot
                               /\ conn'[d].gateway = conn[d].gateway
                               /\ conn'[d].kicked = conn[d].kicked
                               /\ d # c => conn'[d].phase = conn[d].phase
                                          /\ conn'[d].login = conn[d].login
<1>1. 0 \in Tokens
  BY BoundsAssumption DEF Tokens
<1>2. conn' = [conn EXCEPT ![c].phase = "joined", ![c].login = 0]
  BY DEF PacketLogin
<1>3. conn' \in [Conns -> Sessions]
  BY <1>1, <1>2 DEF Sessions, Phases
<1> QED BY <1>2, <1>3 DEF PacketLogin, tokens, faultVars, Sessions

LEMMA OpenEffect ==
    ASSUME conn \in [Conns -> Sessions], NEW c \in Conns, NEW phase \in Phases,
           NEW slot \in Slots, NEW g \in Gateways, NEW n \in Tokens,
           Open(c, phase, slot, g, n)
    PROVE  /\ conn' \in [Conns -> Sessions]
           /\ conn[c].phase = "unused" /\ Alone(slot[1])
           /\ conn'[c].phase = phase /\ conn'[c].slot = slot /\ conn'[c].gateway = g
           /\ conn'[c].login = n /\ conn'[c].kicked = FALSE
           /\ \A d \in Conns : d # c => conn'[d] = conn[d]
BY DEF Open, Sessions

LEMMA TokenEffect ==
    ASSUME token \in [Slots -> Tokens], NEW slot \in Slots, NEW n \in Tokens,
           SetToken(slot, n)
    PROVE  /\ token' \in [Slots -> Tokens]
           /\ token'[slot] \in {token[slot], n}
           /\ ~RedisFails => token'[slot] = n
           /\ \A s \in Slots : s # slot => token'[s] = token[s]
BY DEF SetToken, Written

LEMMA DropEffect ==
    ASSUME token \in [Slots -> Tokens], NEW user, NEW devices, DropTokens(user, devices)
    PROVE  /\ token' \in [Slots -> Tokens]
           /\ \A s \in Slots : token'[s] = token[s] \/ (s[1] = user /\ token'[s] = 0)
<1>1. 0 \in Tokens
  BY BoundsAssumption DEF Tokens
<1> QED BY <1>1 DEF DropTokens

(* What was lost or raced once is so for good.                             *)
LEMMA HistoryGrows ==
    ASSUME [Next]_vars
    PROVE  /\ hidden \subseteq hidden' /\ hidden' \subseteq hidden \cup Conns
           /\ lapsed \subseteq lapsed' /\ lapsed' \subseteq lapsed \cup Conns
           /\ raced \subseteq raced' /\ raced' \subseteq raced \cup Conns
<1> DEFINE Grows == /\ hidden \subseteq hidden' /\ hidden' \subseteq hidden \cup Conns
                    /\ lapsed \subseteq lapsed' /\ lapsed' \subseteq lapsed \cup Conns
                    /\ raced \subseteq raced' /\ raced' \subseteq raced \cup Conns
<1>1. ASSUME NEW n \in Logins, NEW slot \in Slots, NEW via \in Frontends,
             BeginLogin(n, slot, via)
      PROVE  Grows
  BY <1>1 DEF BeginLogin, Of
<1>2. ASSUME NEW c \in Conns, NEW n \in Logins, NEW g \in Gateways, Upgrade(c, n, g)
      PROVE  Grows
  BY <1>2 DEF Upgrade
<1>3. ASSUME NEW slot \in Slots, Logout(slot) PROVE Grows
  BY <1>3 DEF Logout, Of
<1>4. ASSUME NEW user \in Users, LogoutAll(user) \/ ExpireTokens(user) PROVE Grows
  BY <1>4 DEF LogoutAll, ExpireTokens, GoingOn
<1>5. ASSUME NEW c \in Conns, PacketLogin(c) PROVE Grows
  BY <1>5 DEF PacketLogin
<1>6. ASSUME NEW c \in Conns, Unlocate(c) PROVE Grows
  BY <1>6 DEF Unlocate, Of
<1>7. CASE UNCHANGED history
  BY <1>7 DEF history
<1> QED BY <1>1, <1>2, <1>3, <1>4, <1>5, <1>6, <1>7
        DEF Next, vars, LoginStep, CheckLocation, KickLocation, CheckToken, KickToken,
            StoreToken,
            Expire, KickLeaver, UpgradeAnonymous, Join, PacketLogin, Locate, Leave, Abandon,
            ReceiveKick, CrashGateway, Subscribe, LoseSubscriber

(* Only a user's hash has a time to live.                                  *)
LEMMA TimesOfUsers ==
    ASSUME expiring \subseteq Users, login \in [Logins -> LoginCalls], [Next]_vars
    PROVE  expiring' \subseteq Users
<1>1. ASSUME NEW n \in Logins, Expire(n) PROVE expiring' \subseteq Users
  <2>1. login[n].slot[1] \in Users
    BY SlotFacts DEF LoginCalls
  <2> QED BY <1>1, <2>1 DEF Expire, Written
<1>2. ASSUME TimesKept PROVE expiring' \subseteq Users
  BY <1>2 DEF TimesKept
<1>3. CASE UNCHANGED expiring
  BY <1>3
<1> QED BY <1>1, <1>2, <1>3
        DEF Next, vars, tokens, LoginStep, BeginLogin, CheckLocation, KickLocation, CheckToken,
            KickToken, StoreToken, Logout, LogoutAll, ExpireTokens, SetToken, DropTokens,
            KickLeaver, Upgrade, UpgradeAnonymous, Join, PacketLogin, Locate, Unlocate, Leave,
            Abandon, ReceiveKick, CrashGateway, Subscribe, LoseSubscriber

LEMMA LocationEffect ==
    ASSUME location \in [Slots -> Gateways \cup {Nowhere}], NEW slot \in Slots,
           NEW a \in Gateways \cup {Nowhere}, SetLocation(slot, a)
    PROVE  /\ location' \in [Slots -> Gateways \cup {Nowhere}]
           /\ location'[slot] \in {location[slot], a}
           /\ ~RedisFails => location'[slot] = a
           /\ stale' = stale \ {slot}
           /\ \A s \in Slots : s # slot => location'[s] = location[s]
BY DEF SetLocation, Written

(* A published kick is what gets pending, at each gateway that listens;    *)
(* the others miss it.                                                     *)
LEMMA PublishEffect ==
    ASSUME kicks \in [Gateways -> Seq(Slots)], NEW slot \in Slots, Publish(slot)
    PROVE  /\ kicks' \in [Gateways -> Seq(Slots)]
           /\ \A s \in Slots, g \in Gateways :
                  /\ Pending(s, g)' => Pending(s, g) \/ s = slot
                  /\ Pending(s, g) => Pending(s, g)'
           /\ ~RedisFails => \A g \in Gateways : Pending(slot, g)' \/ g \in missed'
           /\ missed' = missed \cup {g \in Gateways : ~Listens(g)}
<1>M. missed' = missed \cup {g \in Gateways : ~Listens(g)}
  BY DEF Publish
<1>1. CASE kicks' = kicks /\ RedisFails
  BY <1>1, <1>M DEF Pending
<1>2. CASE kicks' = [g \in Gateways |-> IF Listens(g) THEN Append(kicks[g], slot) ELSE kicks[g]]
  <2>1. ASSUME NEW g \in Gateways, Listens(g)
        PROVE  /\ kicks'[g] \in Seq(Slots) /\ Len(kicks[g]) \in Nat
               /\ Len(kicks'[g]) = Len(kicks[g]) + 1
               /\ \A i \in 1..Len(kicks[g]) : kicks'[g][i] = kicks[g][i]
               /\ kicks'[g][Len(kicks[g]) + 1] = slot
    BY <1>2, <2>1
  <2>2. ASSUME NEW g \in Gateways, ~Listens(g) PROVE kicks'[g] = kicks[g]
    BY <1>2, <2>2
  <2>3. kicks' \in [Gateways -> Seq(Slots)]
    BY <1>2
  <2>4. ASSUME NEW s \in Slots, NEW g \in Gateways
        PROVE  /\ Pending(s, g)' => Pending(s, g) \/ s = slot
               /\ Pending(s, g) => Pending(s, g)'
               /\ Pending(slot, g)' \/ g \in missed'
    <3>1. CASE Listens(g)
      BY <2>1, <3>1 DEF Pending
    <3>2. CASE ~Listens(g)
      BY <2>2, <3>2, <1>M DEF Pending
    <3> QED BY <3>1, <3>2
  <2> QED BY <2>3, <2>4, <1>M
<1> QED BY <1>1, <1>2 DEF Publish, Written

(* The kick a gateway receives is the one that may stop being pending.     *)
LEMMA ReceiveEffect ==
    ASSUME kicks \in [Gateways -> Seq(Slots)], conn \in [Conns -> Sessions],
           NEW g \in Gateways, ReceiveKick(g)
    PROVE  /\ kicks' \in [Gateways -> Seq(Slots)]
           /\ Head(kicks[g]) \in Slots /\ Pending(Head(kicks[g]), g)
           /\ \A s \in Slots, h \in Gateways :
                  /\ Pending(s, h)' => Pending(s, h)
                  /\ Pending(s, h) => Pending(s, h)' \/ (h = g /\ s = Head(kicks[g]))
           /\ conn' \in [Conns -> Sessions]
           /\ \A c \in Conns :
                  /\ conn'[c].phase = conn[c].phase /\ conn'[c].slot = conn[c].slot
                  /\ conn'[c].gateway = conn[c].gateway /\ conn'[c].login = conn[c].login
                  /\ conn'[c].kicked =
                         (conn[c].kicked \/ (InUsers(c) /\ conn[c].gateway = g
                                             /\ conn[c].slot = Head(kicks[g])))
<1>1. kicks[g] \in Seq(Slots) /\ kicks[g] # <<>>
  BY DEF ReceiveKick
<1>2. /\ Len(kicks[g]) \in Nat \ {0} /\ Head(kicks[g]) = kicks[g][1]
      /\ Head(kicks[g]) \in Slots /\ Tail(kicks[g]) \in Seq(Slots)
      /\ Len(Tail(kicks[g])) = Len(kicks[g]) - 1
      /\ \A i \in 1..Len(kicks[g]) - 1 : Tail(kicks[g])[i] = kicks[g][i + 1]
  BY <1>1
<1>3. kicks' = [kicks EXCEPT ![g] = Tail(@)]
  BY DEF ReceiveKick
<1>4. kicks' \in [Gateways -> Seq(Slots)]
  BY <1>2, <1>3
<1>5. Pending(Head(kicks[g]), g)
  BY <1>2 DEF Pending
<1>6. ASSUME NEW s \in Slots, NEW h \in Gateways
      PROVE  /\ Pending(s, h)' => Pending(s, h)
             /\ Pending(s, h) => Pending(s, h)' \/ (h = g /\ s = Head(kicks[g]))
  <2>1. CASE h # g
    BY <1>3, <2>1 DEF Pending
  <2>2. CASE h = g
    <3>1. /\ kicks'[g] = Tail(kicks[g])
          /\ \A i \in 1..Len(Tail(kicks[g])) : i + 1 \in 1..Len(kicks[g])
          /\ \A i \in 1..Len(kicks[g]) : i = 1 \/ i - 1 \in 1..Len(Tail(kicks[g]))
          /\ \A i \in 1..Len(kicks[g]) : i # 1 => Tail(kicks[g])[i - 1] = kicks[g][i]
      BY <1>2, <1>3
    <3>2. Pending(s, g)' => Pending(s, g)
      BY <1>2, <3>1 DEF Pending
    <3>3. Pending(s, g) => Pending(s, g)' \/ s = Head(kicks[g])
      BY <1>2, <3>1 DEF Pending
    <3> QED BY <2>2, <3>2, <3>3
  <2> QED BY <2>1, <2>2
<1>7. /\ conn' \in [Conns -> Sessions]
      /\ \A c \in Conns :
             /\ conn'[c].phase = conn[c].phase /\ conn'[c].slot = conn[c].slot
             /\ conn'[c].gateway = conn[c].gateway /\ conn'[c].login = conn[c].login
             /\ conn'[c].kicked =
                    (conn[c].kicked \/ (InUsers(c) /\ conn[c].gateway = g
                                        /\ conn[c].slot = Head(kicks[g])))
  BY DEF ReceiveKick, Sessions
<1> QED BY <1>2, <1>4, <1>5, <1>6, <1>7

(* A crash ends the sessions of a gateway and drops its kicks.             *)
LEMMA CrashEffect ==
    ASSUME kicks \in [Gateways -> Seq(Slots)], conn \in [Conns -> Sessions],
           NEW g \in Gateways, CrashGateway(g)
    PROVE  /\ kicks' \in [Gateways -> Seq(Slots)]
           /\ \A s \in Slots, h \in Gateways :
                  /\ Pending(s, h)' => Pending(s, h)
                  /\ Pending(s, h) => Pending(s, h)' \/ h = g
           /\ conn' \in [Conns -> Sessions]
           /\ \A c \in Conns :
                  /\ conn'[c].slot = conn[c].slot /\ conn'[c].gateway = conn[c].gateway
                  /\ conn'[c].login = conn[c].login /\ conn'[c].kicked = conn[c].kicked
                  /\ conn'[c].phase = IF conn[c].phase # "unused" /\ conn[c].gateway = g
                                      THEN "gone" ELSE conn[c].phase
<1>1. /\ kicks' \in [Gateways -> Seq(Slots)] /\ kicks'[g] = <<>>
      /\ \A h \in Gateways : h # g => kicks'[h] = kicks[h]
  BY DEF CrashGateway
<1>2. ASSUME NEW s \in Slots, NEW h \in Gateways
      PROVE  /\ Pending(s, h)' => Pending(s, h)
             /\ Pending(s, h) => Pending(s, h)' \/ h = g
  BY <1>1 DEF Pending
<1>3. /\ conn' \in [Conns -> Sessions]
      /\ \A c \in Conns :
             /\ conn'[c].slot = conn[c].slot /\ conn'[c].gateway = conn[c].gateway
             /\ conn'[c].login = conn[c].login /\ conn'[c].kicked = conn[c].kicked
             /\ conn'[c].phase = IF conn[c].phase # "unused" /\ conn[c].gateway = g
                                 THEN "gone" ELSE conn[c].phase
  BY DEF CrashGateway, Sessions, Phases
<1> QED BY <1>1, <1>2, <1>3

(* A lost subscriber loses what it has not read.                           *)
LEMMA LoseEffect ==
    ASSUME kicks \in [Gateways -> Seq(Slots)], NEW g \in Gateways, LoseSubscriber(g)
    PROVE  /\ kicks' \in [Gateways -> Seq(Slots)]
           /\ \A s \in Slots, h \in Gateways :
                  /\ Pending(s, h)' => Pending(s, h)
                  /\ Pending(s, h) => Pending(s, h)' \/ h \in missed'
           /\ missed \subseteq missed'
<1>1. /\ kicks' \in [Gateways -> Seq(Slots)] /\ kicks'[g] = <<>>
      /\ \A h \in Gateways : h # g => kicks'[h] = kicks[h]
      /\ missed \subseteq missed' /\ (kicks[g] # <<>> => g \in missed')
  BY DEF LoseSubscriber
<1>2. ASSUME NEW s \in Slots, NEW h \in Gateways
      PROVE  /\ Pending(s, h)' => Pending(s, h)
             /\ Pending(s, h) => Pending(s, h)' \/ h \in missed'
  <2>1. ~Pending(s, g)' /\ (kicks[g] = <<>> => ~Pending(s, g))
    BY <1>1 DEF Pending
  <2>2. h # g => (Pending(s, h)' <=> Pending(s, h))
    BY <1>1 DEF Pending
  <2> QED BY <1>1, <2>1, <2>2
<1> QED BY <1>1, <1>2

-------------------------------------------------------------------------------
(* Types *)

LEMMA TypesInit == Init => PresenceTypeOK
<1> SUFFICES ASSUME Init PROVE PresenceTypeOK
  OBVIOUS
<1>1. 0 \in Tokens /\ 0 \in 0..MaxLogouts
  BY BoundsAssumption DEF Tokens
<1>2. login \in [Logins -> LoginCalls]
  BY SlotFacts DEF Init, LoginCalls, LoginSteps
<1>3. conn \in [Conns -> Sessions]
  BY <1>1, SlotFacts DEF Init, Sessions, Phases
<1>4. kicks \in [Gateways -> Seq(Slots)]
  BY DEF Init
<1>5. 0 \in 0..MaxFaults
  BY BoundsAssumption
<1> QED BY <1>1, <1>2, <1>3, <1>4, <1>5 DEF Init, PresenceTypeOK, Subscribers

(* The types of what the programs keep *)
Types ==
    /\ token \in [Slots -> Tokens]
    /\ location \in [Slots -> Gateways \cup {Nowhere}]
    /\ login \in [Logins -> LoginCalls] /\ leaving \subseteq Slots
    /\ logouts \in [Slots -> 0..MaxLogouts] /\ kicks \in [Gateways -> Seq(Slots)]
    /\ conn \in [Conns -> Sessions]
    /\ subscriber \in [Gateways -> Subscribers] /\ missed \subseteq Gateways
    /\ stale \subseteq Slots /\ faults \in 0..MaxFaults

LEMMA TypesNext == PresenceTypeOK /\ [Next]_vars => PresenceTypeOK'
<1> SUFFICES ASSUME PresenceTypeOK, [Next]_vars PROVE PresenceTypeOK'
  OBVIOUS
<1>T. /\ token \in [Slots -> Tokens] /\ location \in [Slots -> Gateways \cup {Nowhere}]
      /\ login \in [Logins -> LoginCalls] /\ leaving \subseteq Slots
      /\ logouts \in [Slots -> 0..MaxLogouts] /\ kicks \in [Gateways -> Seq(Slots)]
      /\ conn \in [Conns -> Sessions]
      /\ subscriber \in [Gateways -> Subscribers] /\ missed \subseteq Gateways
      /\ stale \subseteq Slots /\ faults \in 0..MaxFaults
  BY DEF PresenceTypeOK
<1>A. /\ \A n \in Logins : n \in Tokens
      /\ 0 \in Tokens
      /\ \A n \in Logins : login[n].slot \in Slots
      /\ \A c \in Conns : conn[c].slot \in Slots /\ conn[c].gateway \in Gateways
  BY <1>T, BoundsAssumption DEF Logins, Tokens, LoginCalls, Sessions
<1>1. ASSUME NEW n \in Logins, NEW slot \in Slots, NEW via \in Frontends,
             BeginLogin(n, slot, via)
      PROVE  Types'
  <2>1. login' \in [Logins -> LoginCalls]
    BY <1>1, <1>T, BeginEffect
  <2> QED BY <1>1, <1>T, <2>1 DEF Types, BeginLogin, faultVars, tokens
<1>2. ASSUME NEW n \in Logins, LoginStep(n) PROVE Types'
  <2>1. login' \in [Logins -> LoginCalls]
    <3>1. PICK pc \in LoginSteps : Goto(n, pc)
      BY <1>2 DEF LoginStep, CheckLocation, KickLocation, CheckToken, KickToken,
                  StoreToken, Expire, LoginSteps
    <3> QED BY <3>1, <1>T, GotoEffect
  <2>2. token' \in [Slots -> Tokens]
    BY <1>2, <1>T, <1>A, TokenEffect
       DEF LoginStep, CheckLocation, KickLocation, CheckToken, KickToken, StoreToken, Expire,
           tokens
  <2>3. kicks' \in [Gateways -> Seq(Slots)]
    BY <1>2, <1>T, <1>A, PublishEffect
       DEF LoginStep, CheckLocation, KickLocation, CheckToken, KickToken, StoreToken, Expire,
           tokens
  <2>4. missed' \subseteq Gateways
    BY <1>2, <1>T DEF LoginStep, CheckLocation, KickLocation, CheckToken, KickToken,
                      StoreToken, Expire,
                      Publish, faultVars, tokens
  <2> QED BY <1>2, <1>T, <2>1, <2>2, <2>3, <2>4
          DEF Types, faultVars, tokens, LoginStep, CheckLocation, KickLocation, CheckToken,
              KickToken, StoreToken, Expire,
              PresenceTypeOK
<1>3. ASSUME NEW slot \in Slots, Logout(slot) PROVE Types'
  <2>1. token' \in [Slots -> Tokens]
    BY <1>3, <1>T, <1>A, TokenEffect DEF Logout
  <2>2. logouts' \in [Slots -> 0..MaxLogouts]
    BY <1>3, <1>T, BoundsAssumption DEF Logout
  <2> QED BY <1>3, <1>T, <2>1, <2>2 DEF Types, Logout, faultVars, tokens
<1>4. ASSUME NEW slot \in Slots, KickLeaver(slot) PROVE Types'
  <2>1. kicks' \in [Gateways -> Seq(Slots)]
    BY <1>4, <1>T, PublishEffect DEF KickLeaver
  <2>2. missed' \subseteq Gateways
    BY <1>4, <1>T DEF KickLeaver, Publish
  <2> QED BY <1>4, <1>T, <2>1, <2>2 DEF Types, KickLeaver, faultVars, tokens
<1>5. ASSUME NEW user \in Users, LogoutAll(user) \/ ExpireTokens(user) PROVE Types'
  <2>1. \E devices : DropTokens(user, devices)
    BY <1>5 DEF LogoutAll, ExpireTokens
  <2>2. token' \in [Slots -> Tokens]
    BY <2>1, <1>T, DropEffect
  <2> QED BY <1>5, <1>T, <2>2 DEF Types, LogoutAll, ExpireTokens, faultVars
<1>13. ASSUME NEW c \in Conns, PacketLogin(c) PROVE Types'
  <2>1. conn' \in [Conns -> Sessions]
    BY <1>13, <1>T, PacketEffect
  <2> QED BY <1>13, <1>T, <2>1 DEF Types, PacketLogin, faultVars, tokens
<1>6. ASSUME NEW c \in Conns,
             \/ \E n \in Logins, g \in Gateways : Upgrade(c, n, g)
             \/ \E user \in Users, g \in Gateways : UpgradeAnonymous(c, user, g)
      PROVE  Types'
  <2>1. \E phase \in Phases, slot \in Slots, g \in Gateways, n \in Tokens :
            Open(c, phase, slot, g, n)
    BY <1>6, <1>A, SlotFacts DEF Upgrade, UpgradeAnonymous, Phases
  <2>2. conn' \in [Conns -> Sessions]
    BY <2>1, <1>T, OpenEffect
  <2> QED BY <1>6, <1>T, <2>2 DEF Types, Upgrade, UpgradeAnonymous, faultVars, tokens
<1>7. ASSUME NEW c \in Conns, Join(c) \/ Locate(c) \/ Unlocate(c) \/ Leave(c) \/ Abandon(c)
      PROVE  Types'
  <2>1. \E phase \in Phases : Phase(c, phase)
    BY <1>7 DEF Join, PacketLogin, Locate, Unlocate, Leave, Abandon, Phases
  <2>2. conn' \in [Conns -> Sessions]
    BY <2>1, <1>T, PhaseEffect
  <2>3. location' \in [Slots -> Gateways \cup {Nowhere}]
    BY <1>7, <1>T, <1>A, LocationEffect DEF Join, PacketLogin, Locate, Unlocate, Leave, Abandon
  <2>4. stale' \subseteq Slots
    BY <1>7, <1>T DEF Join, PacketLogin, Locate, Unlocate, Leave, Abandon, SetLocation,
                      faultVars, tokens
  <2> QED BY <1>7, <1>T, <2>2, <2>3, <2>4
          DEF Types, faultVars, tokens, Join, PacketLogin, Locate, Unlocate, Leave, Abandon
<1>8. ASSUME NEW g \in Gateways, ReceiveKick(g) PROVE Types'
  <2>1. kicks' \in [Gateways -> Seq(Slots)] /\ conn' \in [Conns -> Sessions]
    BY <1>8, <1>T, ReceiveEffect
  <2> QED BY <1>8, <1>T, <2>1 DEF Types, ReceiveKick, faultVars, tokens
<1>9. ASSUME NEW g \in Gateways, CrashGateway(g) PROVE Types'
  <2>1. kicks' \in [Gateways -> Seq(Slots)] /\ conn' \in [Conns -> Sessions]
    BY <1>9, <1>T, CrashEffect
  <2>2. /\ faults' \in 0..MaxFaults /\ subscriber' \in [Gateways -> Subscribers]
        /\ missed' \subseteq Gateways /\ stale' \subseteq Slots
    BY <1>9, <1>T, BoundsAssumption DEF CrashGateway, Subscribers
  <2> QED BY <1>9, <1>T, <2>1, <2>2 DEF Types, CrashGateway, tokens
<1>10. ASSUME NEW g \in Gateways, Subscribe(g) PROVE Types'
  BY <1>10, <1>T DEF Types, Subscribe, Subscribers, tokens
<1>11. ASSUME NEW g \in Gateways, LoseSubscriber(g) PROVE Types'
  <2>1. kicks' \in [Gateways -> Seq(Slots)]
    BY <1>11, <1>T, LoseEffect
  <2>2. /\ faults' \in 0..MaxFaults /\ subscriber' \in [Gateways -> Subscribers]
        /\ missed' \subseteq Gateways
    BY <1>11, <1>T, BoundsAssumption DEF LoseSubscriber, Subscribers
  <2> QED BY <1>11, <1>T, <2>1, <2>2 DEF Types, LoseSubscriber, tokens
<1>12. ASSUME UNCHANGED vars PROVE Types'
  BY <1>12, <1>T DEF Types, vars, faultVars, tokens
<1>14. Types'
  BY <1>1, <1>2, <1>3, <1>4, <1>5, <1>6, <1>7, <1>8, <1>9, <1>10, <1>11, <1>12, <1>13 DEF Next
<1>15. /\ expiring' \subseteq Users
       /\ hidden' \subseteq Conns /\ lapsed' \subseteq Conns /\ raced' \subseteq Conns
  BY TimesOfUsers, HistoryGrows DEF PresenceTypeOK
<1> QED BY <1>14, <1>15 DEF Types, PresenceTypeOK

(* The tokens, locations, calls, kicks and sessions keep their types.      *)
THEOREM TypeCorrect == Spec => []PresenceTypeOK
BY TypesInit, TypesNext, PTL DEF Spec

-------------------------------------------------------------------------------
(* Locations *)

(* A location is written after its session joined and deleted before it    *)
(* leaves, unless Redis refuses the deletion; an abandoned session keeps   *)
(* it and stays.                                                           *)
LEMMA LocationNext ==
    ASSUME ~RedisFails, PresenceTypeOK, LocationHasSession, [Next]_vars
    PROVE  LocationHasSession'
<1> DEFINE Found(phase) == phase \in {"located", "abandoned"}
<1>T. /\ location \in [Slots -> Gateways \cup {Nowhere}] /\ conn \in [Conns -> Sessions]
      /\ kicks \in [Gateways -> Seq(Slots)]
  BY DEF PresenceTypeOK
<1>A. \A c \in Conns : conn[c].slot \in Slots /\ conn[c].gateway \in Gateways
  BY <1>T DEF Sessions
<1>1. ASSUME NEW s \in Slots \ stale', location'[s] # Nowhere
      PROVE  \E c \in Conns : conn'[c].slot = s /\ Found(conn'[c].phase)
                              /\ conn'[c].gateway = location'[s]
  <2>K. ASSUME location'[s] = location[s], s \notin stale
        PROVE  \E c \in Conns : conn[c].slot = s /\ Found(conn[c].phase)
                                /\ conn[c].gateway = location'[s]
    BY <1>1, <2>K DEF LocationHasSession, Of
  <2>1. ASSUME NEW c \in Conns, Locate(c)
        PROVE  \E d \in Conns : conn'[d].slot = s /\ Found(conn'[d].phase)
                                /\ conn'[d].gateway = location'[s]
    <3>1. conn'[c].phase = "located"
          /\ \A d \in Conns : /\ conn'[d].slot = conn[d].slot
                              /\ conn'[d].gateway = conn[d].gateway
                              /\ d # c => conn'[d].phase = conn[d].phase
      BY <2>1, <1>T, PhaseEffect DEF Locate, Phases
    <3>2. /\ location'[conn[c].slot] = conn[c].gateway
          /\ s # conn[c].slot => location'[s] = location[s] /\ s \notin stale
      BY <2>1, <1>T, <1>A, <1>1, LocationEffect DEF Locate
    <3> QED BY <3>1, <3>2, <2>K
  <2>2. ASSUME NEW c \in Conns, Unlocate(c)
        PROVE  \E d \in Conns : conn'[d].slot = s /\ Found(conn'[d].phase)
                                /\ conn'[d].gateway = location'[s]
    <3>1. \A d \in Conns : /\ conn'[d].slot = conn[d].slot
                           /\ conn'[d].gateway = conn[d].gateway
                           /\ d # c => conn'[d].phase = conn[d].phase
      BY <2>2, <1>T, PhaseEffect DEF Unlocate, Phases
    <3>2. /\ location'[conn[c].slot] = Nowhere
          /\ s # conn[c].slot => location'[s] = location[s] /\ s \notin stale
      BY <2>2, <1>T, <1>A, <1>1, LocationEffect DEF Unlocate
    <3> QED BY <1>1, <3>1, <3>2, <2>K
  <2>3. ASSUME NEW c \in Conns, Join(c) \/ Leave(c)
        PROVE  \E d \in Conns : conn'[d].slot = s /\ Found(conn'[d].phase)
                                /\ conn'[d].gateway = location'[s]
    <3>1. \A d \in Conns : /\ conn'[d].slot = conn[d].slot
                           /\ conn'[d].gateway = conn[d].gateway
                           /\ d # c => conn'[d].phase = conn[d].phase
      BY <2>3, <1>T, PhaseEffect DEF Join, PacketLogin, Leave, Phases
    <3>2. location' = location /\ stale' = stale /\ ~Found(conn[c].phase)
      BY <2>3 DEF Join, PacketLogin, Leave, faultVars, tokens, history
    <3> QED BY <3>1, <3>2, <1>1, <2>K
  <2>4. ASSUME NEW c \in Conns,
               \/ \E n \in Logins, g \in Gateways : Upgrade(c, n, g)
               \/ \E user \in Users, g \in Gateways : UpgradeAnonymous(c, user, g)
        PROVE  \E d \in Conns : conn'[d].slot = s /\ Found(conn'[d].phase)
                                /\ conn'[d].gateway = location'[s]
    <3>1. /\ location' = location /\ stale' = stale /\ conn[c].phase = "unused"
          /\ \A d \in Conns : d # c => conn'[d] = conn[d]
      BY <2>4, <1>T DEF Upgrade, UpgradeAnonymous, Open, faultVars, tokens, history
    <3> QED BY <3>1, <1>1, <2>K
  <2>5. ASSUME NEW g \in Gateways, ReceiveKick(g)
        PROVE  \E d \in Conns : conn'[d].slot = s /\ Found(conn'[d].phase)
                                /\ conn'[d].gateway = location'[s]
    <3>1. \A d \in Conns : conn'[d].slot = conn[d].slot /\ conn'[d].phase = conn[d].phase
                           /\ conn'[d].gateway = conn[d].gateway
      BY <2>5, <1>T, ReceiveEffect
    <3> QED BY <2>5, <3>1, <1>1, <2>K DEF ReceiveKick, faultVars, tokens, history
  <2>6. ASSUME UNCHANGED <<location, conn, stale>>
        PROVE  \E d \in Conns : conn'[d].slot = s /\ Found(conn'[d].phase)
                                /\ conn'[d].gateway = location'[s]
    BY <2>6, <1>1, <2>K
  <2>7. ASSUME NEW g \in Gateways, CrashGateway(g)
        PROVE  \E d \in Conns : conn'[d].slot = s /\ Found(conn'[d].phase)
                                /\ conn'[d].gateway = location'[s]
    <3>1. location' = location /\ s \notin stale /\ location[s] # g
      BY <2>7, <1>1 DEF CrashGateway
    <3>2. \A d \in Conns : /\ conn'[d].slot = conn[d].slot
                           /\ conn'[d].gateway = conn[d].gateway
                           /\ conn[d].gateway # g => conn'[d].phase = conn[d].phase
      BY <2>7, <1>T, CrashEffect
    <3> QED BY <3>1, <3>2, <2>K
  <2>8. ASSUME NEW c \in Conns, PacketLogin(c)
        PROVE  \E d \in Conns : conn'[d].slot = s /\ Found(conn'[d].phase)
                                /\ conn'[d].gateway = location'[s]
    <3>1. location' = location /\ stale' = stale /\ ~Found(conn[c].phase)
      BY <2>8 DEF PacketLogin, faultVars
    <3> QED BY <2>8, <3>1, <1>T, <1>1, <2>K, PacketEffect
  <2>9. ASSUME NEW c \in Conns, Abandon(c)
        PROVE  \E d \in Conns : conn'[d].slot = s /\ Found(conn'[d].phase)
                                /\ conn'[d].gateway = location'[s]
    <3>1. location' = location /\ stale' = stale
      BY <2>9 DEF Abandon, faultVars
    <3>2. /\ conn'[c].phase = "abandoned"
          /\ \A d \in Conns : /\ conn'[d].slot = conn[d].slot
                              /\ conn'[d].gateway = conn[d].gateway
                              /\ d # c => conn'[d].phase = conn[d].phase
      BY <2>9, <1>T, PhaseEffect DEF Abandon, Phases
    <3> QED BY <3>1, <3>2, <1>1, <2>K
  <2> QED BY <2>1, <2>2, <2>3, <2>4, <2>5, <2>6, <2>7, <2>8, <2>9
          DEF Next, CrashGateway, Subscribe, LoseSubscriber, faultVars, tokens, history,
              LoginStep, BeginLogin, CheckLocation, KickLocation, CheckToken, KickToken,
              StoreToken, Expire, Logout, KickLeaver, LogoutAll, ExpireTokens, vars
<1> QED BY <1>1 DEF LocationHasSession, Of

(* As long as Redis answers, a location names a gateway where the user has *)
(* a session of that device, however logins, upgrades, kicks, bad packets  *)
(* and ends of sessions interleave.                                        *)
THEOREM LocationsHaveSessions ==
    ASSUME ~RedisFails
    PROVE  Spec => []LocationHasSession
<1>1. Init => LocationHasSession
  BY DEF Init, LocationHasSession
<1>2. PresenceTypeOK /\ LocationHasSession /\ [Next]_vars => LocationHasSession'
  BY LocationNext
<1> QED BY <1>1, <1>2, TypeCorrect, PTL DEF Spec

-------------------------------------------------------------------------------
(* What stays                                                              *)

(* A call keeps its slot and what it saw when it began, a session its slot *)
(* and gateway and its kick, and its login unless a packet logs it in, and *)
(* logouts are only added.                                                 *)
LEMMA Lasting ==
    ASSUME PresenceTypeOK, [Next]_vars
    PROVE  /\ \A n \in Logins : login[n].pc # "unused" =>
                  /\ login'[n].pc # "unused" /\ login'[n].slot = login[n].slot
                  /\ login'[n].present = login[n].present
           /\ \A c \in Conns : conn[c].phase # "unused" =>
                  /\ conn'[c].phase # "unused" /\ conn'[c].slot = conn[c].slot
                  /\ conn'[c].gateway = conn[c].gateway
                  /\ conn'[c].login \in {conn[c].login, 0}
                  /\ conn[c].phase # "anonymous" => conn'[c].login = conn[c].login
                  /\ conn[c].kicked => conn'[c].kicked
           /\ \A s \in Slots : logouts[s] > 0 => logouts'[s] > 0
<1>T. /\ login \in [Logins -> LoginCalls] /\ conn \in [Conns -> Sessions]
      /\ kicks \in [Gateways -> Seq(Slots)] /\ logouts \in [Slots -> 0..MaxLogouts]
  BY DEF PresenceTypeOK
<1>L. ASSUME NEW n \in Logins, login[n].pc # "unused"
      PROVE  /\ login'[n].pc # "unused" /\ login'[n].slot = login[n].slot
             /\ login'[n].present = login[n].present
  <2>1. CASE login' = login
    BY <2>1, <1>L
  <2>2. ASSUME NEW m \in Logins, NEW slot \in Slots, NEW via \in Frontends,
               BeginLogin(m, slot, via)
        PROVE  login'[n] = login[n]
    BY <2>2, <1>T, <1>L, BeginEffect
  <2>3. ASSUME NEW m \in Logins, LoginStep(m)
        PROVE  \E pc \in LoginSteps \ {"unused"} : Goto(m, pc)
    BY <2>3 DEF LoginStep, CheckLocation, KickLocation, CheckToken, KickToken, StoreToken,
                Expire,
                LoginSteps
  <2>4. ASSUME NEW m \in Logins, NEW pc \in LoginSteps \ {"unused"}, Goto(m, pc)
        PROVE  /\ login'[n].pc # "unused" /\ login'[n].slot = login[n].slot
               /\ login'[n].present = login[n].present
    BY <2>4, <1>T, <1>L, GotoEffect
  <2> QED BY <2>1, <2>2, <2>3, <2>4, <1>L
          DEF Next, CrashGateway, Subscribe, LoseSubscriber, faultVars, tokens, history,
              Logout, KickLeaver, LogoutAll, ExpireTokens, Upgrade, UpgradeAnonymous, Join,
              PacketLogin, Locate,
              Unlocate, Leave, Abandon, ReceiveKick, vars
<1>C. ASSUME NEW c \in Conns, conn[c].phase # "unused"
      PROVE  /\ conn'[c].phase # "unused" /\ conn'[c].slot = conn[c].slot
             /\ conn'[c].gateway = conn[c].gateway
             /\ conn'[c].login \in {conn[c].login, 0}
             /\ conn[c].phase # "anonymous" => conn'[c].login = conn[c].login
             /\ conn[c].kicked => conn'[c].kicked
  <2>1. CASE conn' = conn
    BY <2>1, <1>C
  <2>2. ASSUME NEW d \in Conns, conn[d].phase = "unused",
               \A e \in Conns : e # d => conn'[e] = conn[e]
        PROVE  conn'[c] = conn[c]
    BY <2>2, <1>C
  <2>3. ASSUME NEW d \in Conns, NEW phase \in Phases \ {"unused"}, Phase(d, phase)
        PROVE  /\ conn'[c].phase # "unused" /\ conn'[c].slot = conn[c].slot
               /\ conn'[c].gateway = conn[c].gateway /\ conn'[c].login = conn[c].login
               /\ conn[c].kicked => conn'[c].kicked
    BY <2>3, <1>T, <1>C, PhaseEffect
  <2>4. ASSUME NEW d \in Conns,
               \/ \E n \in Logins, g \in Gateways : Upgrade(d, n, g)
               \/ \E user \in Users, g \in Gateways : UpgradeAnonymous(d, user, g)
        PROVE  conn[d].phase = "unused" /\ \A e \in Conns : e # d => conn'[e] = conn[e]
    BY <2>4, <1>T DEF Upgrade, UpgradeAnonymous, Open
  <2>5. ASSUME NEW d \in Conns,
               Join(d) \/ Locate(d) \/ Unlocate(d) \/ Leave(d) \/ Abandon(d)
        PROVE  \E phase \in Phases \ {"unused"} : Phase(d, phase)
    BY <2>5 DEF Join, PacketLogin, Locate, Unlocate, Leave, Abandon, Phases
  <2>6. ASSUME NEW g \in Gateways, ReceiveKick(g)
        PROVE  /\ conn'[c].phase # "unused" /\ conn'[c].slot = conn[c].slot
               /\ conn'[c].gateway = conn[c].gateway /\ conn'[c].login = conn[c].login
               /\ conn[c].kicked => conn'[c].kicked
    BY <2>6, <1>T, <1>C, ReceiveEffect
  <2>10. ASSUME NEW g \in Gateways, CrashGateway(g)
        PROVE  /\ conn'[c].phase # "unused" /\ conn'[c].slot = conn[c].slot
               /\ conn'[c].gateway = conn[c].gateway /\ conn'[c].login = conn[c].login
               /\ conn[c].kicked => conn'[c].kicked
    BY <2>10, <1>T, <1>C, CrashEffect
  <2>7. \/ conn' = conn
        \/ \E d \in Conns : \/ \E n \in Logins, g \in Gateways : Upgrade(d, n, g)
                            \/ \E user \in Users, g \in Gateways : UpgradeAnonymous(d, user, g)
        \/ \E d \in Conns : Join(d) \/ Locate(d) \/ Unlocate(d) \/ Leave(d) \/ Abandon(d)
        \/ \E d \in Conns : PacketLogin(d)
        \/ \E g \in Gateways : ReceiveKick(g) \/ CrashGateway(g)
    BY DEF Next, Subscribe, LoseSubscriber, faultVars, tokens, history,
           BeginLogin, LoginStep, CheckLocation, KickLocation, CheckToken, KickToken,
           StoreToken, Expire, Logout, KickLeaver, LogoutAll, ExpireTokens, vars
  <2>8. CASE \E d \in Conns : \/ \E n \in Logins, g \in Gateways : Upgrade(d, n, g)
                              \/ \E user \in Users, g \in Gateways : UpgradeAnonymous(d, user, g)
    BY <2>8, <2>2, <2>4, <1>C
  <2>9. CASE \E d \in Conns : Join(d) \/ Locate(d) \/ Unlocate(d) \/ Leave(d) \/ Abandon(d)
    BY <2>9, <2>3, <2>5
  <2>11. ASSUME NEW d \in Conns, PacketLogin(d)
        PROVE  /\ conn'[c].phase # "unused" /\ conn'[c].slot = conn[c].slot
               /\ conn'[c].gateway = conn[c].gateway
               /\ conn'[c].login \in {conn[c].login, 0}
               /\ conn[c].phase # "anonymous" => conn'[c].login = conn[c].login
               /\ conn[c].kicked => conn'[c].kicked
    <3>1. CASE c = d
      BY <2>11, <3>1, <1>T, PacketEffect
    <3>2. CASE c # d
      BY <2>11, <3>2, <1>T, <1>C, PacketEffect
    <3> QED BY <3>1, <3>2
  <2> QED BY <2>1, <2>6, <2>7, <2>8, <2>9, <2>10, <2>11
<1>O. ASSUME NEW s \in Slots, logouts[s] > 0 PROVE logouts'[s] > 0
  <2>1. ASSUME NEW slot \in Slots, Logout(slot) PROVE logouts'[s] > 0
    BY <2>1, <1>T, <1>O, BoundsAssumption DEF Logout
  <2> QED BY <2>1, <1>O
          DEF Next, CrashGateway, Subscribe, LoseSubscriber, faultVars, tokens, history,
              BeginLogin, LoginStep, CheckLocation, KickLocation, CheckToken, KickToken,
              StoreToken, Expire, KickLeaver, LogoutAll, ExpireTokens, Upgrade,
              UpgradeAnonymous, Join, PacketLogin, Locate,
              Unlocate, Leave, Abandon, ReceiveKick, vars
<1> QED BY <1>L, <1>C, <1>O

(* A call that has stored its token has done so for good.                  *)
Stored == {"expire", "storeAgain", "done"}

LEMMA StoredLasts ==
    ASSUME PresenceTypeOK, [Next]_vars, NEW n \in Logins
    PROVE  /\ login[n].pc \in Stored => login'[n].pc \in Stored
           /\ login[n].pc = "done" => login'[n].pc = "done"
<1>T. login \in [Logins -> LoginCalls]
  BY DEF PresenceTypeOK
<1>1. CASE login' = login
  BY <1>1
<1>2. ASSUME NEW m \in Logins, NEW slot \in Slots, NEW via \in Frontends,
             BeginLogin(m, slot, via), login[n].pc \in Stored
      PROVE  login'[n] = login[n]
  BY <1>2, <1>T, BeginEffect DEF Stored
<1>3. ASSUME NEW m \in Logins, LoginStep(m)
      PROVE  /\ login[m].pc # "done"
             /\ \E pc \in LoginSteps : Goto(m, pc) /\ (login[m].pc \in Stored => pc \in Stored)
  BY <1>3 DEF LoginStep, CheckLocation, KickLocation, CheckToken, KickToken, StoreToken, Expire,
              LoginSteps, At, Stored
<1>4. ASSUME NEW m \in Logins, LoginStep(m)
      PROVE  /\ login[n].pc \in Stored => login'[n].pc \in Stored
             /\ login[n].pc = "done" => login'[n].pc = "done"
  BY <1>3, <1>4, <1>T, GotoEffect
<1> QED BY <1>1, <1>2, <1>4
        DEF Stored, Next, CrashGateway, Subscribe, LoseSubscriber, faultVars, tokens, history,
            Logout, KickLeaver, LogoutAll, ExpireTokens, Upgrade, UpgradeAnonymous, Join,
            PacketLogin, Locate,
            Unlocate, Leave, Abandon, ReceiveKick, vars

-------------------------------------------------------------------------------
(* Only conflicts kick                                                     *)

(* Login n has a rival for the slot: another login, or a session that is   *)
(* of another login.                                                       *)
Rival(s, n) ==
    \/ \E m \in Logins : m # n /\ login[m].pc # "unused" /\ login[m].slot = s
    \/ \E d \in Conns : conn[d].phase # "unused" /\ conn[d].slot = s /\ conn[d].login # n

(* Why sessions of a slot may be kicked *)
Justified(s) ==
    \/ logouts[s] > 0
    \/ \E n \in Logins : login[n].pc # "unused" /\ login[n].slot = s /\ Rival(s, n)

LEMMA RivalLasts ==
    ASSUME PresenceTypeOK, [Next]_vars, NEW s \in Slots
    PROVE  /\ \A n \in Logins : Rival(s, n) => Rival(s, n)'
           /\ Justified(s) => Justified(s)'
<1>1. ASSUME NEW n \in Logins, Rival(s, n) PROVE Rival(s, n)'
  BY <1>1, Lasting, BoundsAssumption DEF Rival, Logins
<1> QED BY <1>1, Lasting DEF Justified

(* The reasons behind what is stored, about to be published, and pending   *)
SessionsAreOfDone ==
    \A c \in Conns : conn[c].phase # "unused" =>
        \A n \in Logins : conn[c].login = n => login[n].pc = "done"
LocationsAreOfSessions ==
    \A s \in Slots : location[s] # Nowhere =>
        \E d \in Conns : conn[d].phase # "unused" /\ conn[d].slot = s
TokensAreStored ==
    \A s \in Slots, n \in Logins : token[s] = n =>
        login[n].pc \in Stored /\ login[n].slot = s
KicksHaveRivals ==
    \A n \in Logins, s \in Slots :
        login[n].pc \in {"kickLocation", "kickToken"} /\ login[n].slot = s => Rival(s, n)
LeaversLoggedOut == \A s \in leaving : logouts[s] > 0
PendingJustified == \A s \in Slots, g \in Gateways : Pending(s, g) => Justified(s)
KickedJustified ==
    \A c \in Conns, s \in Slots : conn[c].kicked /\ conn[c].slot = s =>
        conn[c].phase # "unused" /\ Justified(s)

Reasons ==
    /\ PresenceTypeOK
    /\ SessionsAreOfDone /\ LocationsAreOfSessions /\ TokensAreStored
    /\ KicksHaveRivals /\ LeaversLoggedOut /\ PendingJustified /\ KickedJustified

LEMMA SessionsAreOfDoneNext == Reasons /\ [Next]_vars => SessionsAreOfDone'
<1> SUFFICES ASSUME Reasons, [Next]_vars, NEW c \in Conns, conn'[c].phase # "unused",
                    NEW n \in Logins, conn'[c].login = n
             PROVE  login'[n].pc = "done"
  BY DEF SessionsAreOfDone
<1>T. PresenceTypeOK /\ conn \in [Conns -> Sessions] /\ login \in [Logins -> LoginCalls]
  BY DEF Reasons, PresenceTypeOK
<1>1. CASE conn[c].phase # "unused"
  <2>1. conn[c].login = n
    BY <1>1, <1>T, Lasting, BoundsAssumption DEF Logins
  <2> QED BY <1>1, <1>T, <2>1, StoredLasts DEF Reasons, SessionsAreOfDone
<1>2. CASE conn[c].phase = "unused"
  <2>1. \A d \in Conns, phase \in Phases : Phase(d, phase) /\ conn[d].phase # "unused" =>
            conn'[c].phase = "unused"
    BY <1>2, <1>T, PhaseEffect
  <2>2. \A g \in Gateways : ReceiveKick(g) => conn'[c].phase = "unused"
    BY <1>2, <1>T, ReceiveEffect DEF PresenceTypeOK
  <2>8. \A g \in Gateways : CrashGateway(g) => conn'[c].phase = "unused"
    BY <1>2, <1>T, CrashEffect DEF PresenceTypeOK
  <2>3. \A d \in Conns : Join(d) \/ Locate(d) \/ Unlocate(d) \/ Leave(d) \/ Abandon(d) =>
            conn'[c].phase = "unused"
    BY <2>1 DEF Join, Locate, Unlocate, Leave, Abandon, Phases
  <2>9. \A d \in Conns : PacketLogin(d) => conn'[c].phase = "unused"
    BY <1>2, <1>T, PacketEffect
  <2>4. PICK d \in Conns : \/ \E m \in Logins, g \in Gateways : Upgrade(d, m, g)
                           \/ \E user \in Users, g \in Gateways : UpgradeAnonymous(d, user, g)
    BY <1>2, <2>2, <2>3, <2>8, <2>9
       DEF Next, Subscribe, LoseSubscriber, faultVars, tokens, history,
           BeginLogin, LoginStep, CheckLocation, KickLocation, CheckToken, KickToken,
           StoreToken, Expire, Logout, KickLeaver, LogoutAll, ExpireTokens, vars
  <2>5. c = d
    BY <1>2, <2>4, <1>T DEF Upgrade, UpgradeAnonymous, Open
  <2>6. ASSUME NEW user \in Users, NEW g \in Gateways, UpgradeAnonymous(c, user, g)
        PROVE  FALSE
    <3>1. conn'[c].login = 0
      BY <2>6, <1>T DEF UpgradeAnonymous, Open
    <3> QED BY <3>1, BoundsAssumption DEF Logins
  <2>7. ASSUME NEW m \in Logins, NEW g \in Gateways, Upgrade(c, m, g)
        PROVE  conn'[c].login = m /\ login[m].pc = "done" /\ login' = login
    BY <2>7, <1>T DEF Upgrade, Open, At
  <2> QED BY <2>4, <2>5, <2>6, <2>7
<1> QED BY <1>1, <1>2

LEMMA LocationsAreOfSessionsNext == Reasons /\ [Next]_vars => LocationsAreOfSessions'
<1> SUFFICES ASSUME Reasons, [Next]_vars, NEW s \in Slots, location'[s] # Nowhere
             PROVE  \E d \in Conns : conn'[d].phase # "unused" /\ conn'[d].slot = s
  BY DEF LocationsAreOfSessions
<1>T. /\ PresenceTypeOK /\ conn \in [Conns -> Sessions]
      /\ location \in [Slots -> Gateways \cup {Nowhere}]
      /\ \A c \in Conns : conn[c].slot \in Slots /\ conn[c].gateway \in Gateways
  BY DEF Reasons, PresenceTypeOK, Sessions
<1>1. CASE location[s] # Nowhere
  BY <1>1, <1>T, Lasting DEF Reasons, LocationsAreOfSessions
<1>2. ASSUME NEW c \in Conns, Locate(c), location[s] = Nowhere
      PROVE  conn[c].phase # "unused" /\ conn[c].slot = s
  BY <1>2, <1>T, LocationEffect DEF Locate
<1>3. ASSUME NEW c \in Conns, Unlocate(c) PROVE location'[s] \in {location[s], Nowhere}
  BY <1>3, <1>T, LocationEffect DEF Unlocate
<1> QED BY <1>1, <1>2, <1>3, <1>T, Lasting
        DEF Next, CrashGateway, Subscribe, LoseSubscriber, faultVars, tokens, history,
            BeginLogin, LoginStep, CheckLocation, KickLocation, CheckToken, KickToken,
            StoreToken, Expire, Logout, KickLeaver, LogoutAll, ExpireTokens, Upgrade,
            UpgradeAnonymous, Join, PacketLogin, Leave,
            Abandon, ReceiveKick, vars

LEMMA TokensAreStoredNext == Reasons /\ [Next]_vars => TokensAreStored'
<1> SUFFICES ASSUME Reasons, [Next]_vars, NEW s \in Slots, NEW n \in Logins, token'[s] = n
             PROVE  login'[n].pc \in Stored /\ login'[n].slot = s
  BY DEF TokensAreStored
<1>T. /\ PresenceTypeOK /\ login \in [Logins -> LoginCalls] /\ token \in [Slots -> Tokens]
      /\ n # 0 /\ n \in Tokens /\ 0 \in Tokens
      /\ \A m \in Logins : login[m].slot \in Slots /\ m \in Tokens
  BY BoundsAssumption DEF Reasons, PresenceTypeOK, Logins, Tokens, LoginCalls
<1>1. CASE token[s] = n
  <2>1. login[n].pc \in Stored /\ login[n].slot = s
    BY <1>1 DEF Reasons, TokensAreStored
  <2> QED BY <2>1, <1>T, StoredLasts, Lasting DEF Stored
<1>2. ASSUME NEW m \in Logins, StoreToken(m), token[s] # n
      PROVE  login'[n].pc \in Stored /\ login'[n].slot = s
  <2>1. m = n /\ login[n].slot = s
    BY <1>2, <1>T, TokenEffect DEF StoreToken, Expire
  <2>2. Goto(n, "expire") \/ Goto(n, "done")
    BY <1>2, <2>1 DEF StoreToken
  <2> QED BY <1>T, <2>1, <2>2, GotoEffect DEF LoginSteps, Stored
<1>3. ASSUME NEW slot \in Slots, Logout(slot) PROVE token'[s] \in {token[s], 0}
  BY <1>3, <1>T, TokenEffect DEF Logout
<1>4. ASSUME NEW user \in Users, LogoutAll(user) \/ ExpireTokens(user)
      PROVE  token'[s] \in {token[s], 0}
  BY <1>4, <1>T, DropEffect DEF LogoutAll, ExpireTokens
<1> QED BY <1>1, <1>2, <1>3, <1>4, <1>T
        DEF Expire, Next, CrashGateway, Subscribe, LoseSubscriber, faultVars, tokens, history,
            BeginLogin, LoginStep, CheckLocation, KickLocation, CheckToken, KickToken,
            KickLeaver, Upgrade, UpgradeAnonymous, Join, PacketLogin, Locate, Unlocate, Leave,
            Abandon,
            ReceiveKick, vars

LEMMA KicksHaveRivalsNext == Reasons /\ [Next]_vars => KicksHaveRivals'
<1> SUFFICES ASSUME Reasons, [Next]_vars, NEW n \in Logins, NEW s \in Slots,
                    login'[n].pc \in {"kickLocation", "kickToken"}, login'[n].slot = s
             PROVE  Rival(s, n)'
  BY DEF KicksHaveRivals
<1>T. /\ PresenceTypeOK /\ login \in [Logins -> LoginCalls] /\ token \in [Slots -> Tokens]
      /\ location \in [Slots -> Gateways \cup {Nowhere}]
  BY DEF Reasons, PresenceTypeOK
<1>1. CASE login[n].pc \in {"kickLocation", "kickToken"}
  <2>1. login[n].slot = s
    BY <1>1, <1>T, Lasting
  <2> QED BY <1>1, <1>T, <2>1, RivalLasts DEF Reasons, KicksHaveRivals
<1>2. CASE login[n].pc \notin {"kickLocation", "kickToken"}
  <2>1. ASSUME NEW m \in Logins, NEW slot \in Slots, NEW via \in Frontends,
               BeginLogin(m, slot, via)
        PROVE  FALSE
    BY <1>2, <2>1, <1>T, BeginEffect
  <2>2. ASSUME NEW m \in Logins, LoginStep(m)
        PROVE  m = n /\ (CheckLocation(n) \/ CheckToken(n)) /\ login[n].slot = s
    <3>1. \E pc \in LoginSteps : Goto(m, pc) /\ (pc \in {"kickLocation", "kickToken"} =>
                                                 CheckLocation(m) \/ CheckToken(m))
      BY <2>2 DEF LoginStep, CheckLocation, KickLocation, CheckToken, KickToken, StoreToken,
                  Expire,
                  LoginSteps
    <3> QED BY <3>1, <1>2, <1>T, GotoEffect
  <2>3. /\ CheckLocation(n) \/ CheckToken(n)
        /\ login[n].slot = s
    BY <1>2, <2>1, <2>2
       DEF Next, CrashGateway, Subscribe, LoseSubscriber, faultVars, tokens, history,
           Logout, KickLeaver, LogoutAll, ExpireTokens, Upgrade, UpgradeAnonymous, Join,
           PacketLogin, Locate,
           Unlocate, Leave, Abandon, ReceiveKick, vars
  <2>4. CASE CheckLocation(n)
    <3>1. location[s] # Nowhere
      <4>1. \E a \in {location[s], Nowhere} :
                Goto(n, IF a # Nowhere THEN "kickLocation" ELSE "token")
        BY <2>3, <2>4 DEF CheckLocation, Got
      <4>2. Goto(n, "token") => FALSE
        BY <1>T, GotoEffect DEF LoginSteps
      <4> QED BY <4>1, <4>2
    <3>2. PICK d \in Conns : conn[d].phase # "unused" /\ conn[d].slot = s
      BY <3>1 DEF Reasons, LocationsAreOfSessions
    <3>3. conn[d].login # n
      BY <2>4, <3>2 DEF Reasons, SessionsAreOfDone, CheckLocation, At
    <3>4. Rival(s, n)
      BY <3>2, <3>3 DEF Rival
    <3> QED BY <3>4, <1>T, RivalLasts
  <2>5. CASE CheckToken(n)
    <3>1. token[s] # 0
      <4>1. \E t \in {token[s], 0} : Goto(n, IF t # 0 THEN "kickToken" ELSE "store")
        BY <2>3, <2>5 DEF CheckToken, Got
      <4>2. Goto(n, "store") => FALSE
        BY <1>T, GotoEffect DEF LoginSteps
      <4> QED BY <4>1, <4>2
    <3>2. PICK m \in Logins : token[s] = m
      BY <3>1, <1>T, BoundsAssumption DEF Tokens, Logins
    <3>3. m # n /\ login[m].pc # "unused" /\ login[m].slot = s
      BY <2>5, <3>2 DEF Reasons, TokensAreStored, CheckToken, At, Stored
    <3>4. Rival(s, n)
      BY <3>3 DEF Rival
    <3> QED BY <3>4, <1>T, RivalLasts
  <2> QED BY <2>3, <2>4, <2>5
<1> QED BY <1>1, <1>2

LEMMA KicksJustifiedNext ==
    Reasons /\ [Next]_vars => (LeaversLoggedOut /\ PendingJustified /\ KickedJustified)'
<1> SUFFICES ASSUME Reasons, [Next]_vars
             PROVE  (LeaversLoggedOut /\ PendingJustified /\ KickedJustified)'
  OBVIOUS
<1>T. /\ PresenceTypeOK /\ kicks \in [Gateways -> Seq(Slots)] /\ conn \in [Conns -> Sessions]
      /\ leaving \subseteq Slots /\ logouts \in [Slots -> 0..MaxLogouts]
      /\ \A n \in Logins : login[n].slot \in Slots
      /\ \A c \in Conns : conn[c].slot \in Slots
  BY DEF Reasons, PresenceTypeOK, LoginCalls, Sessions
<1>1. ASSUME NEW s \in leaving' PROVE logouts'[s] > 0
  <2>1. ASSUME NEW slot \in Slots, Logout(slot), s \notin leaving PROVE logouts'[s] > 0
    BY <1>1, <2>1, <1>T, BoundsAssumption DEF Logout
  <2>2. CASE s \in leaving
    BY <2>2, <1>T, Lasting DEF Reasons, LeaversLoggedOut
  <2> QED BY <1>1, <2>1, <2>2
          DEF Next, CrashGateway, Subscribe, LoseSubscriber, faultVars, tokens, history,
              BeginLogin, LoginStep, CheckLocation, KickLocation, CheckToken, KickToken,
              StoreToken, Expire, KickLeaver, LogoutAll, ExpireTokens, Upgrade,
              UpgradeAnonymous, Join, PacketLogin, Locate,
              Unlocate, Leave, Abandon, ReceiveKick, vars
<1>2. ASSUME NEW s \in Slots, NEW g \in Gateways, Pending(s, g)' PROVE Justified(s)
  <2>1. CASE Pending(s, g)
    BY <2>1 DEF Reasons, PendingJustified
  <2>2. ASSUME NEW slot \in Slots, Publish(slot), ~Pending(s, g) PROVE s = slot
    BY <1>2, <2>2, <1>T, PublishEffect
  <2>3. ASSUME NEW n \in Logins, KickLocation(n) \/ KickToken(n), ~Pending(s, g)
        PROVE  Justified(s)
    <3>1. login[n].slot = s /\ login[n].pc \in {"kickLocation", "kickToken"}
      BY <2>2, <2>3, <1>T DEF KickLocation, KickToken, At
    <3> QED BY <3>1 DEF Reasons, KicksHaveRivals, Justified
  <2>4. ASSUME NEW slot \in Slots, KickLeaver(slot), ~Pending(s, g) PROVE Justified(s)
    BY <2>2, <2>4 DEF KickLeaver, Reasons, LeaversLoggedOut, Justified
  <2>5. ASSUME NEW h \in Gateways, ReceiveKick(h) PROVE Pending(s, g)
    BY <1>2, <2>5, <1>T, ReceiveEffect
  <2>6. ASSUME kicks' = kicks PROVE Pending(s, g)
    BY <1>2, <2>6 DEF Pending
  <2>7. ASSUME NEW h \in Gateways, CrashGateway(h) \/ LoseSubscriber(h) PROVE Pending(s, g)
    BY <1>2, <2>7, <1>T, CrashEffect, LoseEffect
  <2> QED BY <2>1, <2>3, <2>4, <2>5, <2>6, <2>7
          DEF Next, Subscribe, faultVars, tokens, history,
              BeginLogin, LoginStep, CheckLocation, CheckToken, StoreToken, Expire, Logout,
              LogoutAll, ExpireTokens, Upgrade, UpgradeAnonymous, Join, PacketLogin, Locate,
              Unlocate, Leave, Abandon, vars
<1>3. ASSUME NEW c \in Conns, NEW s \in Slots, conn'[c].kicked, conn'[c].slot = s
      PROVE  conn[c].phase # "unused" /\ conn[c].slot = s /\ Justified(s)
  <2>1. CASE conn[c].kicked
    <3>1. conn[c].phase # "unused"
      BY <2>1, <1>T DEF Reasons, KickedJustified
    <3> QED BY <1>3, <2>1, <3>1, <1>T, Lasting DEF Reasons, KickedJustified
  <2>2. CASE ~conn[c].kicked
    <3>1. ASSUME NEW d \in Conns, NEW phase \in Phases, Phase(d, phase) PROVE FALSE
      BY <1>3, <2>2, <3>1, <1>T, PhaseEffect
    <3>2. ASSUME NEW d \in Conns, \/ \E n \in Logins, g \in Gateways : Upgrade(d, n, g)
                                  \/ \E user \in Users, g \in Gateways :
                                         UpgradeAnonymous(d, user, g)
          PROVE  FALSE
      <4>1. conn'[d].kicked = FALSE /\ (c # d => conn'[c] = conn[c])
        BY <3>2, <1>T DEF Upgrade, UpgradeAnonymous, Open
      <4> QED BY <1>3, <2>2, <4>1
    <3>3. ASSUME NEW d \in Conns,
                 Join(d) \/ Locate(d) \/ Unlocate(d) \/ Leave(d) \/ Abandon(d)
          PROVE  FALSE
      BY <3>1, <3>3 DEF Join, PacketLogin, Locate, Unlocate, Leave, Abandon, Phases
    <3>4. CASE conn' = conn
      BY <1>3, <2>2, <3>4
    <3>5. ASSUME NEW g \in Gateways, ReceiveKick(g)
          PROVE  conn[c].phase # "unused" /\ conn[c].slot = s /\ Justified(s)
      <4>1. conn'[c].kicked = (conn[c].kicked \/ (InUsers(c) /\ conn[c].gateway = g
                                                  /\ conn[c].slot = Head(kicks[g])))
        BY <3>5, <1>T, ReceiveEffect
      <4>2. InUsers(c) /\ conn[c].slot = Head(kicks[g])
        BY <1>3, <2>2, <4>1
      <4>3. conn[c].slot = s /\ Pending(Head(kicks[g]), g)
        BY <1>3, <3>5, <1>T, ReceiveEffect
      <4>4. Pending(s, g)
        BY <4>2, <4>3
      <4> QED BY <4>2, <4>3, <4>4 DEF InUsers, Reasons, PendingJustified
    <3>6. ASSUME NEW g \in Gateways, CrashGateway(g) PROVE FALSE
      BY <1>3, <2>2, <3>6, <1>T, CrashEffect
    <3>7. ASSUME NEW d \in Conns, PacketLogin(d) PROVE FALSE
      BY <1>3, <2>2, <3>7, <1>T, PacketEffect
    <3> QED BY <3>2, <3>3, <3>4, <3>5, <3>6, <3>7
            DEF Next, Subscribe, LoseSubscriber, faultVars, tokens, history,
                BeginLogin, LoginStep, CheckLocation, KickLocation, CheckToken,
                KickToken, StoreToken, Expire, Logout, KickLeaver, LogoutAll, ExpireTokens, vars
  <2> QED BY <2>1, <2>2
<1>4. PendingJustified'
  BY <1>2, <1>T, RivalLasts DEF PendingJustified
<1>5. KickedJustified'
  BY <1>3, <1>T, RivalLasts, Lasting DEF KickedJustified
<1> QED BY <1>1, <1>4, <1>5 DEF LeaversLoggedOut

LEMMA ReasonsInit == Init => Reasons
<1> SUFFICES ASSUME Init PROVE Reasons
  OBVIOUS
<1>1. \A s \in Slots, g \in Gateways : ~Pending(s, g)
  BY DEF Init, Pending
<1>2. \A n \in Logins : n # 0
  BY BoundsAssumption DEF Logins
<1>3. SessionsAreOfDone /\ LocationsAreOfSessions /\ TokensAreStored
  BY <1>2 DEF Init, SessionsAreOfDone, LocationsAreOfSessions, TokensAreStored
<1>4. KicksHaveRivals /\ LeaversLoggedOut /\ KickedJustified
  BY DEF Init, KicksHaveRivals, LeaversLoggedOut, KickedJustified
<1> QED BY <1>1, <1>3, <1>4, TypesInit DEF Reasons, PendingJustified

LEMMA ReasonsImply == Reasons => OnlyConflictsKick
<1> SUFFICES ASSUME Reasons, NEW c \in Conns, conn[c].kicked
             PROVE  \/ logouts[conn[c].slot] > 0
                    \/ \E n \in Logins \ {conn[c].login} :
                           ~At(n, "unused") /\ login[n].slot = conn[c].slot
                    \/ \E d \in Of(conn[c].slot) \ {c} : conn[d].phase # "unused"
  BY DEF OnlyConflictsKick
<1>1. conn[c].slot \in Slots
  BY DEF Reasons, PresenceTypeOK, Sessions
<1>2. Justified(conn[c].slot)
  BY <1>1 DEF Reasons, KickedJustified
<1>3. ASSUME NEW n \in Logins, login[n].pc # "unused", login[n].slot = conn[c].slot,
             Rival(conn[c].slot, n), n = conn[c].login
      PROVE  \/ \E m \in Logins \ {conn[c].login} :
                    ~At(m, "unused") /\ login[m].slot = conn[c].slot
             \/ \E d \in Of(conn[c].slot) \ {c} : conn[d].phase # "unused"
  BY <1>3 DEF Rival, At, Of
<1> QED BY <1>2, <1>3 DEF Justified, At

(* Whatever interleaves and whatever Redis refuses, only another login, a  *)
(* session of another login or a logout, each of the same user on the same *)
(* device, gets a session kicked.                                          *)
THEOREM ConflictsKick == Spec => []OnlyConflictsKick
<1>1. Reasons /\ [Next]_vars => Reasons'
  BY TypesNext, SessionsAreOfDoneNext, LocationsAreOfSessionsNext, TokensAreStoredNext,
     KicksHaveRivalsNext, KicksJustifiedNext DEF Reasons
<1> QED BY <1>1, ReasonsInit, ReasonsImply, PTL DEF Spec

-------------------------------------------------------------------------------
(* How phases, tokens and locations change                                 *)

Past == {"located", "unlocated", "abandoned", "gone"}

LEMMA PhaseSteps ==
    ASSUME PresenceTypeOK, [Next]_vars, NEW c \in Conns
    PROVE  /\ conn'[c].phase = "located" => conn[c].phase = "located" \/ Locate(c)
           /\ conn'[c].phase = "joined" =>
                  conn[c].phase = "joined" \/ Join(c) \/ PacketLogin(c)
           /\ conn'[c].phase = "accepted" =>
                  conn[c].phase = "accepted" \/ \E n \in Logins, g \in Gateways : Upgrade(c, n, g)
           /\ conn[c].phase \in Past => conn'[c].phase \in Past
<1> DEFINE Goal ==
             /\ conn'[c].phase = "located" => conn[c].phase = "located" \/ Locate(c)
             /\ conn'[c].phase = "joined" =>
                    conn[c].phase = "joined" \/ Join(c) \/ PacketLogin(c)
             /\ conn'[c].phase = "accepted" =>
                    conn[c].phase = "accepted"
                    \/ \E n \in Logins, g \in Gateways : Upgrade(c, n, g)
             /\ conn[c].phase \in Past => conn'[c].phase \in Past
<1>T. conn \in [Conns -> Sessions] /\ kicks \in [Gateways -> Seq(Slots)]
  BY DEF PresenceTypeOK
<1>1. ASSUME conn'[c].phase = conn[c].phase PROVE Goal
  BY <1>1
<1>2. ASSUME NEW d \in Conns, Join(d) \/ Locate(d) \/ Unlocate(d) \/ Leave(d) \/ Abandon(d)
      PROVE  Goal
  <2>1. \E phase \in Phases : Phase(d, phase)
    BY <1>2 DEF Join, Locate, Unlocate, Leave, Abandon, Phases
  <2>2. CASE d # c
    BY <1>1, <2>1, <2>2, <1>T, PhaseEffect
  <2>3. CASE d = c /\ Join(c)
    <3>1. conn[c].phase = "accepted" /\ conn'[c].phase = "joined"
      BY <2>3, <1>T, PhaseEffect DEF Join, Phases
    <3> QED BY <2>3, <3>1 DEF Past
  <2>4. CASE d = c /\ Locate(c)
    <3>1. conn[c].phase = "joined" /\ conn'[c].phase = "located"
      BY <2>4, <1>T, PhaseEffect DEF Locate, Phases
    <3> QED BY <2>4, <3>1 DEF Past
  <2>5. CASE d = c /\ (Unlocate(c) \/ Leave(c) \/ Abandon(c))
    <3>1. conn'[c].phase \in {"unlocated", "gone", "abandoned"}
      BY <2>5, <1>T, PhaseEffect DEF Unlocate, Leave, Abandon, Phases
    <3> QED BY <3>1 DEF Past
  <2> QED BY <1>2, <2>2, <2>3, <2>4, <2>5
<1>3. ASSUME NEW d \in Conns, NEW n \in Logins, NEW g \in Gateways, Upgrade(d, n, g)
      PROVE  Goal
  <2>1. conn[d].phase = "unused" /\ conn'[d].phase \in {"accepted", "anonymous"}
        /\ \A e \in Conns : e # d => conn'[e] = conn[e]
    BY <1>3, <1>T DEF Upgrade, Open
  <2> QED BY <1>1, <1>3, <2>1 DEF Past
<1>7. ASSUME NEW d \in Conns, NEW user \in Users, NEW g \in Gateways,
             UpgradeAnonymous(d, user, g)
      PROVE  Goal
  <2>1. conn[d].phase = "unused" /\ conn'[d].phase = "anonymous"
        /\ \A e \in Conns : e # d => conn'[e] = conn[e]
    BY <1>7, <1>T DEF UpgradeAnonymous, Open
  <2> QED BY <1>1, <1>7, <2>1 DEF Past
<1>8. ASSUME NEW d \in Conns, PacketLogin(d) PROVE Goal
  <2>1. CASE d = c
    <3>1. conn[c].phase = "anonymous" /\ conn'[c].phase = "joined"
      BY <1>8, <2>1, <1>T, PacketEffect
    <3> QED BY <1>8, <2>1, <3>1 DEF Past
  <2>2. CASE d # c
    BY <1>1, <1>8, <2>2, <1>T, PacketEffect
  <2> QED BY <2>1, <2>2
<1>4. ASSUME NEW g \in Gateways, ReceiveKick(g) PROVE Goal
  BY <1>1, <1>4, <1>T, ReceiveEffect
<1>5. CASE conn' = conn
  BY <1>1, <1>5
<1>6. ASSUME NEW g \in Gateways, CrashGateway(g) PROVE Goal
  <2>1. conn'[c].phase = conn[c].phase \/ conn'[c].phase = "gone"
    BY <1>6, <1>T, CrashEffect
  <2>2. ASSUME conn'[c].phase = "gone" PROVE Goal
    BY <2>2 DEF Past
  <2> QED BY <1>1, <2>1, <2>2
<1> HIDE DEF Goal
<1> QED BY <1>2, <1>3, <1>4, <1>5, <1>6, <1>7, <1>8
        DEF Goal, Next, Subscribe, LoseSubscriber, BeginLogin, LoginStep, CheckLocation,
            KickLocation, CheckToken, KickToken, StoreToken, Expire, Logout, KickLeaver,
            LogoutAll, ExpireTokens, vars

LEMMA TokenSteps ==
    ASSUME PresenceTypeOK, [Next]_vars, ~RedisFails, NEW s \in Slots
    PROVE  \/ token'[s] = token[s]
           \/ \E n \in Logins : StoreToken(n) /\ login[n].slot = s /\ token'[s] = n
           \/ token'[s] = 0 /\ \/ Logout(s)
                               \/ \E user \in Users : /\ LogoutAll(user) \/ ExpireTokens(user)
                                                      /\ s[1] = user
<1>T. /\ token \in [Slots -> Tokens]
      /\ \A n \in Logins : login[n].slot \in Slots /\ n \in Tokens
      /\ 0 \in Tokens
  BY BoundsAssumption DEF PresenceTypeOK, LoginCalls, Logins, Tokens
<1>1. ASSUME NEW n \in Logins, StoreToken(n)
      PROVE  token'[s] = token[s] \/ (login[n].slot = s /\ token'[s] = n)
  BY <1>1, <1>T, TokenEffect DEF StoreToken
<1>2. ASSUME NEW slot \in Slots, Logout(slot)
      PROVE  token'[s] = token[s] \/ (slot = s /\ token'[s] = 0)
  BY <1>2, <1>T, TokenEffect DEF Logout
<1>3. ASSUME NEW user \in Users, LogoutAll(user) \/ ExpireTokens(user)
      PROVE  token'[s] = token[s] \/ (s[1] = user /\ token'[s] = 0)
  BY <1>3, <1>T, DropEffect DEF LogoutAll, ExpireTokens
<1> QED BY <1>1, <1>2, <1>3
        DEF Next, vars, tokens, LoginStep, BeginLogin, CheckLocation, KickLocation, CheckToken,
            KickToken, Expire, KickLeaver, Upgrade, UpgradeAnonymous, Join, PacketLogin, Locate,
            Unlocate, Leave, Abandon, ReceiveKick, CrashGateway, Subscribe, LoseSubscriber

LEMMA LocationSteps ==
    ASSUME PresenceTypeOK, [Next]_vars, ~RedisFails, NEW s \in Slots
    PROVE  \/ location'[s] = location[s]
           \/ location'[s] \in Gateways
           \/ \E d \in Conns : Unlocate(d) /\ conn[d].slot = s
<1>T. /\ location \in [Slots -> Gateways \cup {Nowhere}]
      /\ \A c \in Conns : conn[c].slot \in Slots /\ conn[c].gateway \in Gateways
  BY DEF PresenceTypeOK, Sessions
<1>1. ASSUME NEW d \in Conns, Locate(d)
      PROVE  location'[s] = location[s] \/ location'[s] \in Gateways
  BY <1>1, <1>T, LocationEffect DEF Locate
<1>2. ASSUME NEW d \in Conns, Unlocate(d)
      PROVE  location'[s] = location[s] \/ conn[d].slot = s
  BY <1>2, <1>T, LocationEffect DEF Unlocate
<1> QED BY <1>1, <1>2
        DEF Next, vars, LoginStep, BeginLogin, CheckLocation, KickLocation, CheckToken,
            KickToken, StoreToken, Expire, Logout, LogoutAll, ExpireTokens, KickLeaver, Upgrade,
            UpgradeAnonymous, Join, PacketLogin, Leave, Abandon, ReceiveKick, CrashGateway,
            Subscribe, LoseSubscriber

(* A kick of the slot is on its way to the gateway, or the gateway missed  *)
(* one.                                                                    *)
Threatened(s, g) == Pending(s, g) \/ s \in leaving \/ g \in missed

(* A session whose kick is on its way is kicked or ends.                   *)
LEMMA ThreatLasts ==
    ASSUME PresenceTypeOK, [Next]_vars, ~RedisFails,
           NEW c \in Conns, NEW s \in Slots, NEW g \in Gateways,
           Live(c), conn[c].slot = s, conn[c].gateway = g, Live(c)',
           conn[c].kicked \/ Threatened(s, g)
    PROVE  conn'[c].kicked \/ Threatened(s, g)'
<1>T. conn \in [Conns -> Sessions] /\ kicks \in [Gateways -> Seq(Slots)]
      /\ \A n \in Logins : login[n].slot \in Slots
  BY DEF PresenceTypeOK, LoginCalls
<1>C. ASSUME NEW h \in Gateways, CrashGateway(h) PROVE h # g
  BY <1>C, <1>T, CrashEffect DEF Live
<1>1. CASE conn[c].kicked
  <2>1. conn[c].phase # "unused"
    BY DEF Live
  <2> QED BY <1>1, <2>1, Lasting
<1>2. CASE Pending(s, g)
  <2>1. ASSUME kicks' = kicks PROVE Pending(s, g)'
    BY <1>2, <2>1 DEF Pending
  <2>2. ASSUME NEW slot \in Slots, Publish(slot) PROVE Pending(s, g)'
    BY <1>2, <2>2, <1>T, PublishEffect
  <2>3. ASSUME NEW h \in Gateways, ReceiveKick(h) PROVE conn'[c].kicked \/ Pending(s, g)'
    <3>1. Pending(s, g)' \/ (h = g /\ s = Head(kicks[g]))
      BY <1>2, <2>3, <1>T, ReceiveEffect
    <3>2. ASSUME h = g, s = Head(kicks[g]) PROVE conn'[c].kicked
      <4>1. conn'[c].kicked = (conn[c].kicked \/ (InUsers(c) /\ conn[c].gateway = h
                                                  /\ conn[c].slot = Head(kicks[h])))
        BY <2>3, <1>T, ReceiveEffect
      <4>2. InUsers(c) /\ conn[c].gateway = h /\ conn[c].slot = Head(kicks[h])
        BY <3>2 DEF InUsers, Live
      <4> QED BY <4>1, <4>2
    <3> QED BY <3>1, <3>2
  <2>4. ASSUME NEW h \in Gateways, CrashGateway(h) PROVE Pending(s, g)'
    BY <1>2, <1>C, <2>4, <1>T, CrashEffect
  <2>5. ASSUME NEW h \in Gateways, LoseSubscriber(h) PROVE Pending(s, g)' \/ g \in missed'
    BY <1>2, <2>5, <1>T, LoseEffect
  <2> QED BY <2>1, <2>2, <2>3, <2>4, <2>5, <1>T
          DEF Threatened, Next, Subscribe,
              BeginLogin, LoginStep, CheckLocation, KickLocation, CheckToken,
              KickToken, StoreToken, Expire, Logout, KickLeaver, LogoutAll, ExpireTokens,
              Upgrade, UpgradeAnonymous, Join, PacketLogin, Locate, Unlocate, Leave, Abandon,
              vars
<1>3. CASE s \in leaving
  <2>1. ASSUME NEW slot \in Slots, KickLeaver(slot) PROVE Threatened(s, g)'
    <3>1. CASE slot = s
      BY <2>1, <3>1, <1>T, PublishEffect DEF KickLeaver, Threatened
    <3>2. CASE slot # s
      BY <1>3, <2>1, <3>2 DEF KickLeaver, Threatened
    <3> QED BY <3>1, <3>2
  <2> QED BY <1>3, <2>1
          DEF Threatened, Next, CrashGateway, Subscribe, LoseSubscriber,
              BeginLogin, LoginStep, CheckLocation, KickLocation, CheckToken,
              KickToken, StoreToken, Expire, Logout, LogoutAll, ExpireTokens, Upgrade,
              UpgradeAnonymous, Join, PacketLogin, Locate, Unlocate, Leave, Abandon,
              ReceiveKick, vars
<1>4. CASE g \in missed
  <2>1. ASSUME NEW slot \in Slots, Publish(slot) PROVE g \in missed'
    BY <1>4, <2>1 DEF Publish
  <2>2. ASSUME NEW h \in Gateways, CrashGateway(h) PROVE g \in missed'
    BY <1>4, <1>C, <2>2 DEF CrashGateway
  <2>3. ASSUME NEW h \in Gateways, LoseSubscriber(h) PROVE g \in missed'
    BY <1>4, <2>3 DEF LoseSubscriber
  <2> QED BY <1>4, <2>1, <2>2, <2>3, <1>T
          DEF Threatened, Next, Subscribe, faultVars, BeginLogin, LoginStep, CheckLocation,
              KickLocation, CheckToken, KickToken, StoreToken, Expire, Logout, KickLeaver,
              LogoutAll, ExpireTokens, Upgrade, UpgradeAnonymous, Join, PacketLogin, Locate,
              Unlocate, Leave, Abandon, ReceiveKick, vars
<1> QED BY <1>1, <1>2, <1>3, <1>4 DEF Threatened

(* How a login comes past its checks                                       *)
LocationPassed == LoginSteps \ {"unused", "location", "kickLocation"}
TokenPassed == {"store", "expire", "storeAgain", "done"}

LEMMA CheckSteps ==
    ASSUME PresenceTypeOK, [Next]_vars, ~RedisFails, NEW n \in Logins
    PROVE  /\ login'[n].pc \in LocationPassed =>
                  \/ login[n].pc \in LocationPassed
                  \/ CheckLocation(n) /\ location[login[n].slot] = Nowhere
                  \/ KickLocation(n)
           /\ login'[n].pc \in TokenPassed =>
                  \/ login[n].pc \in TokenPassed
                  \/ CheckToken(n) /\ token[login[n].slot] = 0
                  \/ KickToken(n)
           /\ login[n].pc \in TokenPassed => login'[n].pc \in TokenPassed
           /\ login[n].pc \in LocationPassed => login'[n].pc \in LocationPassed
<1> DEFINE Goal ==
             /\ login'[n].pc \in LocationPassed =>
                    \/ login[n].pc \in LocationPassed
                    \/ CheckLocation(n) /\ location[login[n].slot] = Nowhere
                    \/ KickLocation(n)
             /\ login'[n].pc \in TokenPassed =>
                    \/ login[n].pc \in TokenPassed
                    \/ CheckToken(n) /\ token[login[n].slot] = 0
                    \/ KickToken(n)
             /\ login[n].pc \in TokenPassed => login'[n].pc \in TokenPassed
             /\ login[n].pc \in LocationPassed => login'[n].pc \in LocationPassed
<1>T. login \in [Logins -> LoginCalls]
  BY DEF PresenceTypeOK
<1>0. ASSUME login'[n].pc = login[n].pc PROVE Goal
  BY <1>0
<1>1. ASSUME NEW m \in Logins, NEW slot \in Slots, NEW via \in Frontends,
             BeginLogin(m, slot, via)
      PROVE  Goal
  <2>1. CASE m = n
    <3>1. login[n].pc = "unused" /\ login'[n].pc = "location"
      BY <1>1, <2>1, <1>T, BeginEffect
    <3> QED BY <3>1 DEF LocationPassed, TokenPassed
  <2>2. CASE m # n
    BY <1>0, <1>1, <2>2, <1>T, BeginEffect
  <2> QED BY <2>1, <2>2
<1>2. ASSUME NEW m \in Logins, LoginStep(m), m # n PROVE Goal
  <2>1. \E pc \in LoginSteps : Goto(m, pc)
    BY <1>2 DEF LoginStep, CheckLocation, KickLocation, CheckToken, KickToken, StoreToken,
                Expire, LoginSteps
  <2> QED BY <1>0, <1>2, <2>1, <1>T, GotoEffect
<1>3. CASE CheckLocation(n)
  <2>1. /\ login[n].pc = "location"
        /\ Goto(n, IF location[login[n].slot] # Nowhere THEN "kickLocation" ELSE "token")
    BY <1>3 DEF CheckLocation, Got, At
  <2>2. login'[n].pc = IF location[login[n].slot] # Nowhere THEN "kickLocation" ELSE "token"
    BY <2>1, <1>T, GotoEffect DEF LoginSteps
  <2> QED BY <1>3, <2>1, <2>2 DEF LocationPassed, TokenPassed
<1>4. CASE KickLocation(n)
  <2>1. login[n].pc = "kickLocation" /\ login'[n].pc = "token"
    BY <1>4, <1>T, GotoEffect DEF KickLocation, At, LoginSteps
  <2> QED BY <1>4, <2>1 DEF LocationPassed, TokenPassed
<1>5. CASE CheckToken(n)
  <2>1. /\ login[n].pc = "token"
        /\ Goto(n, IF token[login[n].slot] # 0 THEN "kickToken" ELSE "store")
    BY <1>5 DEF CheckToken, Got, At
  <2>2. login'[n].pc = IF token[login[n].slot] # 0 THEN "kickToken" ELSE "store"
    BY <2>1, <1>T, GotoEffect DEF LoginSteps
  <2> QED BY <1>5, <2>1, <2>2 DEF LocationPassed, TokenPassed, LoginSteps
<1>6. CASE KickToken(n)
  <2>1. login[n].pc = "kickToken" /\ login'[n].pc = "store"
    BY <1>6, <1>T, GotoEffect DEF KickToken, At, LoginSteps
  <2> QED BY <1>6, <2>1 DEF LocationPassed, TokenPassed, LoginSteps
<1>7. CASE StoreToken(n) \/ Expire(n)
  <2>1. login[n].pc \in TokenPassed /\ \E pc \in TokenPassed : Goto(n, pc)
    BY <1>7 DEF StoreToken, Expire, At, TokenPassed
  <2>2. login'[n].pc \in TokenPassed
    BY <2>1, <1>T, GotoEffect DEF TokenPassed, LoginSteps
  <2> QED BY <2>1, <2>2 DEF LocationPassed, TokenPassed, LoginSteps
<1>8. CASE login' = login
  BY <1>0, <1>8
<1> HIDE DEF Goal
<1> QED BY <1>1, <1>2, <1>3, <1>4, <1>5, <1>6, <1>7, <1>8
        DEF Goal, Next, CrashGateway, Subscribe, LoseSubscriber, LoginStep, Logout, KickLeaver,
            LogoutAll, ExpireTokens, Upgrade, UpgradeAnonymous, Join, PacketLogin, Locate,
            Unlocate, Leave, Abandon, ReceiveKick, vars

-------------------------------------------------------------------------------
(* Kicks reach the sessions that were there                                *)

(***************************************************************************)
(* An accepted session has a token, or is marked as lapsed; one that can   *)
(* be found has a token, is marked, or its kick is on its way; a located   *)
(* one has a location or is marked as hidden.  So a login that has passed  *)
(* the check of the location has kicked those with a location, and one     *)
(* that has passed both checks those that had either.                      *)
(***************************************************************************)
AcceptedKnown ==
    \A c \in Conns, s \in Slots : conn[c].phase = "accepted" /\ conn[c].slot = s =>
        token[s] # 0 \/ c \in lapsed
LiveKnown ==
    \A c \in Conns, s \in Slots, g \in Gateways :
        Live(c) /\ conn[c].slot = s /\ conn[c].gateway = g =>
            token[s] # 0 \/ c \in lapsed \/ conn[c].kicked \/ Threatened(s, g)
LocatedListed ==
    \A c \in Conns, s \in Slots :
        conn[c].phase = "located" /\ conn[c].slot = s /\ location[s] = Nowhere => c \in hidden
PresentWere ==
    \A n \in Logins, c \in Conns : login[n].pc # "unused" /\ c \in login[n].present =>
        conn[c].slot = login[n].slot /\ conn[c].phase \in Past
LocationChecked ==
    \A n \in Logins, c \in Conns, s \in Slots, g \in Gateways :
        /\ login[n].pc \in LocationPassed /\ c \in login[n].present
        /\ conn[c].phase = "located" /\ conn[c].slot = s /\ conn[c].gateway = g
        => c \in hidden \/ conn[c].kicked \/ Threatened(s, g)
KicksSent ==
    \A n \in Logins, c \in Conns, s \in Slots, g \in Gateways :
        /\ login[n].pc \in TokenPassed /\ c \in login[n].present
        /\ conn[c].phase = "located" /\ conn[c].slot = s /\ conn[c].gateway = g
        => c \in Forgotten \/ conn[c].kicked \/ Threatened(s, g)

Reaching ==
    /\ PresenceTypeOK
    /\ AcceptedKnown /\ LiveKnown /\ LocatedListed
    /\ PresentWere /\ LocationChecked /\ KicksSent

LEMMA AcceptedKnownNext ==
    ASSUME ~RedisFails, Reaching, [Next]_vars
    PROVE  AcceptedKnown'
<1> SUFFICES ASSUME NEW c \in Conns, NEW s \in Slots, conn'[c].phase = "accepted",
                    conn'[c].slot = s, c \notin lapsed'
             PROVE  token'[s] # 0
  BY DEF AcceptedKnown
<1>T. /\ PresenceTypeOK /\ conn \in [Conns -> Sessions]
      /\ \A n \in Logins : n # 0
      /\ c \notin lapsed
  BY BoundsAssumption, HistoryGrows DEF Reaching, PresenceTypeOK, Logins
<1>1. CASE conn[c].phase = "accepted"
  <2>1. conn[c].slot = s
    BY <1>1, <1>T, Lasting
  <2>2. token[s] # 0
    BY <1>1, <1>T, <2>1 DEF Reaching, AcceptedKnown
  <2>3. ~Logout(s)
    BY <1>1, <2>1 DEF Logout, Of
  <2>4. ASSUME NEW user \in Users, LogoutAll(user) \/ ExpireTokens(user), s[1] = user
        PROVE  FALSE
    BY <1>1, <2>1, <2>4 DEF LogoutAll, ExpireTokens, GoingOn, Upgrading
  <2> QED BY <2>2, <2>3, <2>4, <1>T, TokenSteps
<1>2. ASSUME NEW n \in Logins, NEW g \in Gateways, Upgrade(c, n, g)
      PROVE  token'[s] # 0
  <2>1. Open(c, IF token[login[n].slot] = n THEN "accepted" ELSE "anonymous",
             login[n].slot, g, n)
    BY <1>2 DEF Upgrade, Got
  <2>2. /\ conn'[c].phase = IF token[login[n].slot] = n THEN "accepted" ELSE "anonymous"
        /\ conn'[c].slot = login[n].slot
    BY <2>1, <1>T DEF Open
  <2>3. token[s] = n
    BY <2>2
  <2> QED BY <1>2, <1>T, <2>3 DEF Upgrade, tokens
<1> QED BY <1>1, <1>2, <1>T, PhaseSteps

LEMMA LiveKnownNext ==
    ASSUME ~RedisFails, Reaching, [Next]_vars
    PROVE  LiveKnown'
<1> SUFFICES ASSUME NEW c \in Conns, NEW s \in Slots, NEW g \in Gateways,
                    Live(c)', conn'[c].slot = s, conn'[c].gateway = g,
                    token'[s] = 0, c \notin lapsed'
             PROVE  conn'[c].kicked \/ Threatened(s, g)'
  BY DEF LiveKnown
<1>T. /\ PresenceTypeOK /\ conn \in [Conns -> Sessions]
      /\ \A n \in Logins : n # 0
      /\ c \notin lapsed
  BY BoundsAssumption, HistoryGrows DEF Reaching, PresenceTypeOK, Logins
<1>1. CASE Live(c)
  <2>1. conn[c].slot = s /\ conn[c].gateway = g
    BY <1>1, <1>T, Lasting DEF Live
  <2>2. CASE token[s] = 0
    <3>1. conn[c].kicked \/ Threatened(s, g)
      BY <1>1, <1>T, <2>1, <2>2 DEF Reaching, LiveKnown
    <3> QED BY <1>1, <1>T, <2>1, <3>1, ThreatLasts
  <2>3. CASE token[s] # 0
    <3>1. ASSUME NEW user \in Users, LogoutAll(user) \/ ExpireTokens(user), s[1] = user
          PROVE  FALSE
      BY <1>1, <2>1, <3>1 DEF LogoutAll, ExpireTokens, GoingOn, Upgrading, Live
    <3>2. Logout(s)
      BY <2>3, <3>1, <1>T, TokenSteps
    <3> QED BY <3>2 DEF Logout, Threatened
  <2> QED BY <2>2, <2>3
<1>2. CASE Join(c)
  <2>1. conn[c].phase = "accepted" /\ token' = token
    BY <1>2 DEF Join, tokens
  <2>2. conn[c].slot = s
    BY <2>1, <1>T, Lasting
  <2> QED BY <1>T, <2>1, <2>2 DEF Reaching, AcceptedKnown
<1>3. CASE PacketLogin(c)
  BY <1>3, <1>T, PacketEffect
<1>4. ~Live(c) => Join(c) \/ PacketLogin(c)
  BY <1>T, PhaseSteps DEF Live, Locate
<1> QED BY <1>1, <1>2, <1>3, <1>4

LEMMA LocatedListedNext ==
    ASSUME ~RedisFails, Reaching, [Next]_vars
    PROVE  LocatedListed'
<1> SUFFICES ASSUME NEW c \in Conns, NEW s \in Slots, conn'[c].phase = "located",
                    conn'[c].slot = s, location'[s] = Nowhere
             PROVE  c \in hidden'
  BY DEF LocatedListed
<1>T. /\ PresenceTypeOK /\ conn \in [Conns -> Sessions] /\ hidden \subseteq hidden'
      /\ location \in [Slots -> Gateways \cup {Nowhere}]
      /\ \A d \in Conns : conn[d].slot \in Slots /\ conn[d].gateway \in Gateways
  BY HistoryGrows DEF Reaching, PresenceTypeOK, Sessions
<1>1. CASE conn[c].phase = "located"
  <2>1. conn[c].slot = s
    BY <1>1, <1>T, Lasting
  <2>2. CASE location'[s] = location[s]
    BY <1>1, <1>T, <2>1, <2>2 DEF Reaching, LocatedListed
  <2>3. ASSUME NEW d \in Conns, Unlocate(d), conn[d].slot = s PROVE c \in hidden'
    <3>1. c # d
      BY <2>3, <1>T, PhaseEffect DEF Unlocate, Phases
    <3> QED BY <1>1, <2>1, <2>3, <3>1 DEF Unlocate, Of
  <2> QED BY <2>2, <2>3, <1>T, LocationSteps, NowhereAssumption
<1>2. CASE Locate(c)
  <2>1. conn[c].slot = s
    BY <1>2, <1>T, PhaseEffect DEF Locate, Phases
  <2>2. location'[s] = conn[c].gateway
    BY <1>2, <1>T, <2>1, LocationEffect DEF Locate
  <2> QED BY <1>T, <2>2, NowhereAssumption
<1> QED BY <1>1, <1>2, <1>T, PhaseSteps

LEMMA PresentWereNext ==
    ASSUME Reaching, [Next]_vars
    PROVE  PresentWere'
<1> SUFFICES ASSUME NEW n \in Logins, NEW c \in Conns, login'[n].pc # "unused",
                    c \in login'[n].present
             PROVE  conn'[c].slot = login'[n].slot /\ conn'[c].phase \in Past
  BY DEF PresentWere
<1>T. PresenceTypeOK /\ login \in [Logins -> LoginCalls]
  BY DEF Reaching, PresenceTypeOK
<1>1. CASE login[n].pc # "unused"
  <2>1. c \in login[n].present /\ login'[n].slot = login[n].slot
    BY <1>1, <1>T, Lasting
  <2>2. conn[c].slot = login[n].slot /\ conn[c].phase \in Past
    BY <1>1, <2>1 DEF Reaching, PresentWere
  <2> QED BY <1>T, <2>1, <2>2, PhaseSteps, Lasting DEF Past
<1>2. CASE login[n].pc = "unused"
  <2>1. ASSUME NEW m \in Logins, LoginStep(m) PROVE FALSE
    <3>1. login[m].pc # "unused" /\ \E pc \in LoginSteps : Goto(m, pc)
      BY <2>1 DEF LoginStep, CheckLocation, KickLocation, CheckToken, KickToken, StoreToken,
                  Expire, LoginSteps, At
    <3> QED BY <1>2, <3>1, <1>T, GotoEffect
  <2>2. PICK m \in Logins, slot \in Slots, via \in Frontends : BeginLogin(m, slot, via)
    BY <1>2, <2>1
       DEF Next, CrashGateway, Subscribe, LoseSubscriber,
           Logout, KickLeaver, LogoutAll, ExpireTokens, Upgrade, UpgradeAnonymous, Join,
           PacketLogin, Locate, Unlocate, Leave, Abandon, ReceiveKick, vars
  <2>3. m = n
    BY <1>2, <2>2, <1>T, BeginEffect
  <2>4. /\ login'[n].slot = slot
        /\ login'[n].present = {d \in Of(slot) : conn[d].phase = "located"}
    BY <2>2, <2>3, <1>T, BeginEffect
  <2>5. conn' = conn
    BY <2>2 DEF BeginLogin
  <2> QED BY <2>4, <2>5 DEF Of, Past
<1> QED BY <1>1, <1>2

(* A session that was there and goes on was located all the time.          *)
LEMMA PresentStays ==
    ASSUME Reaching, [Next]_vars, NEW n \in Logins, NEW c \in Conns, NEW s \in Slots,
           NEW g \in Gateways, login[n].pc # "unused", c \in login'[n].present,
           conn'[c].phase = "located", conn'[c].slot = s, conn'[c].gateway = g
    PROVE  /\ c \in login[n].present /\ login[n].slot = s
           /\ conn[c].phase = "located" /\ conn[c].slot = s /\ conn[c].gateway = g
           /\ Live(c) /\ Live(c)'
<1>T. PresenceTypeOK
  BY DEF Reaching
<1>1. c \in login[n].present
  BY <1>T, Lasting
<1>2. conn[c].slot = login[n].slot /\ conn[c].phase \in Past
  BY <1>1 DEF Reaching, PresentWere
<1>3. conn[c].phase = "located"
  BY <1>2, <1>T, PhaseSteps DEF Locate, Past
<1>4. conn[c].slot = s /\ conn[c].gateway = g
  BY <1>3, <1>T, Lasting
<1> QED BY <1>1, <1>2, <1>3, <1>4 DEF Live

LEMMA LocationCheckedNext ==
    ASSUME ~RedisFails, Reaching, [Next]_vars
    PROVE  LocationChecked'
<1> SUFFICES ASSUME NEW n \in Logins, NEW c \in Conns, NEW s \in Slots, NEW g \in Gateways,
                    login'[n].pc \in LocationPassed, c \in login'[n].present,
                    conn'[c].phase = "located", conn'[c].slot = s, conn'[c].gateway = g
             PROVE  c \in hidden' \/ conn'[c].kicked \/ Threatened(s, g)'
  BY DEF LocationChecked
<1>T. PresenceTypeOK /\ kicks \in [Gateways -> Seq(Slots)] /\ hidden \subseteq hidden'
  BY HistoryGrows DEF Reaching, PresenceTypeOK
<1>1. \/ login[n].pc \in LocationPassed
      \/ CheckLocation(n) /\ location[login[n].slot] = Nowhere
      \/ KickLocation(n)
  BY <1>T, CheckSteps
<1>2. login[n].pc # "unused"
  BY <1>1 DEF CheckLocation, KickLocation, At, LocationPassed
<1>3. /\ c \in login[n].present /\ login[n].slot = s
      /\ conn[c].phase = "located" /\ conn[c].slot = s /\ conn[c].gateway = g
      /\ Live(c) /\ Live(c)'
  BY <1>2, PresentStays
<1>4. CASE login[n].pc \in LocationPassed
  <2>1. c \in hidden \/ conn[c].kicked \/ Threatened(s, g)
    BY <1>3, <1>4 DEF Reaching, LocationChecked
  <2> QED BY <1>3, <1>T, <2>1, ThreatLasts
<1>5. CASE location[login[n].slot] = Nowhere
  BY <1>3, <1>5, <1>T DEF Reaching, LocatedListed
<1>6. CASE KickLocation(n)
  <2>1. Pending(s, g)' \/ g \in missed'
    BY <1>3, <1>6, <1>T, PublishEffect DEF KickLocation
  <2> QED BY <2>1 DEF Threatened
<1> QED BY <1>1, <1>4, <1>5, <1>6

LEMMA KicksSentNext ==
    ASSUME ~RedisFails, Reaching, [Next]_vars
    PROVE  KicksSent'
<1> SUFFICES ASSUME NEW n \in Logins, NEW c \in Conns, NEW s \in Slots, NEW g \in Gateways,
                    login'[n].pc \in TokenPassed, c \in login'[n].present,
                    conn'[c].phase = "located", conn'[c].slot = s, conn'[c].gateway = g
             PROVE  c \in Forgotten' \/ conn'[c].kicked \/ Threatened(s, g)'
  BY DEF KicksSent
<1>T. /\ PresenceTypeOK /\ kicks \in [Gateways -> Seq(Slots)]
      /\ hidden \subseteq hidden' /\ lapsed \subseteq lapsed'
  BY HistoryGrows DEF Reaching, PresenceTypeOK
<1>1. \/ login[n].pc \in TokenPassed
      \/ CheckToken(n) /\ token[login[n].slot] = 0
      \/ KickToken(n)
  BY <1>T, CheckSteps
<1>2. login[n].pc # "unused"
  BY <1>1 DEF CheckToken, KickToken, At, TokenPassed
<1>3. /\ c \in login[n].present /\ login[n].slot = s
      /\ conn[c].phase = "located" /\ conn[c].slot = s /\ conn[c].gateway = g
      /\ Live(c) /\ Live(c)'
  BY <1>2, PresentStays
<1>6. ASSUME c \in Forgotten \/ conn[c].kicked \/ Threatened(s, g)
      PROVE  c \in Forgotten' \/ conn'[c].kicked \/ Threatened(s, g)'
  <2>1. CASE c \in Forgotten
    BY <2>1, <1>T DEF Forgotten
  <2>2. CASE conn[c].kicked \/ Threatened(s, g)
    BY <1>3, <1>T, <2>2, ThreatLasts
  <2> QED BY <1>6, <2>1, <2>2
<1>7. CASE login[n].pc \in TokenPassed
  BY <1>3, <1>6, <1>7 DEF Reaching, KicksSent
<1>8. CASE CheckToken(n) /\ token[login[n].slot] = 0
  <2>1. c \in lapsed \/ conn[c].kicked \/ Threatened(s, g)
    BY <1>3, <1>8 DEF Reaching, LiveKnown
  <2>2. login[n].pc \in LocationPassed
    BY <1>8 DEF CheckToken, At, LocationPassed, LoginSteps
  <2>3. c \in hidden \/ conn[c].kicked \/ Threatened(s, g)
    BY <1>3, <2>2 DEF Reaching, LocationChecked
  <2> QED BY <1>6, <2>1, <2>3 DEF Forgotten
<1>9. CASE KickToken(n)
  <2>1. Pending(s, g)' \/ g \in missed'
    BY <1>3, <1>9, <1>T, PublishEffect DEF KickToken
  <2> QED BY <2>1 DEF Threatened
<1> QED BY <1>1, <1>7, <1>8, <1>9

LEMMA ReachingInit == Init => Reaching
<1> SUFFICES ASSUME Init PROVE Reaching
  OBVIOUS
<1>1. /\ \A c \in Conns : conn[c].phase = "unused"
      /\ \A n \in Logins : login[n].pc = "unused"
  BY DEF Init
<1>2. AcceptedKnown /\ LocatedListed /\ PresentWere
  BY <1>1 DEF AcceptedKnown, LocatedListed, PresentWere
<1>3. LocationChecked /\ KicksSent
  BY <1>1 DEF LocationChecked, KicksSent
<1>4. LiveKnown
  BY <1>1 DEF LiveKnown, Live
<1> QED BY <1>2, <1>3, <1>4, TypesInit DEF Reaching

LEMMA ReachingNext ==
    ASSUME ~RedisFails, Reaching, [Next]_vars
    PROVE  Reaching'
<1>1. PresenceTypeOK'
  BY TypesNext DEF Reaching
<1> QED BY <1>1, AcceptedKnownNext, LiveKnownNext, LocatedListedNext, PresentWereNext,
           LocationCheckedNext, KicksSentNext DEF Reaching

LEMMA ReachingImplies == Reaching => KickReachesPresent
<1> SUFFICES ASSUME Reaching, NEW n \in Logins,
                    login[n].pc \in {"store", "expire", "storeAgain", "done"},
                    NEW c \in login[n].present, c \notin Forgotten,
                    conn[c].phase = "located", ~conn[c].kicked
             PROVE  \/ Pending(conn[c].slot, conn[c].gateway) \/ conn[c].slot \in leaving
                    \/ conn[c].gateway \in missed
  BY DEF KickReachesPresent
<1>1. c \in Conns /\ conn[c].slot \in Slots /\ conn[c].gateway \in Gateways
  BY DEF Reaching, PresenceTypeOK, LoginCalls, Sessions
<1>2. Threatened(conn[c].slot, conn[c].gateway)
  BY <1>1 DEF Reaching, KicksSent, TokenPassed
<1> QED BY <1>2 DEF Threatened

(* If Redis answers, a login that has made its checks has every session of *)
(* its slot that was there when it began kicked, or its kick is on the     *)
(* way, unless another session's end deleted the location and the token    *)
(* had expired, was logged out or was never stored, or the gateway's       *)
(* subscriber missed a kick.  Logins over the connection, overlapping      *)
(* calls of a user, logouts, crashes and lost subscribers are included.    *)
THEOREM KicksReach ==
    ASSUME ~RedisFails
    PROVE  Spec => []KickReachesPresent
<1>1. Reaching /\ [Next]_vars => Reaching'
  BY ReachingNext
<1> QED BY <1>1, ReachingInit, ReachingImplies, PTL DEF Spec

-------------------------------------------------------------------------------
(* One login remains                                                       *)

Shown(c) == conn[c].login # 0 /\ c \notin raced         \* showed a token, undisturbed
Going(c) == Upgrading(c) \/ conn[c].phase = "located"
Doomed(c, s, g) == c \in Forgotten \/ conn[c].kicked \/ Threatened(s, g)

(***************************************************************************)
(* No login of its slot is under way while a session that showed a token   *)
(* undisturbed is set up, so it has the current token then, and any login  *)
(* that begins later finds it.  It keeps the current token, or is doomed,  *)
(* and of two of different logins the older one is doomed.                 *)
(***************************************************************************)
UpgradesAlone ==
    \A c \in Conns, n \in Logins :
        Upgrading(c) /\ Shown(c) /\ InLogin(n) => login[n].slot # conn[c].slot
UpgradesCurrent ==
    \A c \in Conns, s \in Slots : Upgrading(c) /\ Shown(c) /\ conn[c].slot = s =>
        token[s] \in {0, conn[c].login}
PresentAll ==
    \A n \in Logins, c \in Conns :
        InLogin(n) /\ conn[c].phase = "located" /\ Shown(c) /\ conn[c].slot = login[n].slot =>
            c \in login[n].present
LocatedCurrent ==
    \A c \in Conns, s \in Slots, g \in Gateways :
        conn[c].phase = "located" /\ Shown(c) /\ conn[c].slot = s /\ conn[c].gateway = g =>
            token[s] \in {0, conn[c].login} \/ Doomed(c, s, g)
OneGoesOn ==
    \A c, d \in Conns, s \in Slots, g, h \in Gateways :
        /\ Going(c) /\ Shown(c) /\ conn[c].slot = s /\ conn[c].gateway = g
        /\ Going(d) /\ Shown(d) /\ conn[d].slot = s /\ conn[d].gateway = h
        /\ conn[c].login # conn[d].login
        => \/ conn[c].phase = "located" /\ Doomed(c, s, g)
           \/ conn[d].phase = "located" /\ Doomed(d, s, h)

Current ==
    /\ Reaching
    /\ UpgradesAlone /\ UpgradesCurrent /\ PresentAll /\ LocatedCurrent /\ OneGoesOn

(* A call that goes on has begun.                                          *)
LEMMA LoginBegins ==
    ASSUME PresenceTypeOK, [Next]_vars, NEW n \in Logins, InLogin(n)'
    PROVE  \/ InLogin(n) /\ login'[n].slot = login[n].slot /\ login'[n].present = login[n].present
           \/ \E slot \in Slots, via \in Frontends : BeginLogin(n, slot, via)
<1>T. login \in [Logins -> LoginCalls]
  BY DEF PresenceTypeOK
<1>1. CASE InLogin(n)
  BY <1>1, Lasting DEF InLogin
<1>2. CASE ~InLogin(n)
  <2>1. ASSUME NEW m \in Logins, LoginStep(m) PROVE FALSE
    <3>1. InLogin(m) /\ \E pc \in LoginSteps : Goto(m, pc)
      BY <2>1 DEF LoginStep, CheckLocation, KickLocation, CheckToken, KickToken, StoreToken,
                  Expire, LoginSteps, At, InLogin
    <3> QED BY <1>2, <3>1, <1>T, GotoEffect DEF InLogin
  <2>2. PICK m \in Logins, slot \in Slots, via \in Frontends : BeginLogin(m, slot, via)
    BY <1>2, <2>1
       DEF Next, CrashGateway, Subscribe, LoseSubscriber,
           Logout, KickLeaver, LogoutAll, ExpireTokens, Upgrade, UpgradeAnonymous, Join,
           PacketLogin, Locate, Unlocate, Leave, Abandon, ReceiveKick, vars, InLogin
  <2>3. m = n
    BY <1>2, <2>2, <1>T, BeginEffect DEF InLogin
  <2> QED BY <2>2, <2>3
<1> QED BY <1>1, <1>2

(* How a session that showed a token undisturbed comes to go on            *)
LEMMA ShownSteps ==
    ASSUME PresenceTypeOK, [Next]_vars, NEW c \in Conns, Shown(c)', Going(c)'
    PROVE  /\ conn[c].phase # "unused" =>
                  /\ Shown(c) /\ Going(c) /\ conn'[c].login = conn[c].login
                  /\ conn'[c].slot = conn[c].slot /\ conn'[c].gateway = conn[c].gateway
                  /\ Upgrading(c)' => Upgrading(c)
                  /\ conn'[c].phase = "located" /\ conn[c].phase # "located" => Locate(c)
                  /\ conn[c].phase = "located" => conn'[c].phase = "located"
           /\ conn[c].phase = "unused" =>
                  /\ Upgrading(c)'
                  /\ \E n \in Logins, g \in Gateways : Upgrade(c, n, g)
<1>T. /\ conn \in [Conns -> Sessions] /\ raced \subseteq raced'
  BY HistoryGrows DEF PresenceTypeOK
<1>1. ~PacketLogin(c)
  BY <1>T, PacketEffect DEF Shown
<1>2. ASSUME NEW n \in Logins, NEW g \in Gateways, Upgrade(c, n, g)
      PROVE  conn[c].phase = "unused" /\ conn'[c].phase # "located"
  BY <1>2, <1>T DEF Upgrade, Open
<1>3. CASE conn[c].phase = "unused"
  <2>1. ~Locate(c) /\ ~Join(c)
    BY <1>3 DEF Locate, Join
  <2>2. conn'[c].phase = "accepted"
    BY <1>1, <1>3, <2>1, PhaseSteps DEF Going, Upgrading
  <2> QED BY <1>3, <2>2, PhaseSteps DEF Upgrading
<1>4. CASE conn[c].phase # "unused"
  <2>1. /\ conn'[c].slot = conn[c].slot /\ conn'[c].gateway = conn[c].gateway
        /\ conn'[c].login \in {conn[c].login, 0}
    BY <1>4, Lasting
  <2>2. Shown(c) /\ conn'[c].login = conn[c].login
    BY <1>T, <2>1 DEF Shown
  <2>3. conn'[c].phase = "accepted" => conn[c].phase = "accepted"
    BY <1>2, <1>4, PhaseSteps
  <2>4. conn'[c].phase = "joined" => conn[c].phase \in {"accepted", "joined"}
    BY <1>1, PhaseSteps DEF Join
  <2>5. conn'[c].phase = "located" => conn[c].phase = "located" \/ (Locate(c) /\ conn[c].phase = "joined")
    BY PhaseSteps DEF Locate
  <2>6. conn[c].phase = "located" => conn'[c].phase = "located"
    BY <2>3, <2>4 DEF Going, Upgrading
  <2> QED BY <1>4, <2>1, <2>2, <2>3, <2>4, <2>5, <2>6 DEF Going, Upgrading
<1> QED BY <1>3, <1>4

(* A new session that showed a token has the current one.                  *)
LEMMA UpgradeShown ==
    ASSUME ~RedisFails, PresenceTypeOK, NEW c \in Conns, NEW n \in Logins, NEW g \in Gateways,
           Upgrade(c, n, g), Shown(c)', Upgrading(c)'
    PROVE  /\ conn'[c].login = n /\ conn'[c].slot = login[n].slot
           /\ token[login[n].slot] = n /\ token' = token /\ login' = login
           /\ \A m \in Logins : InLogin(m) => login[m].slot # login[n].slot
           /\ \A d \in Conns : d # c => conn'[d] = conn[d]
<1>T. conn \in [Conns -> Sessions]
  BY DEF PresenceTypeOK
<1>1. Open(c, IF token[login[n].slot] = n THEN "accepted" ELSE "anonymous", login[n].slot, g, n)
  BY DEF Upgrade, Got
<1>2. /\ conn'[c].phase = IF token[login[n].slot] = n THEN "accepted" ELSE "anonymous"
      /\ conn'[c].slot = login[n].slot /\ conn'[c].login = n
      /\ \A d \in Conns : d # c => conn'[d] = conn[d]
  BY <1>1, <1>T DEF Open
<1>3. ~\E m \in Logins : InLogin(m) /\ login[m].slot = login[n].slot
  BY DEF Upgrade, Shown
<1> QED BY <1>2, <1>3 DEF Upgrade, tokens, Upgrading

LEMMA UpgradesAloneNext ==
    ASSUME ~RedisFails, Current, [Next]_vars
    PROVE  UpgradesAlone'
<1> SUFFICES ASSUME NEW c \in Conns, NEW n \in Logins, Upgrading(c)', Shown(c)', InLogin(n)',
                    login'[n].slot = conn'[c].slot
             PROVE  FALSE
  BY DEF UpgradesAlone
<1>T. PresenceTypeOK /\ login \in [Logins -> LoginCalls] /\ Going(c)'
  BY DEF Current, Reaching, PresenceTypeOK, Going
<1>1. CASE conn[c].phase # "unused"
  <2>1. Shown(c) /\ Upgrading(c) /\ conn'[c].slot = conn[c].slot
    BY <1>1, <1>T, ShownSteps
  <2>2. ASSUME NEW slot \in Slots, NEW via \in Frontends, BeginLogin(n, slot, via)
        PROVE  FALSE
    <3>1. login'[n].slot = slot
      BY <2>2, <1>T, BeginEffect
    <3>2. c \in raced'
      BY <2>1, <2>2, <3>1 DEF BeginLogin, Of
    <3> QED BY <3>2 DEF Shown
  <2>3. CASE InLogin(n) /\ login'[n].slot = login[n].slot
    BY <2>1, <2>3 DEF Current, UpgradesAlone
  <2> QED BY <1>T, <2>2, <2>3, LoginBegins
<1>2. CASE conn[c].phase = "unused"
  <2>1. PICK m \in Logins, g \in Gateways : Upgrade(c, m, g)
    BY <1>2, <1>T, ShownSteps
  <2> QED BY <1>T, <2>1, UpgradeShown DEF InLogin
<1> QED BY <1>1, <1>2

LEMMA UpgradesCurrentNext ==
    ASSUME ~RedisFails, Current, [Next]_vars
    PROVE  UpgradesCurrent'
<1> SUFFICES ASSUME NEW c \in Conns, NEW s \in Slots, Upgrading(c)', Shown(c)',
                    conn'[c].slot = s
             PROVE  token'[s] \in {0, conn'[c].login}
  BY DEF UpgradesCurrent
<1>T. PresenceTypeOK /\ Going(c)'
  BY DEF Current, Reaching, Going
<1>1. CASE conn[c].phase # "unused"
  <2>1. Shown(c) /\ Upgrading(c) /\ conn[c].slot = s /\ conn'[c].login = conn[c].login
    BY <1>1, <1>T, ShownSteps
  <2>2. token[s] \in {0, conn[c].login}
    BY <2>1 DEF Current, UpgradesCurrent
  <2>3. ASSUME NEW n \in Logins, StoreToken(n), login[n].slot = s PROVE FALSE
    <3>1. InLogin(n)
      BY <2>3 DEF StoreToken, InLogin
    <3> QED BY <2>1, <2>3, <3>1 DEF Current, UpgradesAlone
  <2> QED BY <2>1, <2>2, <2>3, <1>T, TokenSteps
<1>2. CASE conn[c].phase = "unused"
  <2>1. PICK m \in Logins, g \in Gateways : Upgrade(c, m, g)
    BY <1>2, <1>T, ShownSteps
  <2> QED BY <1>T, <2>1, UpgradeShown
<1> QED BY <1>1, <1>2

LEMMA PresentAllNext ==
    ASSUME ~RedisFails, Current, [Next]_vars
    PROVE  PresentAll'
<1> SUFFICES ASSUME NEW n \in Logins, NEW c \in Conns, InLogin(n)', conn'[c].phase = "located",
                    Shown(c)', conn'[c].slot = login'[n].slot
             PROVE  c \in login'[n].present
  BY DEF PresentAll
<1>T. PresenceTypeOK /\ login \in [Logins -> LoginCalls] /\ Going(c)'
  BY DEF Current, Reaching, PresenceTypeOK, Going
<1>1. conn[c].phase # "unused"
  BY <1>T, ShownSteps DEF Upgrading
<1>2. /\ Shown(c) /\ conn'[c].slot = conn[c].slot
      /\ conn[c].phase # "located" => Locate(c)
  BY <1>1, <1>T, ShownSteps
<1>3. ASSUME NEW slot \in Slots, NEW via \in Frontends, BeginLogin(n, slot, via)
      PROVE  c \in login'[n].present
  <2>1. /\ login'[n].slot = slot
        /\ login'[n].present = {d \in Of(slot) : conn[d].phase = "located"}
    BY <1>3, <1>T, BeginEffect
  <2>2. conn' = conn
    BY <1>3 DEF BeginLogin
  <2> QED BY <2>1, <2>2 DEF Of
<1>4. CASE InLogin(n) /\ login'[n].slot = login[n].slot /\ login'[n].present = login[n].present
  <2>1. ~Locate(c)
    <3>1. Locate(c) => Upgrading(c)
      BY DEF Locate, Upgrading
    <3> QED BY <1>2, <1>4, <3>1 DEF Current, UpgradesAlone
  <2> QED BY <1>2, <1>4, <2>1 DEF Current, PresentAll
<1> QED BY <1>3, <1>4, <1>T, LoginBegins

LEMMA DoomLasts ==
    ASSUME ~RedisFails, PresenceTypeOK, [Next]_vars, NEW c \in Conns, NEW s \in Slots,
           NEW g \in Gateways, conn[c].phase = "located", conn[c].slot = s,
           conn[c].gateway = g, conn'[c].phase = "located", Doomed(c, s, g)
    PROVE  Doomed(c, s, g)'
<1>1. CASE c \in Forgotten
  BY <1>1, HistoryGrows DEF Forgotten, Doomed
<1>2. CASE conn[c].kicked \/ Threatened(s, g)
  <2>1. Live(c) /\ Live(c)'
    BY DEF Live
  <2> QED BY <1>2, <2>1, ThreatLasts DEF Doomed
<1> QED BY <1>1, <1>2 DEF Doomed

LEMMA LocatedCurrentNext ==
    ASSUME ~RedisFails, Current, [Next]_vars
    PROVE  LocatedCurrent'
<1> SUFFICES ASSUME NEW c \in Conns, NEW s \in Slots, NEW g \in Gateways,
                    conn'[c].phase = "located", Shown(c)', conn'[c].slot = s,
                    conn'[c].gateway = g, ~(token'[s] \in {0, conn'[c].login})
             PROVE  Doomed(c, s, g)'
  BY DEF LocatedCurrent
<1>T. PresenceTypeOK /\ Going(c)' /\ ~Upgrading(c)'
  BY DEF Current, Reaching, Going, Upgrading
<1>0. /\ conn[c].phase # "unused" /\ Shown(c) /\ conn[c].slot = s /\ conn[c].gateway = g
      /\ conn'[c].login = conn[c].login /\ (conn[c].phase # "located" => Locate(c))
  BY <1>T, ShownSteps
<1>1. CASE conn[c].phase = "located"
  <2>2. ASSUME Doomed(c, s, g) PROVE Doomed(c, s, g)'
    BY <1>0, <1>1, <1>T, <2>2, DoomLasts
  <2>3. CASE ~(token[s] \in {0, conn[c].login})
    BY <1>0, <1>1, <2>2, <2>3 DEF Current, LocatedCurrent
  <2>4. ASSUME NEW n \in Logins, StoreToken(n), login[n].slot = s
        PROVE  Doomed(c, s, g)'
    <3>1. InLogin(n) /\ login[n].pc \in TokenPassed
      BY <2>4 DEF StoreToken, InLogin, TokenPassed
    <3>2. c \in login[n].present
      BY <1>0, <1>1, <2>4, <3>1 DEF Current, PresentAll
    <3>3. Doomed(c, s, g)
      BY <1>0, <1>1, <3>1, <3>2 DEF Current, Reaching, KicksSent, Doomed
    <3> QED BY <2>2, <3>3
  <2> QED BY <1>0, <2>3, <2>4, <1>T, TokenSteps
<1>2. CASE Locate(c)
  <2>1. Upgrading(c) /\ token' = token
    BY <1>2 DEF Locate, Upgrading, tokens
  <2> QED BY <1>0, <2>1 DEF Current, UpgradesCurrent
<1> QED BY <1>0, <1>1, <1>2

LEMMA OneGoesOnNext ==
    ASSUME ~RedisFails, Current, [Next]_vars
    PROVE  OneGoesOn'
<1> DEFINE Doom(c, s, g) == conn[c].phase = "located" /\ Doomed(c, s, g)
<1>T. PresenceTypeOK
  BY DEF Current, Reaching
<1>1. ASSUME NEW c \in Conns, NEW s \in Slots, NEW g \in Gateways, Going(c)', Shown(c)',
             conn[c].slot = s, conn[c].gateway = g, Doom(c, s, g)
      PROVE  Doom(c, s, g)'
  <2>1. conn'[c].phase = "located"
    BY <1>1, <1>T, ShownSteps
  <2> QED BY <1>1, <1>T, <2>1, DoomLasts
<1>2. ASSUME NEW c \in Conns, NEW d \in Conns, NEW s \in Slots, NEW h \in Gateways,
             conn[c].phase = "unused", Going(c)', Shown(c)', conn'[c].slot = s,
             Going(d)', Shown(d)', conn'[d].slot = s, conn'[d].gateway = h,
             conn'[c].login # conn'[d].login
      PROVE  Doom(d, s, h)'
  <2>1. PICK n \in Logins, g \in Gateways : Upgrade(c, n, g)
    BY <1>2, <1>T, ShownSteps
  <2>2. Upgrading(c)' /\ c # d
    BY <1>2, <1>T, ShownSteps
  <2>3. /\ conn'[c].login = n /\ s = login[n].slot /\ token[s] = n
        /\ conn'[d] = conn[d]
    BY <1>2, <1>T, <2>1, <2>2, UpgradeShown
  <2>4. Going(d) /\ Shown(d) /\ n # 0
    <3>1. conn[d].phase # "unused"
      BY <1>2, <2>3 DEF Going, Upgrading
    <3> QED BY <1>2, <1>T, <3>1, ShownSteps, BoundsAssumption DEF Logins
  <2>5. ~Upgrading(d)
    BY <1>2, <2>3, <2>4 DEF Current, UpgradesCurrent
  <2>6. Doom(d, s, h)
    BY <1>2, <2>3, <2>4, <2>5 DEF Current, LocatedCurrent, Going
  <2> QED BY <1>1, <1>2, <2>3, <2>6
<1>3. ASSUME NEW c \in Conns, NEW d \in Conns, NEW s \in Slots, NEW g \in Gateways,
             NEW h \in Gateways,
             Going(c)', Shown(c)', conn'[c].slot = s, conn'[c].gateway = g,
             Going(d)', Shown(d)', conn'[d].slot = s, conn'[d].gateway = h,
             conn'[c].login # conn'[d].login
      PROVE  Doom(c, s, g)' \/ Doom(d, s, h)'
  <2>1. CASE conn[c].phase = "unused" \/ conn[d].phase = "unused"
    BY <1>2, <1>3, <2>1
  <2>2. CASE conn[c].phase # "unused" /\ conn[d].phase # "unused"
    <3>1. /\ Going(c) /\ Shown(c) /\ conn[c].slot = s /\ conn[c].gateway = g
          /\ conn'[c].login = conn[c].login
      BY <1>3, <1>T, <2>2, ShownSteps
    <3>2. /\ Going(d) /\ Shown(d) /\ conn[d].slot = s /\ conn[d].gateway = h
          /\ conn'[d].login = conn[d].login
      BY <1>3, <1>T, <2>2, ShownSteps
    <3>3. Doom(c, s, g) \/ Doom(d, s, h)
      BY <1>3, <3>1, <3>2 DEF Current, OneGoesOn
    <3> QED BY <1>1, <1>3, <3>1, <3>2, <3>3
  <2> QED BY <2>1, <2>2
<1> QED BY <1>3 DEF OneGoesOn

LEMMA CurrentImplies == Current => OneLoginRemains
<1> SUFFICES ASSUME Current, NEW s \in Slots, Quiet(s),
                    NEW c \in Remaining(s) \ (raced \cup Forgotten),
                    NEW d \in Remaining(s) \ (raced \cup Forgotten),
                    conn[c].login # 0, conn[d].login # 0, conn[c].login # conn[d].login
             PROVE  FALSE
  BY DEF OneLoginRemains
<1>T. \A e \in Conns : conn[e].gateway \in Gateways
  BY DEF Current, Reaching, PresenceTypeOK, Sessions
<1>1. ASSUME NEW e \in Remaining(s) \ (raced \cup Forgotten), conn[e].login # 0
      PROVE  /\ e \in Conns /\ Going(e) /\ Shown(e) /\ conn[e].slot = s
             /\ conn[e].gateway \in Gateways /\ ~Doomed(e, s, conn[e].gateway)
  <2>1. e \in Conns /\ conn[e].slot = s /\ Going(e) /\ Shown(e)
    BY <1>1 DEF Remaining, Of, Live, Going, Upgrading, Shown
  <2>2. ~Doomed(e, s, conn[e].gateway)
    BY <1>1, <1>T, <2>1 DEF Remaining, Of, Doomed, Threatened, Quiet
  <2> QED BY <1>T, <2>1, <2>2
<1> QED BY <1>1 DEF Current, OneGoesOn

(* If Redis answers, the sessions of a device that showed a token and go   *)
(* on, once no call and no kick is under way, stem from one login, however *)
(* the calls of the user overlap, with logins over the connection, logouts *)
(* and tokens that expire.  Excepted are sessions during whose upgrade a   *)
(* login of the device ran, those that lost both location and token, and   *)
(* those of a gateway whose subscriber missed a kick.                      *)
THEOREM OneLogin ==
    ASSUME ~RedisFails
    PROVE  Spec => []OneLoginRemains
<1>1. Init => Current
  <2> SUFFICES ASSUME Init PROVE Current
    OBVIOUS
  <2>1. /\ \A c \in Conns : conn[c].phase = "unused"
        /\ \A n \in Logins : login[n].pc = "unused"
    BY DEF Init
  <2>2. UpgradesAlone /\ UpgradesCurrent
    BY <2>1 DEF UpgradesAlone, UpgradesCurrent, Upgrading
  <2>3. PresentAll /\ LocatedCurrent
    BY <2>1 DEF PresentAll, LocatedCurrent
  <2>4. OneGoesOn
    BY <2>1 DEF OneGoesOn, Going, Upgrading
  <2> QED BY <2>2, <2>3, <2>4, ReachingInit DEF Current
<1>2. Current /\ [Next]_vars => Current'
  <2> SUFFICES ASSUME Current, [Next]_vars PROVE Current'
    OBVIOUS
  <2>1. Reaching'
    BY ReachingNext DEF Current
  <2> QED BY <2>1, UpgradesAloneNext, UpgradesCurrentNext, PresentAllNext, LocatedCurrentNext,
             OneGoesOnNext DEF Current
<1> QED BY <1>1, <1>2, CurrentImplies, PTL DEF Spec

===============================================================================
