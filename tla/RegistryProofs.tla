---------------------------- MODULE RegistryProofs ----------------------------
(***************************************************************************)
(* Proofs of the safety properties of Registry, for any gateways, any      *)
(* deployments of them with any number of crashes and outages, and any     *)
(* life of a key, interval and lateness.                                   *)
(***************************************************************************)
EXTENDS Registry, FiniteSetTheorems, TLAPS

Beat(g) == <<"beat", g>>
Poll(p) == <<"poll", p>>

LEMMA ThreadFacts ==
    /\ Gateways \subseteq Processes /\ Dispatch \in Processes /\ Dispatch \notin Gateways
    /\ \A p \in Processes :
           /\ Main(p) \in Threads /\ Main(p) \in Mains /\ Main(p) \notin Loops /\ Main(p)[2] = p
           /\ Poll(p) \in Threads /\ Poll(p) \in Polls /\ Poll(p) \in Loops /\ Poll(p)[2] = p
    /\ \A g \in Gateways :
           Beat(g) \in Threads /\ Beat(g) \in Beats /\ Beat(g) \in Loops /\ Beat(g)[2] = g
    /\ \A t \in Threads : t[2] \in Processes
    /\ \A t \in Mains : t = Main(t[2]) /\ t \notin Loops /\ t \in Threads
    /\ \A t \in Polls : t = Poll(t[2]) /\ t \notin Beats /\ t \in Loops
    /\ \A t \in Beats : t = Beat(t[2]) /\ t \notin Polls /\ t[2] \in Gateways /\ t \in Loops
    /\ \A t \in Threads : t \in Mains \/ t \in Polls \/ t \in Beats
    /\ \A t \in Loops : t \in Threads
BY NamesAssumption DEF Processes, Beats, Polls, Mains, Loops, Threads, Main, Poll, Beat

LEMMA DeploymentFacts ==
    ASSUME deployment \in Deployments
    PROVE  /\ deployment.late \in Nat /\ deployment.crashes \in Nat
           /\ deployment.outages \in Nat
           /\ deployment.gateways \subseteq Gateways
           /\ TTL \in Nat /\ TTL > 0 /\ Interval \in Nat /\ Interval > 0
           /\ Gone \in Nat /\ Gone > 0 /\ Worst \in Nat /\ Worst = TTL
BY DeploymentsAssumption, TimesAssumption DEF Gone, Worst

-------------------------------------------------------------------------------
(* Round robin *)

(* The next index lies in the list it was computed for, and no list is     *)
(* longer than there are gateways.                                         *)
LEMMA IndexFacts ==
    ASSUME NEW addresses \in SUBSET Gateways, NEW i \in 0..Cardinality(Gateways)
    PROVE  /\ Cardinality(Gateways) \in Nat /\ Cardinality(addresses) \in Nat
           /\ Cardinality(addresses) # 0 => Index(i, Cardinality(addresses)) < Cardinality(addresses)
           /\ Cardinality(addresses) # 0 =>
                  (Index(i, Cardinality(addresses)) + 1) % Cardinality(addresses)
                      \in 0..Cardinality(Gateways)
<1>1. /\ Cardinality(Gateways) \in Nat /\ Cardinality(addresses) \in Nat
      /\ Cardinality(addresses) <= Cardinality(Gateways)
  BY NamesAssumption, FS_CardinalityType, FS_Subset
<1> DEFINE n == Cardinality(addresses)
<1> DEFINE j == Index(i, n)
<1>2. n # 0 => j \in 0..(n - 1)
  BY <1>1 DEF Index
<1>3. ASSUME n # 0 PROVE (j + 1) % n \in 0..(n - 1)
  <2> HIDE DEF n, j
  <2>1. n \in Nat \ {0} /\ j \in Nat
    BY <1>1, <1>2, <1>3 DEF n
  <2> QED BY <2>1
<1> QED BY <1>1, <1>2, <1>3

LEMMA SelectEffect ==
    ASSUME rr \in [Gateways -> 0..Cardinality(Gateways)], NEW g \in Gateways,
           NEW addresses \in SUBSET Gateways, Select(g, addresses)
    PROVE  rr' \in [Gateways -> 0..Cardinality(Gateways)]
<1>1. rr[g] \in 0..Cardinality(Gateways)
  OBVIOUS
<1>2. Cardinality(addresses) # 0 =>
          (Index(rr[g], Cardinality(addresses)) + 1) % Cardinality(addresses)
              \in 0..Cardinality(Gateways)
  BY <1>1, IndexFacts
<1> QED BY <1>1, <1>2 DEF Select

LEMMA AnswersFacts ==
    ASSUME rr \in [Gateways -> 0..Cardinality(Gateways)], NEW p \in Processes,
           NEW addresses \in SUBSET Gateways
    PROVE  Answers(p, addresses) \subseteq Gateways \cup {Fallback, Unavailable}
<1>1. CASE p = Dispatch
  BY <1>1 DEF Answers, GetRandomGateway
<1>2. CASE p # Dispatch
  <2>1. p \in Gateways /\ rr[p] \in 0..Cardinality(Gateways)
    BY <1>2 DEF Processes
  <2>2. Cardinality(addresses) # 0 =>
            Index(rr[p], Cardinality(addresses)) < Cardinality(addresses)
    BY <2>1, IndexFacts
  <2> QED BY <1>2, <2>2 DEF Answers, GatewayUrl
<1> QED BY <1>1, <1>2

-------------------------------------------------------------------------------
(* Types *)

PcValues == {"off", "start", "idle", "sleep", "set", "keys", "get"}

Types ==
    /\ deployment \in Deployments
    /\ ttl \in [Gateways -> 0..TTL]
    /\ spoiled \subseteq Processes
    /\ pc \in [Threads -> PcValues]
    /\ todo \in [Threads -> SUBSET Gateways] /\ found \in [Threads -> SUBSET Gateways]
    /\ clock \in [Loops -> 0..(Interval + deployment.late)]
    /\ list \in [Processes -> SUBSET Gateways]
    /\ rr \in [Gateways -> 0..Cardinality(Gateways)]
    /\ dead \in [Gateways -> 0..Gone] /\ missed \in [Gateways -> 0..Worst]
    /\ redis \in {"up", "down"}
    /\ crashes \in 0..deployment.crashes /\ outages \in 0..deployment.outages

LEMMA TypesImply == Types => RegistryTypeOK
<1> SUFFICES ASSUME Types PROVE RegistryTypeOK
  OBVIOUS
<1>1. \A p \in Processes : Answers(p, list[p]) \subseteq Gateways \cup {Fallback, Unavailable}
  BY AnswersFacts DEF Types
<1> QED BY <1>1 DEF Types, RegistryTypeOK, PcValues

LEMMA TypesInit == Init => Types
<1> SUFFICES ASSUME Init PROVE Types
  OBVIOUS
<1>1. deployment \in Deployments
  BY DEF Init
<1>2. /\ 0 \in 0..TTL /\ 0 \in 0..(Interval + deployment.late) /\ Gone \in 0..Gone
      /\ Worst \in 0..Worst /\ 0 \in 0..deployment.crashes /\ 0 \in 0..deployment.outages
  BY <1>1, DeploymentFacts
<1>3. 0 \in 0..Cardinality(Gateways)
  BY NamesAssumption, FS_CardinalityType
<1> QED BY <1>2, <1>3 DEF Init, Types, PcValues

(* The steps of a thread and of time                                       *)
LEMMA DoneEffect ==
    ASSUME Types, NEW t \in Threads, Done(t)
    PROVE  /\ pc' \in [Threads -> PcValues]
           /\ clock' \in [Loops -> 0..(Interval + deployment.late)]
           /\ pc'[t] = IF t \in Loops THEN "sleep" ELSE "idle"
           /\ \A l \in Threads : l # t => pc'[l] = pc[l]
           /\ \A l \in Loops : clock'[l] = IF l = t THEN 0 ELSE clock[l]
BY DeploymentFacts DEF Done, Types, PcValues

(* A renewal succeeds or fails.                                            *)
LEMMA SetExEffect ==
    ASSUME NEW t \in Threads, SetEx(t)
    PROVE  \/ /\ ttl' = [ttl EXCEPT ![t[2]] = TTL]
              /\ missed' = [missed EXCEPT ![t[2]] = 0]
           \/ /\ ttl' = ttl
              /\ missed' = [missed EXCEPT ![t[2]] =
                                IF @ = Worst \/ t \in Mains THEN @ ELSE @ + 1]
<1>1. PICK ok \in BOOLEAN :
          /\ ttl' = IF ok THEN [ttl EXCEPT ![t[2]] = Expiry(@)] ELSE ttl
          /\ missed' = [missed EXCEPT ![t[2]] = IF ok THEN 0
                                    ELSE IF @ = Worst \/ t \in Mains THEN @ ELSE @ + 1]
  BY DEF SetEx, Outcomes
<1>2. CASE ok = TRUE
  BY <1>1, <1>2 DEF Expiry
<1>3. CASE ok = FALSE
  BY <1>1, <1>3
<1> QED BY <1>2, <1>3

(* What is deployed stays what it is.                                      *)
LEMMA Rigid ==
    ASSUME [Next]_vars
    PROVE  deployment' = deployment /\ Gone' = Gone
<1>1. deployment' = deployment
  BY DEF Next, Step, Start, Register, Wake, SetEx, Keys, Get, Refresh, Discover, DiscoverAsked,
         Tick, Crash, RedisDown, RedisUp, vars, faultVars
<1> QED BY <1>1 DEF Gone

LEMMA TypesNext == Types /\ [Next]_vars => Types'
<1> SUFFICES ASSUME Types, [Next]_vars PROVE Types'
  OBVIOUS
<1>T. /\ deployment \in Deployments
      /\ deployment.late \in Nat /\ deployment.crashes \in Nat /\ deployment.outages \in Nat
      /\ TTL \in Nat /\ TTL > 0 /\ Interval \in Nat /\ Interval > 0
      /\ Gone \in Nat /\ Worst \in Nat
  BY DeploymentFacts DEF Types
<1>R. deployment' = deployment /\ Gone' = Gone
  BY Rigid
<1> USE DEF Types
<1>1. ASSUME NEW p \in Processes, Start(p) PROVE Types'
  <2>1. pc' \in [Threads -> PcValues]
    BY <1>1 DEF Start, PcValues
  <2>2. clock' \in [Loops -> 0..(Interval + deployment.late)]
    BY <1>1, <1>T DEF Start
  <2>3. dead' \in [Gateways -> 0..Gone]
    BY <1>1, <1>T DEF Start
  <2> QED BY <1>1, <1>R, <2>1, <2>2, <2>3 DEF Start, listVars, faultVars
<1>2. ASSUME NEW g \in Gateways, Register(g) PROVE Types'
  BY <1>2, <1>R DEF Register, PcValues, listVars, faultVars, history
<1>3. ASSUME NEW t \in Loops, Wake(t) PROVE Types'
  <2>1. pc' \in [Threads -> PcValues]
    BY <1>3 DEF Wake, PcValues
  <2>2. clock' \in [Loops -> 0..(Interval + deployment.late)]
    BY <1>3, <1>T DEF Wake
  <2> QED BY <1>3, <1>R, <2>1, <2>2 DEF Wake, listVars, faultVars, history
<1>4. ASSUME NEW t \in Threads, SetEx(t) PROVE Types'
  <2>1. /\ pc' \in [Threads -> PcValues]
        /\ clock' \in [Loops -> 0..(Interval + deployment.late)]
    BY <1>4, DoneEffect DEF SetEx
  <2>3. ttl' \in [Gateways -> 0..TTL]
    BY <1>4, <1>T, SetExEffect
  <2>4. missed' \in [Gateways -> 0..Worst]
    BY <1>4, <1>T, SetExEffect
  <2> QED BY <1>4, <1>R, <2>1, <2>3, <2>4 DEF SetEx, listVars, faultVars
<1>5. ASSUME NEW t \in Threads, Keys(t) PROVE Types'
  BY <1>5, <1>R DEF Keys, PcValues, listVars, faultVars, history
<1>6. ASSUME NEW t \in Threads, Get(t) PROVE Types'
  BY <1>6, <1>R DEF Get, listVars, faultVars, history
<1>7. ASSUME NEW t \in Threads, Refresh(t) PROVE Types'
  <2>1. /\ pc' \in [Threads -> PcValues]
        /\ clock' \in [Loops -> 0..(Interval + deployment.late)]
    BY <1>7, DoneEffect DEF Refresh
  <2>2. list' \in [Processes -> SUBSET Gateways] /\ found' \in [Threads -> SUBSET Gateways]
    BY <1>7 DEF Refresh, Replacement
  <2> QED BY <1>7, <1>R, <2>1, <2>2 DEF Refresh, faultVars, history
<1>8. ASSUME NEW g \in Gateways, Discover(g) PROVE Types'
  <2>1. pc' \in [Threads -> PcValues]
    BY <1>8 DEF Discover, PcValues
  <2>2. rr' \in [Gateways -> 0..Cardinality(Gateways)]
    <3>1. list[g] \in SUBSET Gateways
      BY ThreadFacts
    <3> QED BY <1>8, <3>1, SelectEffect DEF Discover
  <2> QED BY <1>8, <1>R, <2>1, <2>2 DEF Discover, faultVars, history
<1>9. ASSUME NEW g \in Gateways, DiscoverAsked(g) PROVE Types'
  <2>1. Main(g) \in Threads /\ found[Main(g)] \in SUBSET Gateways
    BY ThreadFacts
  <2>2. /\ pc' \in [Threads -> PcValues]
        /\ clock' \in [Loops -> 0..(Interval + deployment.late)]
    BY <1>9, <2>1, DoneEffect DEF DiscoverAsked
  <2>3. rr' \in [Gateways -> 0..Cardinality(Gateways)]
    BY <1>9, <2>1, SelectEffect DEF DiscoverAsked
  <2>4. found' \in [Threads -> SUBSET Gateways]
    BY <1>9 DEF DiscoverAsked
  <2> QED BY <1>9, <1>R, <2>2, <2>3, <2>4 DEF DiscoverAsked, faultVars, history
<1>10. ASSUME Tick PROVE Types'
  <2>1. clock' \in [Loops -> 0..(Interval + deployment.late)]
    <3>1. \A t \in Loops : t \in Threads
      BY ThreadFacts
    <3> QED BY <1>10, <1>T, <3>1 DEF Tick
  <2>2. ttl' \in [Gateways -> 0..TTL]
    BY <1>10, <1>T DEF Tick
  <2>3. dead' \in [Gateways -> 0..Gone]
    BY <1>10, <1>T DEF Tick
  <2> QED BY <1>10, <1>R, <2>1, <2>2, <2>3 DEF Tick, listVars, faultVars
<1>11. ASSUME NEW p \in Processes, Crash(p) PROVE Types'
  <2>1. /\ pc' \in [Threads -> PcValues]
        /\ todo' \in [Threads -> SUBSET Gateways] /\ found' \in [Threads -> SUBSET Gateways]
    BY <1>11 DEF Crash, PcValues
  <2>2. clock' \in [Loops -> 0..(Interval + deployment.late)]
    BY <1>11, <1>T DEF Crash
  <2>3. rr' \in [Gateways -> 0..Cardinality(Gateways)]
    BY <1>11, NamesAssumption, FS_CardinalityType DEF Crash
  <2>4. missed' \in [Gateways -> 0..Worst] /\ crashes' \in 0..deployment.crashes
    BY <1>11, <1>T DEF Crash
  <2>5. list' \in [Processes -> SUBSET Gateways] /\ spoiled' \subseteq Processes
    BY <1>11 DEF Crash
  <2> QED BY <1>11, <1>R, <2>1, <2>2, <2>3, <2>4, <2>5 DEF Crash
<1>12. ASSUME RedisDown PROVE Types'
  <2>1. ttl' \in [Gateways -> 0..TTL] /\ missed' \in [Gateways -> 0..Worst]
    BY <1>12, <1>T DEF RedisDown
  <2>2. outages' \in 0..deployment.outages /\ spoiled' \subseteq Processes
    BY <1>12, <1>T DEF RedisDown
  <2> QED BY <1>12, <1>R, <2>1, <2>2 DEF RedisDown, threadVars, listVars
<1>13. ASSUME RedisUp PROVE Types'
  BY <1>13, <1>R DEF RedisUp, threadVars, listVars, history
<1>14. CASE UNCHANGED vars
  BY <1>14, <1>R DEF vars, threadVars, listVars, faultVars, history
<1> QED BY <1>1, <1>2, <1>3, <1>4, <1>5, <1>6, <1>7, <1>8, <1>9, <1>10, <1>11, <1>12, <1>13,
           <1>14 DEF Next, Step

(* Keys, lists, indices and clocks keep their types, and every answer to a *)
(* login names a gateway, the address in the code, or none: the index is   *)
(* within the list, however the list has changed since it was computed.    *)
THEOREM TypeCorrect == Spec => []RegistryTypeOK
<1>1. Spec => []Types
  BY TypesInit, TypesNext, PTL DEF Spec
<1> QED BY <1>1, TypesImply, PTL

-------------------------------------------------------------------------------
(* Where threads are                                                       *)

(* A thread runs in a process that is up; main and the heartbeat renew,    *)
(* main and the loop that polls read, and this one only in a process that  *)
(* observes; a gateway that has not registered has no renewal behind it.   *)
Running == \A t \in Threads : pc[t] # "off" => Up(t[2])
Renewing == \A t \in Threads : pc[t] = "set" =>
                t \notin Polls /\ (t[2] \in Gateways => Registered(t[2]))
Reading == \A t \in Threads : pc[t] \in {"keys", "get"} => t \notin Beats
PollsObserve == \A p \in Processes : pc[Poll(p)] \in {"keys", "get"} =>
                    Observing(p) /\ clock[Poll(p)] >= Interval
FoundWhileReading == \A p \in Processes : found[Poll(p)] # {} => pc[Poll(p)] = "get"
ListsObserve == \A p \in Processes : list[p] # {} => Observing(p) /\ pc[Poll(p)] # "off"
BeatsRun == \A g \in Gateways : Up(g) => pc[Beat(g)] # "off"
NotYetRenewed == \A g \in Gateways : ~Registered(g) => missed[g] = Worst

Order == Running /\ Renewing /\ Reading /\ PollsObserve /\ FoundWhileReading
         /\ ListsObserve /\ BeatsRun /\ NotYetRenewed
Places == Types /\ Order

LEMMA PlacesInit == Init => Places
<1> SUFFICES ASSUME Init PROVE Places
  OBVIOUS
<1>1. \A t \in Threads : pc[t] = "off" /\ found[t] = {}
  BY DEF Init
<1>2. \A p \in Processes : list[p] = {}
  BY DEF Init
<1>3. \A g \in Gateways : missed[g] = Worst
  BY DEF Init
<1> QED BY <1>1, <1>2, <1>3, TypesInit, ThreadFacts
        DEF Places, Order, Running, Renewing, Reading, PollsObserve, FoundWhileReading, ListsObserve,
            BeatsRun, NotYetRenewed, Up

LEMMA OrderNext == Places /\ [Next]_vars => Order'
<1> SUFFICES ASSUME Places, [Next]_vars PROVE Order'
  OBVIOUS
<1>T. Types /\ Types'
  BY TypesNext DEF Places
<1>F. /\ pc \in [Threads -> PcValues] /\ found \in [Threads -> SUBSET Gateways]
      /\ list \in [Processes -> SUBSET Gateways] /\ missed \in [Gateways -> 0..Worst]
      /\ clock \in [Loops -> 0..(Interval + deployment.late)]
      /\ deployment.late \in Nat /\ Interval \in Nat /\ Worst \in Nat
  BY <1>T, DeploymentFacts DEF Types
<1>0. Running /\ Renewing /\ Reading /\ PollsObserve /\ FoundWhileReading
      /\ ListsObserve /\ BeatsRun /\ NotYetRenewed
  BY DEF Places, Order
<1> USE DEF Running, Renewing, Reading, PollsObserve, FoundWhileReading, ListsObserve,
            BeatsRun, NotYetRenewed, Up, Registered, Observing
<1>1. ASSUME NEW p \in Processes, Start(p) PROVE Order'
  <2>1. /\ pc[Main(p)] = "off" /\ Main(p) \in Started
        /\ \A t \in Threads :
               /\ t[2] # p \/ t \notin Started => pc'[t] = pc[t]
               /\ t[2] = p /\ t \in Started =>
                      pc'[t] = IF t \in Loops THEN "sleep"
                               ELSE IF p = Dispatch THEN "idle" ELSE "start"
    BY <1>1, <1>F DEF Start
  <2>2. /\ found' = found /\ list' = list /\ missed' = missed
        /\ \A t \in Loops : t[2] # p => clock'[t] = clock[t]
    BY <1>1, <1>F DEF Start, listVars
  <2>3. p \in Gateways => Beat(p) \in Started
    BY <2>1, ThreadFacts DEF Started
  <2>4. \A t \in Threads : t[2] = p => pc[t] = "off"
    BY <1>0, <2>1
  <2>5. Running' /\ Renewing' /\ Reading'
    BY <1>0, <2>1, <2>4, ThreadFacts
  <2>6. \A q \in Processes : q # p => pc'[Main(q)] = pc[Main(q)] /\ pc'[Poll(q)] = pc[Poll(q)]
                                      /\ clock'[Poll(q)] = clock[Poll(q)]
    BY <2>1, <2>2, ThreadFacts
  <2>7. /\ found[Poll(p)] = {} /\ list[p] = {} /\ pc'[Poll(p)] \notin {"keys", "get"}
        /\ pc'[Main(p)] # "off"
    BY <1>0, <2>1, <2>4, ThreadFacts
  <2>8. PollsObserve' /\ FoundWhileReading' /\ ListsObserve'
    BY <1>0, <2>2, <2>6, <2>7
  <2>9. BeatsRun'
    BY <1>0, <2>1, <2>3, ThreadFacts
  <2>10. NotYetRenewed'
    BY <1>0, <2>1, <2>2, ThreadFacts
  <2> QED BY <2>5, <2>8, <2>9, <2>10 DEF Order
<1>2. ASSUME NEW g \in Gateways, Register(g) PROVE Order'
  <2>1. /\ pc[Main(g)] = "start" /\ pc'[Main(g)] = "set"
        /\ \A t \in Threads : t # Main(g) => pc'[t] = pc[t]
    BY <1>2, <1>F, ThreadFacts DEF Register
  <2>2. found' = found /\ list' = list /\ missed' = missed /\ clock' = clock
    BY <1>2 DEF Register, listVars, history
  <2>3. /\ \A p \in Processes : p # g => Main(p) # Main(g)
        /\ \A p \in Processes : Poll(p) # Main(g)
        /\ \A h \in Gateways : Beat(h) # Main(g)
    BY ThreadFacts
  <2> QED BY <1>0, <2>1, <2>2, <2>3, ThreadFacts DEF Order
<1>3. ASSUME NEW t \in Loops, Wake(t) PROVE Order'
  <2>1. /\ pc[t] = "sleep" /\ clock[t] >= Interval /\ t \in Threads
        /\ \A l \in Threads : l # t => pc'[l] = pc[l]
        /\ \A l \in Loops : l # t => clock'[l] = clock[l]
        /\ \/ pc'[t] = "sleep"
           \/ pc'[t] = "set" /\ t \in Beats /\ Registered(t[2])
           \/ pc'[t] = "keys" /\ t \notin Beats /\ Observing(t[2]) /\ clock'[t] = clock[t]
    BY <1>3, <1>F, ThreadFacts DEF Wake
  <2>2. found' = found /\ list' = list /\ missed' = missed
    BY <1>3 DEF Wake, listVars, history
  <2>3. /\ \A p \in Processes : Main(p) # t /\ pc'[Main(p)] = pc[Main(p)]
    BY <2>1, ThreadFacts
  <2>4. Running' /\ Renewing' /\ Reading'
    BY <1>0, <2>1, <2>3, ThreadFacts
  <2>5. PollsObserve' /\ FoundWhileReading' /\ ListsObserve'
    BY <1>0, <2>1, <2>2, <2>3, ThreadFacts
  <2>6. BeatsRun' /\ NotYetRenewed'
    BY <1>0, <2>1, <2>2, <2>3, ThreadFacts
  <2> QED BY <2>4, <2>5, <2>6 DEF Order
<1>4. ASSUME NEW t \in Threads, SetEx(t) PROVE Order'
  <2>1. /\ pc[t] = "set" /\ t \notin Polls
        /\ pc'[t] = IF t \in Loops THEN "sleep" ELSE "idle"
        /\ \A l \in Threads : l # t => pc'[l] = pc[l]
        /\ \A l \in Loops : l # t => clock'[l] = clock[l]
    BY <1>0, <1>4, <1>T, DoneEffect DEF SetEx
  <2>2. found' = found /\ list' = list
    BY <1>4 DEF SetEx, listVars
  <2>3. /\ \A g \in Gateways : g # t[2] => missed'[g] = missed[g]
        /\ t[2] \in Gateways => Registered(t[2])
    BY <1>0, <1>4, <1>F, <2>1, SetExEffect, ThreadFacts
  <2>4. Running' /\ Renewing' /\ Reading'
    BY <1>0, <2>1, ThreadFacts
  <2>5. PollsObserve' /\ FoundWhileReading' /\ ListsObserve'
    BY <1>0, <2>1, <2>2, ThreadFacts
  <2>6. BeatsRun'
    BY <1>0, <2>1, ThreadFacts
  <2>7. NotYetRenewed'
    BY <1>0, <2>1, <2>3, ThreadFacts
  <2> QED BY <2>4, <2>5, <2>6, <2>7 DEF Order
<1>5. ASSUME NEW t \in Threads, Keys(t) PROVE Order'
  <2>1. /\ pc[t] = "keys" /\ pc'[t] = "get"
        /\ \A l \in Threads : l # t => pc'[l] = pc[l]
    BY <1>5, <1>F DEF Keys
  <2>2. found' = found /\ list' = list /\ missed' = missed /\ clock' = clock
    BY <1>5 DEF Keys, listVars, history
  <2>3. Running' /\ Renewing' /\ Reading'
    BY <1>0, <2>1, ThreadFacts
  <2>4. PollsObserve' /\ FoundWhileReading' /\ ListsObserve'
    BY <1>0, <2>1, <2>2, ThreadFacts
  <2>5. BeatsRun' /\ NotYetRenewed'
    BY <1>0, <2>1, <2>2, ThreadFacts
  <2> QED BY <2>3, <2>4, <2>5 DEF Order
<1>6. ASSUME NEW t \in Threads, Get(t) PROVE Order'
  <2>1. /\ pc[t] = "get" /\ pc' = pc /\ list' = list /\ missed' = missed /\ clock' = clock
        /\ \A l \in Threads : l # t => found'[l] = found[l]
    BY <1>6, <1>F DEF Get, listVars, history
  <2>2. FoundWhileReading'
    BY <1>0, <2>1, ThreadFacts
  <2> QED BY <1>0, <2>1, <2>2 DEF Order
<1>7. ASSUME NEW t \in Threads, Refresh(t) PROVE Order'
  <2>1. /\ pc[t] = "get" /\ t \in Polls /\ pc'[t] = "sleep"
        /\ \A l \in Threads : l # t => pc'[l] = pc[l]
        /\ \A l \in Loops : l # t => clock'[l] = clock[l]
    BY <1>7, <1>T, DoneEffect, ThreadFacts DEF Refresh
  <2>2. /\ found'[t] = {} /\ missed' = missed
        /\ \A l \in Threads : l # t => found'[l] = found[l]
        /\ \A p \in Processes : p # t[2] => list'[p] = list[p]
    BY <1>7, <1>F DEF Refresh, history
  <2>3. t[2] \in Processes /\ t = Poll(t[2]) /\ Observing(t[2])
    BY <1>0, <2>1, ThreadFacts
  <2>4. \A p \in Processes : Main(p) # t /\ pc'[Main(p)] = pc[Main(p)]
    BY <2>1, ThreadFacts
  <2>5. Running' /\ Renewing' /\ Reading'
    BY <1>0, <2>1, <2>4, ThreadFacts
  <2>6. PollsObserve' /\ FoundWhileReading'
    BY <1>0, <2>1, <2>2, <2>4, ThreadFacts
  <2>7. ListsObserve'
    BY <1>0, <2>1, <2>2, <2>3, <2>4, ThreadFacts
  <2>8. BeatsRun' /\ NotYetRenewed'
    BY <1>0, <2>1, <2>2, <2>4, ThreadFacts
  <2> QED BY <2>5, <2>6, <2>7, <2>8 DEF Order
<1>8. ASSUME NEW g \in Gateways, Discover(g) PROVE Order'
  <2>1. /\ pc[Main(g)] = "idle" /\ pc'[Main(g)] \in {"idle", "keys"}
        /\ \A t \in Threads : t # Main(g) => pc'[t] = pc[t]
    BY <1>8, <1>F, ThreadFacts DEF Discover
  <2>2. found' = found /\ list' = list /\ missed' = missed /\ clock' = clock
    BY <1>8 DEF Discover, history
  <2>3. Running' /\ Renewing' /\ Reading'
    BY <1>0, <2>1, ThreadFacts
  <2>4. PollsObserve' /\ FoundWhileReading' /\ ListsObserve'
    BY <1>0, <2>1, <2>2, ThreadFacts
  <2>5. BeatsRun' /\ NotYetRenewed'
    BY <1>0, <2>1, <2>2, ThreadFacts
  <2> QED BY <2>3, <2>4, <2>5 DEF Order
<1>9. ASSUME NEW g \in Gateways, DiscoverAsked(g) PROVE Order'
  <2>1. /\ pc[Main(g)] = "get" /\ pc'[Main(g)] = "idle"
        /\ \A t \in Threads : t # Main(g) => pc'[t] = pc[t]
        /\ \A l \in Loops : clock'[l] = clock[l]
    BY <1>9, <1>T, DoneEffect, ThreadFacts DEF DiscoverAsked
  <2>2. /\ list' = list /\ missed' = missed
        /\ \A t \in Threads : t # Main(g) => found'[t] = found[t]
    BY <1>9, <1>F DEF DiscoverAsked, history
  <2>3. Running' /\ Renewing' /\ Reading'
    BY <1>0, <2>1, ThreadFacts
  <2>4. PollsObserve' /\ FoundWhileReading' /\ ListsObserve'
    BY <1>0, <2>1, <2>2, ThreadFacts
  <2>5. BeatsRun' /\ NotYetRenewed'
    BY <1>0, <2>1, <2>2, ThreadFacts
  <2> QED BY <2>3, <2>4, <2>5 DEF Order
<1>10. ASSUME Tick PROVE Order'
  <2>1. pc' = pc /\ found' = found /\ list' = list /\ missed' = missed
    BY <1>10 DEF Tick, listVars
  <2>2. \A l \in Loops : clock'[l] >= clock[l]
    BY <1>10, <1>F DEF Tick
  <2>3. PollsObserve'
    BY <1>0, <1>F, <1>T, <2>1, <2>2, ThreadFacts DEF Types
  <2> QED BY <1>0, <2>1, <2>3 DEF Order
<1>11. ASSUME NEW p \in Processes, Crash(p) PROVE Order'
  <2>1. /\ \A t \in Threads : pc'[t] = IF t[2] = p THEN "off" ELSE pc[t]
        /\ \A t \in Threads : found'[t] = IF t[2] = p THEN {} ELSE found[t]
        /\ \A t \in Loops : t[2] # p => clock'[t] = clock[t]
        /\ \A q \in Processes : list'[q] = IF q = p THEN {} ELSE list[q]
        /\ \A g \in Gateways : missed'[g] = IF g = p THEN Worst ELSE missed[g]
    BY <1>11, <1>F DEF Crash
  <2>2. Running' /\ Renewing' /\ Reading'
    BY <1>0, <2>1, ThreadFacts
  <2>3. PollsObserve' /\ FoundWhileReading' /\ ListsObserve'
    BY <1>0, <2>1, ThreadFacts
  <2>4. BeatsRun' /\ NotYetRenewed'
    BY <1>0, <2>1, ThreadFacts
  <2> QED BY <2>2, <2>3, <2>4 DEF Order
<1>12. ASSUME RedisDown PROVE Order'
  <2>1. pc' = pc /\ found' = found /\ list' = list /\ clock' = clock
    BY <1>12 DEF RedisDown, threadVars, listVars
  <2>2. \A g \in Gateways : missed'[g] \in {missed[g], Worst}
    BY <1>12, <1>F DEF RedisDown
  <2>3. NotYetRenewed'
    BY <1>0, <2>1, <2>2
  <2> QED BY <1>0, <2>1, <2>3 DEF Order
<1>13. ASSUME RedisUp \/ UNCHANGED vars PROVE Order'
  <2>1. pc' = pc /\ found' = found /\ list' = list /\ clock' = clock /\ missed' = missed
    BY <1>13 DEF RedisUp, threadVars, listVars, history, vars
  <2> QED BY <1>0, <2>1 DEF Order
<1> QED BY <1>1, <1>2, <1>3, <1>4, <1>5, <1>6, <1>7, <1>8, <1>9, <1>10, <1>11, <1>12, <1>13
        DEF Next, Step

LEMMA PlacesAlways == Spec => []Places
<1>1. Places /\ [Next]_vars => Places'
  BY OrderNext, TypesNext DEF Places
<1> QED BY <1>1, PlacesInit, PTL DEF Spec

-------------------------------------------------------------------------------
(* Dead gateways leave                                                     *)

(* A key, a value read and an entry of a list are at most so old that the  *)
(* times add up to less than Gone.                                         *)
LivingAreUp == \A g \in Gateways : Up(g) => dead[g] = 0
KeysExpire == \A g \in Gateways : ttl[g] > 0 => ttl[g] + dead[g] <= TTL
FoundLately == \A p \in Processes : \A g \in found[Poll(p)] :
                   dead[g] < TTL + (clock[Poll(p)] - Interval)
ListedLately == \A p \in Processes : \A g \in list[p] :
                    dead[g] < TTL + deployment.late + clock[Poll(p)]

Lately == LivingAreUp /\ KeysExpire /\ FoundLately /\ ListedLately

LEMMA LatelyInit == Init => Lately
<1> SUFFICES ASSUME Init PROVE Lately
  OBVIOUS
<1>1. /\ \A t \in Threads : pc[t] = "off" /\ found[t] = {}
      /\ \A p \in Processes : list[p] = {}
      /\ \A g \in Gateways : ttl[g] = 0
  BY DEF Init
<1> QED BY <1>1, ThreadFacts
        DEF Lately, LivingAreUp, KeysExpire, FoundLately, ListedLately, Up

LEMMA LatelyNext == Places /\ Lately /\ [Next]_vars => Lately'
<1> SUFFICES ASSUME Places, Lately, [Next]_vars PROVE Lately'
  OBVIOUS
<1>T. Types /\ deployment' = deployment
  BY Rigid DEF Places
<1>F. /\ ttl \in [Gateways -> 0..TTL] /\ dead \in [Gateways -> 0..Gone]
      /\ pc \in [Threads -> PcValues] /\ found \in [Threads -> SUBSET Gateways]
      /\ clock \in [Loops -> 0..(Interval + deployment.late)]
      /\ list \in [Processes -> SUBSET Gateways]
      /\ deployment.late \in Nat /\ Interval \in Nat /\ TTL \in Nat /\ TTL > 0 /\ Gone \in Nat
  BY <1>T, DeploymentFacts DEF Types
<1>0. /\ LivingAreUp /\ KeysExpire /\ FoundLately /\ ListedLately
      /\ Running /\ Renewing /\ Reading /\ PollsObserve /\ FoundWhileReading /\ ListsObserve
  BY DEF Places, Order, Lately
<1>C. ASSUME NEW p \in Processes
      PROVE  clock[Poll(p)] \in 0..(Interval + deployment.late)
  BY <1>F, ThreadFacts
<1>D. ASSUME NEW g \in Gateways
      PROVE  dead[g] \in 0..Gone /\ ttl[g] \in 0..TTL
  BY <1>F
<1> USE DEF LivingAreUp, KeysExpire, FoundLately, ListedLately, Up
<1>1. ASSUME NEW p \in Processes, Start(p) PROVE Lately'
  <2>1. /\ ttl' = ttl /\ found' = found /\ list' = list
        /\ \A g \in Gateways : dead'[g] = IF g = p THEN 0 ELSE dead[g]
        /\ \A t \in Loops : t[2] # p => clock'[t] = clock[t]
        /\ \A q \in Processes : q # p => pc'[Main(q)] = pc[Main(q)]
        /\ pc[Main(p)] = "off"
    BY <1>1, <1>F, ThreadFacts DEF Start, listVars
  <2>2. found[Poll(p)] = {} /\ list[p] = {}
    BY <1>0, <2>1, ThreadFacts DEF Running, FoundWhileReading, ListsObserve
  <2>3. \A q \in Processes : q # p => clock'[Poll(q)] = clock[Poll(q)]
    BY <2>1, ThreadFacts
  <2>4. LivingAreUp' /\ KeysExpire'
    BY <1>0, <1>D, <1>F, <2>1, ThreadFacts
  <2>5. \A g \in Gateways : dead'[g] <= dead[g]
    BY <2>1, <1>D
  <2>6. \A g \in Gateways : dead'[g] \in Nat
    BY <2>1, <1>D
  <2>8. FoundLately'
    <3> SUFFICES ASSUME NEW q \in Processes, NEW g \in found[Poll(q)]
                 PROVE  dead'[g] < TTL + (clock'[Poll(q)] - Interval)
      BY <2>1
    <3>1. q # p /\ g \in Gateways
      BY <1>F, <2>2, ThreadFacts
    <3>2. dead[g] < TTL + (clock[Poll(q)] - Interval)
      BY <1>0
    <3> QED BY <1>C, <1>D, <1>F, <2>3, <2>5, <2>6, <3>1, <3>2
  <2>9. ListedLately'
    <3> SUFFICES ASSUME NEW q \in Processes, NEW g \in list[q]
                 PROVE  dead'[g] < TTL + deployment.late + clock'[Poll(q)]
      BY <1>T, <2>1
    <3>1. q # p /\ g \in Gateways
      BY <1>F, <2>2
    <3>2. dead[g] < TTL + deployment.late + clock[Poll(q)]
      BY <1>0
    <3> QED BY <1>C, <1>D, <1>F, <2>3, <2>5, <2>6, <3>1, <3>2
  <2>7. FoundLately' /\ ListedLately'
    BY <2>8, <2>9
  <2> QED BY <2>4, <2>7 DEF Lately
<1>2. ASSUME NEW t \in Loops, Wake(t) PROVE Lately'
  <2>1. /\ ttl' = ttl /\ dead' = dead /\ found' = found /\ list' = list
        /\ \A l \in Loops : l # t => clock'[l] = clock[l]
        /\ \A p \in Processes : pc'[Main(p)] = pc[Main(p)]
        /\ pc[t] = "sleep"
    BY <1>2, <1>F, ThreadFacts DEF Wake, listVars, history
  <2>2. ASSUME NEW p \in Processes, t = Poll(p)
        PROVE  found[t] = {} /\ (list[p] # {} => clock'[t] = clock[t])
    <3>1. list[p] # {} => Observing(t[2]) /\ t \notin Beats
      BY <1>0, <2>2, ThreadFacts DEF ListsObserve
    <3>2. found[t] = {}
      BY <1>0, <2>1, <2>2 DEF FoundWhileReading
    <3> QED BY <1>2, <3>1, <3>2 DEF Wake
  <2>3. LivingAreUp' /\ KeysExpire'
    BY <1>0, <2>1, ThreadFacts
  <2>4. FoundLately' /\ ListedLately'
    BY <1>0, <1>T, <2>1, <2>2, ThreadFacts
  <2> QED BY <2>3, <2>4 DEF Lately
<1>3. ASSUME NEW t \in Threads, SetEx(t) PROVE Lately'
  <2>1. /\ dead' = dead /\ found' = found /\ list' = list
        /\ pc[t] = "set" /\ t \notin Polls /\ pc[Main(t[2])] # "off"
        /\ \A p \in Processes : pc'[Main(p)] # "off" => pc[Main(p)] # "off"
        /\ \A l \in Loops : l # t => clock'[l] = clock[l]
    BY <1>0, <1>3, <1>T, <1>F, DoneEffect, ThreadFacts
       DEF SetEx, listVars, Running, Renewing
  <2>2. \A g \in Gateways : ttl'[g] = ttl[g] \/ (ttl'[g] = TTL /\ g = t[2])
    BY <1>3, <1>F, SetExEffect
  <2>3. LivingAreUp' /\ KeysExpire'
    BY <1>0, <1>F, <2>1, <2>2, ThreadFacts
  <2>4. \A p \in Processes : clock'[Poll(p)] = clock[Poll(p)]
    BY <2>1, ThreadFacts
  <2>5. FoundLately'
    BY <1>0, <2>1, <2>4
  <2>6. ListedLately'
    BY <1>0, <1>T, <2>1, <2>4
  <2> QED BY <2>3, <2>5, <2>6 DEF Lately
<1>4. ASSUME NEW t \in Threads, Get(t) PROVE Lately'
  <2>0. PICK h \in todo[t], ok \in BOOLEAN :
            found' = IF ok /\ ttl[h] > 0 THEN [found EXCEPT ![t] = @ \cup {h}] ELSE found
    BY <1>4 DEF Get, Outcomes
  <2>3. h \in Gateways
    BY <1>T, <2>0 DEF Types
  <2>4. \/ ttl[h] > 0 /\ found' = [found EXCEPT ![t] = @ \cup {h}]
        \/ found' = found
    <3>1. CASE ok = TRUE
      BY <2>0, <3>1
    <3>2. CASE ok = FALSE
      BY <2>0, <3>2
    <3> QED BY <3>1, <3>2
  <2>5. /\ \A l \in Threads : l # t => found'[l] = found[l]
        /\ \A g \in found'[t] : g \in found[t] \/ (g \in Gateways /\ ttl[g] > 0)
    BY <1>F, <2>3, <2>4
  <2>1. /\ dead' = dead /\ ttl' = ttl /\ list' = list /\ clock' = clock /\ pc' = pc
        /\ pc[t] = "get"
    BY <1>4 DEF Get, listVars, history
  <2>2. ASSUME NEW p \in Processes, t = Poll(p), NEW g \in Gateways, ttl[g] > 0
        PROVE  dead[g] < TTL + (clock[Poll(p)] - Interval)
    <3>1. clock[Poll(p)] >= Interval
      BY <1>0, <2>1, <2>2 DEF PollsObserve
    <3>2. ttl[g] + dead[g] <= TTL
      BY <1>0, <2>2
    <3> QED BY <1>C, <1>D, <1>F, <2>2, <3>1, <3>2
  <2>6. FoundLately'
    BY <1>0, <2>1, <2>2, <2>5, ThreadFacts
  <2>7. LivingAreUp' /\ KeysExpire' /\ ListedLately'
    BY <1>0, <1>T, <2>1
  <2> QED BY <2>6, <2>7 DEF Lately
<1>5. ASSUME NEW t \in Threads, Refresh(t) PROVE Lately'
  <2>1. /\ dead' = dead /\ ttl' = ttl /\ t \in Polls
        /\ \A p \in Processes : pc'[Main(p)] = pc[Main(p)]
        /\ \A l \in Loops : clock'[l] = IF l = t THEN 0 ELSE clock[l]
    BY <1>5, <1>T, DoneEffect, ThreadFacts DEF Refresh, history
  <2>2. /\ found'[t] = {} /\ list'[t[2]] = found[t]
        /\ \A l \in Threads : l # t => found'[l] = found[l]
        /\ \A p \in Processes : p # t[2] => list'[p] = list[p]
    BY <1>5, <1>F, ThreadFacts DEF Refresh, Replacement
  <2>3. t[2] \in Processes /\ t = Poll(t[2])
    BY <2>1, ThreadFacts
  <2>4. \A g \in found[t] : g \in Gateways /\ dead[g] < TTL + deployment.late + 0
    BY <1>0, <1>C, <1>D, <1>F, <2>3
  <2>5. \A p \in Processes : p # t[2] => Poll(p) # t
    BY ThreadFacts
  <2>6. ListedLately'
    BY <1>0, <1>T, <2>1, <2>2, <2>3, <2>4, <2>5, ThreadFacts
  <2>7. FoundLately'
    BY <1>0, <2>1, <2>2, ThreadFacts
  <2>8. LivingAreUp' /\ KeysExpire'
    BY <1>0, <2>1, ThreadFacts
  <2> QED BY <2>6, <2>7, <2>8 DEF Lately
<1>6. ASSUME NEW g \in Gateways, DiscoverAsked(g) PROVE Lately'
  <2>1. dead' = dead /\ ttl' = ttl /\ list' = list /\ Done(Main(g)) /\ pc[Main(g)] = "get"
    BY <1>6 DEF DiscoverAsked, history
  <2>2. /\ \A l \in Threads : l # Main(g) => pc'[l] = pc[l]
        /\ \A l \in Loops : clock'[l] = clock[l]
    BY <2>1, <1>T, DoneEffect, ThreadFacts
  <2>3. \A p \in Processes : found'[Poll(p)] = found[Poll(p)]
    BY <1>6, <1>F, ThreadFacts DEF DiscoverAsked
  <2>4. \A p \in Processes : pc'[Main(p)] # "off" => pc[Main(p)] # "off"
    BY <2>1, <2>2, ThreadFacts
  <2>5. \A p \in Processes : clock'[Poll(p)] = clock[Poll(p)]
    BY <2>2, ThreadFacts
  <2>6. LivingAreUp' /\ KeysExpire'
    BY <1>0, <2>1, <2>4, ThreadFacts
  <2>7. FoundLately' /\ ListedLately'
    BY <1>0, <1>T, <2>1, <2>3, <2>5
  <2> QED BY <2>6, <2>7 DEF Lately
<1>7. ASSUME Tick PROVE Lately'
  <2>1. /\ pc' = pc /\ found' = found /\ list' = list
        /\ \A t \in Loops : clock'[t] = IF pc[t] = "off" THEN clock[t] ELSE clock[t] + 1
        /\ \A g \in Gateways : /\ ttl'[g] = IF ttl[g] = 0 THEN 0 ELSE ttl[g] - 1
                               /\ dead'[g] = IF Up(g) \/ dead[g] = Gone THEN dead[g]
                                                                        ELSE dead[g] + 1
    BY <1>7, <1>F DEF Tick, listVars
  <2>2. \A g \in Gateways : dead'[g] \in Nat /\ dead'[g] <= dead[g] + 1
    BY <1>D, <1>F, <2>1
  <2>3. LivingAreUp'
    BY <1>0, <2>1, ThreadFacts
  <2>4. KeysExpire'
    BY <1>0, <1>D, <1>F, <2>1, <2>2
  <2>5. ASSUME NEW p \in Processes, found[Poll(p)] # {} \/ list[p] # {}
        PROVE  clock'[Poll(p)] = clock[Poll(p)] + 1
    <3>1. pc[Poll(p)] # "off"
      BY <1>0, <2>5 DEF FoundWhileReading, ListsObserve
    <3> QED BY <2>1, <3>1, ThreadFacts
  <2>6. FoundLately'
    <3> SUFFICES ASSUME NEW p \in Processes, NEW g \in found[Poll(p)]
                 PROVE  dead'[g] < TTL + (clock'[Poll(p)] - Interval)
      BY <2>1
    <3>1. g \in Gateways
      BY <1>F, ThreadFacts
    <3>2. dead[g] < TTL + (clock[Poll(p)] - Interval)
      BY <1>0
    <3> QED BY <1>C, <1>D, <1>F, <2>2, <2>5, <3>1, <3>2
  <2>7. ListedLately'
    <3> SUFFICES ASSUME NEW p \in Processes, NEW g \in list[p]
                 PROVE  dead'[g] < TTL + deployment.late + clock'[Poll(p)]
      BY <1>T, <2>1
    <3>1. g \in Gateways
      BY <1>F
    <3>2. dead[g] < TTL + deployment.late + clock[Poll(p)]
      BY <1>0
    <3> QED BY <1>C, <1>D, <1>F, <2>2, <2>5, <3>1, <3>2
  <2> QED BY <2>3, <2>4, <2>6, <2>7 DEF Lately
<1>8. ASSUME NEW p \in Processes, Crash(p) PROVE Lately'
  <2>1. /\ dead' = dead /\ ttl' = ttl
        /\ \A t \in Threads : pc'[t] = IF t[2] = p THEN "off" ELSE pc[t]
        /\ \A t \in Threads : found'[t] = IF t[2] = p THEN {} ELSE found[t]
        /\ \A t \in Loops : t[2] # p => clock'[t] = clock[t]
        /\ \A q \in Processes : list'[q] = IF q = p THEN {} ELSE list[q]
    BY <1>8, <1>F DEF Crash
  <2>2. LivingAreUp' /\ KeysExpire'
    BY <1>0, <2>1, ThreadFacts
  <2>3. FoundLately' /\ ListedLately'
    BY <1>0, <1>T, <2>1, ThreadFacts
  <2> QED BY <2>2, <2>3 DEF Lately
<1>9. ASSUME RedisDown PROVE Lately'
  <2>1. /\ dead' = dead /\ pc' = pc /\ found' = found /\ list' = list /\ clock' = clock
        /\ \A g \in Gateways : ttl'[g] \in {ttl[g], 0}
    BY <1>9, <1>F DEF RedisDown, threadVars, listVars
  <2> QED BY <1>0, <1>T, <2>1 DEF Lately
<1>10. ASSUME \/ \E g \in Gateways : Register(g) \/ Discover(g)
              \/ \E t \in Threads : Keys(t)
              \/ RedisUp \/ UNCHANGED vars
       PROVE  Lately'
  <2>1. /\ dead' = dead /\ ttl' = ttl /\ found' = found /\ list' = list /\ clock' = clock
        /\ \A p \in Processes : pc'[Main(p)] # "off" => pc[Main(p)] # "off"
    BY <1>10, <1>F, ThreadFacts
       DEF Register, Discover, Keys, RedisUp, vars, threadVars, listVars, history
  <2> QED BY <1>0, <1>T, <2>1, ThreadFacts DEF Lately
<1> QED BY <1>1, <1>2, <1>3, <1>4, <1>5, <1>6, <1>7, <1>8, <1>9, <1>10 DEF Next, Step

(* Whatever crashes, comes back, fails or is late, a gateway that has been *)
(* down for the life of its key, one interval and two late iterations is   *)
(* in nobody's list: dispatch sends no login there any more.               *)
THEOREM DeadLeave == Spec => []DeadLeaveInTime
<1>1. Places /\ Lately => DeadLeaveInTime
  <2> SUFFICES ASSUME Places, Lately, NEW g \in Gateways, NEW p \in Processes, g \in list[p]
               PROVE  dead[g] # Gone
    BY DEF DeadLeaveInTime
  <2>1. dead[g] < TTL + deployment.late + clock[Poll(p)]
    BY DEF Lately, ListedLately
  <2>2. /\ clock[Poll(p)] \in 0..(Interval + deployment.late) /\ dead[g] \in Nat
        /\ deployment.late \in Nat /\ Interval \in Nat /\ TTL \in Nat
    BY DeploymentFacts, ThreadFacts DEF Places, Types
  <2> QED BY <2>1, <2>2 DEF Gone
<1> QED BY <1>1, LatelyInit, LatelyNext, PlacesAlways, PTL DEF Spec

-------------------------------------------------------------------------------
(* Keys outlive failed renewals                                            *)

(* How long a renewal may take to come round *)
Period == Interval + deployment.late

(* Each missed renewal has cost a key at most a period.                    *)
Renewals == \A g \in Gateways : Up(g) /\ missed[g] < Worst =>
                ttl[g] >= TTL - (missed[g] * Period + clock[Beat(g)])

LEMMA Multiples ==
    ASSUME NEW m \in Nat, NEW a \in Nat, a > 0
    PROVE  m * a \in Nat /\ (m + 1) * a = m * a + a /\ m <= m * a
<1>1. m * a \in Nat /\ (m + 1) * a = m * a + a
  BY SMT
<1>2. m * a >= m
  <2>1. m * (a - 1) >= 0
    BY SMT
  <2>2. m * a = m * (a - 1) + m
    BY SMT
  <2> QED BY <1>1, <2>1, <2>2
<1> QED BY <1>1, <1>2

LEMMA RenewalsNext == Places /\ Renewals /\ [Next]_vars => Renewals'
<1> SUFFICES ASSUME Places, Renewals, [Next]_vars PROVE Renewals'
  OBVIOUS
<1>T. Types /\ deployment' = deployment /\ Period' = Period
  BY Rigid DEF Places, Period
<1>F. /\ ttl \in [Gateways -> 0..TTL] /\ missed \in [Gateways -> 0..Worst]
      /\ pc \in [Threads -> PcValues] /\ clock \in [Loops -> 0..Period]
      /\ TTL \in Nat /\ Worst = TTL /\ Period \in Nat /\ Period > 0 /\ Interval \in Nat
  BY <1>T, DeploymentFacts DEF Types, Period
<1>0. Renewals /\ Running /\ Renewing /\ BeatsRun /\ NotYetRenewed
  BY DEF Places, Order
<1>C. ASSUME NEW g \in Gateways
      PROVE  /\ clock[Beat(g)] \in 0..Period /\ ttl[g] \in 0..TTL /\ missed[g] \in 0..Worst
             /\ missed[g] * Period \in Nat
             /\ (missed[g] + 1) * Period = missed[g] * Period + Period
  BY <1>F, ThreadFacts, Multiples
<1> USE DEF Renewals, Up
<1>1. ASSUME UNCHANGED <<ttl, missed>>,
             \A g \in Gateways : Up(g)' => Up(g) \/ missed[g] = Worst,
             \A g \in Gateways : clock'[Beat(g)] = clock[Beat(g)] \/ missed[g] = Worst
      PROVE  Renewals'
  BY <1>0, <1>F, <1>T, <1>1
<1>2. ASSUME NEW p \in Processes, Start(p) PROVE Renewals'
  <2>1. /\ ttl' = ttl /\ missed' = missed /\ pc[Main(p)] = "off"
        /\ \A q \in Processes : q # p => pc'[Main(q)] = pc[Main(q)]
        /\ \A t \in Loops : t[2] # p => clock'[t] = clock[t]
    BY <1>2, <1>F, ThreadFacts DEF Start
  <2>2. p \in Gateways => missed[p] = Worst
    BY <1>0, <2>1 DEF NotYetRenewed, Registered
  <2> QED BY <1>1, <2>1, <2>2, ThreadFacts
<1>3. ASSUME NEW t \in Loops, Wake(t) PROVE Renewals'
  <2>1. /\ ttl' = ttl /\ missed' = missed
        /\ \A p \in Processes : pc'[Main(p)] = pc[Main(p)]
        /\ \A l \in Loops : l # t => clock'[l] = clock[l]
    BY <1>3, <1>F, ThreadFacts DEF Wake, history
  <2>2. ASSUME NEW g \in Gateways, t = Beat(g), clock' # clock PROVE missed[g] = Worst
    BY <1>0, <1>3, <2>2, ThreadFacts DEF Wake, NotYetRenewed
  <2> QED BY <1>1, <2>1, <2>2, ThreadFacts
<1>4. ASSUME NEW t \in Threads, SetEx(t) PROVE Renewals'
  <2>1. /\ pc[t] = "set" /\ t \notin Polls /\ Up(t[2])
        /\ \A l \in Threads : l # t => pc'[l] = pc[l]
        /\ \A l \in Loops : clock'[l] = IF l = t THEN 0 ELSE clock[l]
    BY <1>0, <1>4, <1>T, DoneEffect DEF SetEx, Running, Renewing
  <2>2. \A g \in Gateways : Up(g)' => Up(g)
    BY <2>1, ThreadFacts
  <2> SUFFICES ASSUME NEW g \in Gateways, Up(g)', missed'[g] < Worst
               PROVE  ttl'[g] >= TTL - (missed'[g] * Period + clock'[Beat(g)])
    BY <1>T
  <2>3. CASE t[2] # g
    <3>1. ttl'[g] = ttl[g] /\ missed'[g] = missed[g]
      BY <1>4, <1>F, <2>3, SetExEffect
    <3>2. clock'[Beat(g)] = clock[Beat(g)]
      BY <2>1, <2>3, ThreadFacts
    <3> QED BY <1>0, <2>2, <3>1, <3>2
  <2>4. CASE t[2] = g /\ ttl'[g] = TTL
    <3>1. missed'[g] * Period \in Nat
      <4>1. missed'[g] \in Nat
        BY <1>4, <1>F, SetExEffect
      <4> QED BY <1>F, <4>1, Multiples
    <3>2. clock'[Beat(g)] \in Nat
      BY <1>C, <2>1, ThreadFacts
    <3> QED BY <1>F, <2>4, <3>1, <3>2
  <2>5. CASE t[2] = g /\ t = Main(g) /\ ttl' = ttl /\ missed'[g] = missed[g]
    <3>1. clock'[Beat(g)] = clock[Beat(g)]
      BY <2>1, <2>5, ThreadFacts
    <3> QED BY <1>0, <2>2, <2>5, <3>1
  <2>6. CASE t[2] = g /\ t = Beat(g) /\ ttl' = ttl /\ missed[g] # Worst
             /\ missed'[g] = missed[g] + 1
    <3>1. ttl[g] >= TTL - (missed[g] * Period + clock[Beat(g)])
      BY <1>0, <1>C, <1>F, <2>2, <2>6
    <3>2. clock'[Beat(g)] = 0
      BY <2>1, <2>6, ThreadFacts
    <3> QED BY <1>C, <1>F, <2>6, <3>1, <3>2
  <2>7. CASE t[2] = g /\ ttl' = ttl /\ missed[g] = Worst /\ missed'[g] = missed[g]
    BY <2>7, <1>F
  <2>8. \/ t[2] # g
        \/ ttl'[g] = TTL
        \/ t = Main(g) /\ ttl' = ttl /\ missed'[g] = missed[g]
        \/ t = Beat(g) /\ ttl' = ttl /\ missed[g] # Worst /\ missed'[g] = missed[g] + 1
        \/ ttl' = ttl /\ missed[g] = Worst /\ missed'[g] = missed[g]
    BY <1>4, <1>F, <2>1, SetExEffect, ThreadFacts
  <2> QED BY <2>3, <2>4, <2>5, <2>6, <2>7, <2>8
<1>5. ASSUME NEW t \in Threads, Keys(t) \/ Get(t) PROVE Renewals'
  <2>1. /\ ttl' = ttl /\ missed' = missed /\ clock' = clock
        /\ \A p \in Processes : pc'[Main(p)] # "off" => pc[Main(p)] # "off"
    BY <1>5, <1>F, ThreadFacts DEF Keys, Get, history
  <2> QED BY <1>1, <2>1, ThreadFacts
<1>6. ASSUME NEW t \in Threads, Refresh(t) PROVE Renewals'
  <2>1. /\ ttl' = ttl /\ missed' = missed /\ t \in Polls
        /\ \A p \in Processes : pc'[Main(p)] = pc[Main(p)]
        /\ \A l \in Loops : l # t => clock'[l] = clock[l]
    BY <1>6, <1>T, DoneEffect, ThreadFacts DEF Refresh, history
  <2> QED BY <1>1, <2>1, ThreadFacts
<1>7. ASSUME NEW g \in Gateways, Register(g) \/ Discover(g) PROVE Renewals'
  <2>1. /\ ttl' = ttl /\ missed' = missed /\ clock' = clock
        /\ \A p \in Processes : pc'[Main(p)] # "off" => pc[Main(p)] # "off"
    BY <1>7, <1>F, ThreadFacts DEF Register, Discover, history
  <2> QED BY <1>1, <2>1, ThreadFacts
<1>8. ASSUME NEW g \in Gateways, DiscoverAsked(g) PROVE Renewals'
  <2>1. ttl' = ttl /\ missed' = missed /\ Done(Main(g)) /\ pc[Main(g)] = "get"
    BY <1>8 DEF DiscoverAsked, history
  <2>2. /\ \A l \in Threads : l # Main(g) => pc'[l] = pc[l]
        /\ \A l \in Loops : clock'[l] = clock[l]
    BY <2>1, <1>T, DoneEffect, ThreadFacts
  <2> QED BY <1>1, <2>1, <2>2, ThreadFacts
<1>9. ASSUME Tick PROVE Renewals'
  <2>1. /\ missed' = missed /\ pc' = pc
        /\ \A t \in Loops : clock'[t] = IF pc[t] = "off" THEN clock[t] ELSE clock[t] + 1
        /\ \A g \in Gateways : ttl'[g] = IF ttl[g] = 0 THEN 0 ELSE ttl[g] - 1
    BY <1>9, <1>F DEF Tick
  <2> SUFFICES ASSUME NEW g \in Gateways, Up(g), missed[g] < Worst
               PROVE  ttl'[g] >= TTL - (missed[g] * Period + clock'[Beat(g)])
    BY <1>T, <2>1
  <2>2. clock'[Beat(g)] = clock[Beat(g)] + 1
    BY <1>0, <2>1, ThreadFacts DEF BeatsRun
  <2>3. ttl[g] >= TTL - (missed[g] * Period + clock[Beat(g)])
    BY <1>0
  <2> QED BY <1>C, <1>F, <2>1, <2>2, <2>3
<1>10. ASSUME NEW p \in Processes, Crash(p) PROVE Renewals'
  <2>1. /\ ttl' = ttl
        /\ \A t \in Threads : pc'[t] = IF t[2] = p THEN "off" ELSE pc[t]
        /\ \A t \in Loops : t[2] # p => clock'[t] = clock[t]
        /\ \A g \in Gateways : g # p => missed'[g] = missed[g]
    BY <1>10, <1>F DEF Crash
  <2>2. \A g \in Gateways : Up(g)' => g # p /\ Up(g) /\ clock'[Beat(g)] = clock[Beat(g)]
    BY <2>1, ThreadFacts
  <2> QED BY <1>0, <1>T, <2>1, <2>2
<1>11. ASSUME RedisDown PROVE Renewals'
  <2>1. /\ pc' = pc /\ clock' = clock
        /\ \/ ttl' = ttl /\ missed' = missed
           \/ \A g \in Gateways : missed'[g] = Worst
    BY <1>11, <1>F DEF RedisDown, threadVars
  <2>2. CASE ttl' = ttl /\ missed' = missed
    BY <1>1, <2>1, <2>2
  <2>3. CASE \A g \in Gateways : missed'[g] = Worst
    BY <2>3, <1>F
  <2> QED BY <2>1, <2>2, <2>3
<1>12. CASE RedisUp \/ UNCHANGED vars
  <2>1. ttl' = ttl /\ missed' = missed /\ clock' = clock /\ pc' = pc
    BY <1>12 DEF RedisUp, threadVars, history, vars
  <2> QED BY <1>1, <2>1
<1> QED BY <1>2, <1>3, <1>4, <1>5, <1>6, <1>7, <1>8, <1>9, <1>10, <1>11, <1>12 DEF Next, Step

(* However many renewals fail or come late, the key of a registered        *)
(* gateway is there as long as the time they took is within its life.      *)
THEOREM KeysOutlive == Spec => []KeyOutlivesMisses
<1>1. Init => Renewals
  <2> SUFFICES ASSUME Init PROVE Renewals
    OBVIOUS
  <2>1. \A t \in Threads : pc[t] = "off"
    BY DEF Init
  <2> QED BY <2>1, ThreadFacts DEF Renewals, Up
<1>2. Places /\ Renewals => KeyOutlivesMisses
  <2> SUFFICES ASSUME Places, Renewals, NEW g \in Gateways, Up(g),
                      (missed[g] + 1) * Period < TTL
               PROVE  ttl[g] > 0
    BY DEF KeyOutlivesMisses, Period
  <2>1. /\ clock[Beat(g)] \in 0..Period /\ ttl[g] \in 0..TTL /\ missed[g] \in Nat
        /\ Period \in Nat /\ Period > 0 /\ TTL \in Nat /\ Worst = TTL
    BY DeploymentFacts, ThreadFacts DEF Places, Types, Period
  <2>2. /\ missed[g] * Period \in Nat
        /\ (missed[g] + 1) * Period = missed[g] * Period + Period
        /\ missed[g] <= missed[g] * Period
    BY <2>1, Multiples
  <2>3. missed[g] < Worst
    BY <2>1, <2>2
  <2>4. ttl[g] >= TTL - (missed[g] * Period + clock[Beat(g)])
    BY <2>3 DEF Renewals
  <2> QED BY <2>1, <2>2, <2>4
<1> QED BY <1>1, <1>2, RenewalsNext, PlacesAlways, PTL DEF Spec

===============================================================================
