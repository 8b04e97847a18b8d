------------------------------- MODULE Registry -------------------------------
(***************************************************************************)
(* Which gateways a login may be sent to: the keys gateways keep alive in  *)
(* Redis (common/service_registry.cpp), the lists dispatch and the         *)
(* gateways read from them (dispatch/service_discovery.h and RefreshCache) *)
(* and what a login is answered with (dispatch/main.cpp, http_session.cpp).*)
(*                                                                         *)
(* Tick is a second.  A loop sleeps for Interval ticks, and the commands   *)
(* of one iteration take at most as many ticks as the deployment allows.   *)
(* Redis is external: it may go down and come back, with or without its    *)
(* keys.  A process that was connected keeps broken contexts (RedisClient):*)
(* its commands may fail from then on, until it is started again.          *)
(***************************************************************************)
EXTENDS Integers, FiniteSets

CONSTANTS
    Gateways,           \* their addresses
    Dispatch,           \* the dispatch server
    Fallback,           \* the address in http_session.cpp line 178
    Unavailable,        \* no address: dispatch answers 503
    Garbage,            \* what lies behind the end of a vector
    Deployments,        \* what is started and how it fails, see below
    TTL,                \* seconds a key lives, 10
    Interval            \* seconds a loop sleeps, 3

VARIABLES
    deployment,         \* one of Deployments, for good
    redis,              \* "up" or "down"
    ttl,                \* im:service:gateway:{address}: seconds left, 0: no key
    spoiled,            \* processes that may have broken contexts
    pc,                 \* where each thread is
    todo, found,        \* of a thread: keys still to GET, values it got
    clock,              \* of a loop: seconds since it went to sleep
    list,               \* gateway_list_ of dispatch, cache_["gateway"] of a gateway
    rr,                 \* rr_index_["gateway"]
    dead,               \* history: seconds since a gateway went down
    missed,             \* history: failed renewals since the last one
    crashes, outages    \* how many there were

threadVars == <<pc, todo, found, clock>>
listVars == <<list, rr>>
faultVars == <<deployment, redis, spoiled, crashes, outages>>
history == <<dead, missed>>
vars == <<ttl, threadVars, listVars, faultVars, history>>

ASSUME NamesAssumption ==
    IsFiniteSet(Gateways) /\ {Dispatch, Fallback, Unavailable, Garbage} \cap Gateways = {}
ASSUME TimesAssumption == {TTL, Interval} \subseteq Nat \ {0}

(* The gateways that are started, the processes whose loops that read the  *)
(* keys run, how long the commands of an iteration may take, and bounds on *)
(* the crashes of processes and the outages of Redis.                      *)
ASSUME DeploymentsAssumption ==
    Deployments \subseteq [gateways : SUBSET Gateways, observers : SUBSET (Gateways \cup {Dispatch}),
                           late : Nat, crashes : Nat, outages : Nat]

Processes == Gateways \cup {Dispatch}
Beats == {"beat"} \X Gateways           \* HeartbeatLoop
Polls == {"poll"} \X Processes          \* PollingLoop, refresh_thread_
Mains == {"main"} \X Processes          \* main, later a handler of logins
Loops == Beats \cup Polls
Threads == Loops \cup Mains
Main(p) == <<"main", p>>
Started == {t \in Threads : t[2] \in deployment.observers
                            \/ (t[2] \in deployment.gateways /\ t \notin Polls)}

(* When a dead gateway has left every list *)
Gone == TTL + Interval + 2 * deployment.late
Worst == TTL                            \* more misses make no difference

Up(p) == pc[Main(p)] # "off"
Registered(g) == pc[Main(g)] \notin {"off", "start"}
Observing(o) == pc[Main(o)] \notin {"off", "start", "set"}

Init ==
    /\ deployment \in Deployments
    /\ redis = "up" /\ spoiled = {}
    /\ ttl = [g \in Gateways |-> 0]
    /\ pc = [t \in Threads |-> "off"]
    /\ todo = [t \in Threads |-> {}] /\ found = [t \in Threads |-> {}]
    /\ clock = [t \in Loops |-> 0]
    /\ list = [p \in Processes |-> {}]
    /\ rr = [g \in Gateways |-> 0]
    /\ dead = [g \in Gateways |-> Gone]
    /\ missed = [g \in Gateways |-> Worst]
    /\ crashes = 0 /\ outages = 0

(* Whether a command of p may succeed, may fail *)
Outcomes(p) ==
    CASE redis = "down" -> {FALSE}
      [] redis = "up" /\ p \in spoiled -> BOOLEAN
      [] OTHER -> {TRUE}

-------------------------------------------------------------------------------
(* ServiceRegistry *)

(* A process starts.  In a gateway the constructor starts both loops before*)
(* main has set the fields the heartbeat reads; dispatch fetches its list  *)
(* and then every interval.                                                *)
Start(p) ==
    /\ ~Up(p) /\ Main(p) \in Started
    /\ pc' = [t \in Threads |-> IF t[2] # p \/ t \notin Started THEN pc[t]
                                ELSE IF t \in Loops THEN "sleep"
                                ELSE IF p = Dispatch THEN "idle" ELSE "start"]
    /\ clock' = [t \in Loops |-> IF t[2] = p /\ t \in Started THEN Interval ELSE clock[t]]
    /\ dead' = [g \in Gateways |-> IF g = p THEN 0 ELSE dead[g]]
    /\ UNCHANGED <<ttl, todo, found, listVars, faultVars, missed>>

(* The fault: is_registered_ is forgotten *)
RegisterOnce(g) ==
    /\ pc[Main(g)] = "start"
    /\ pc' = [pc EXCEPT ![Main(g)] = "set", ![<<"beat", g>>] = "off"]
    /\ UNCHANGED <<ttl, todo, found, clock, listVars, faultVars, history>>

(* Register: name, address and is_registered_ (lines 32-35), then SETEX *)
Register(g) ==
    /\ pc[Main(g)] = "start"
    /\ pc' = [pc EXCEPT ![Main(g)] = "set"]
    /\ UNCHANGED <<ttl, todo, found, clock, listVars, faultVars, history>>

(* HeartbeatLoop, PollingLoop and refresh_thread_ after their sleep: with  *)
(* nothing to renew or to observe they sleep again.                        *)
Wake(t) ==
    LET due == IF t \in Beats THEN Registered(t[2]) ELSE Observing(t[2]) IN
    /\ pc[t] = "sleep" /\ clock[t] >= Interval
    /\ IF due THEN pc' = [pc EXCEPT ![t] = IF t \in Beats THEN "set" ELSE "keys"] /\ UNCHANGED clock
              ELSE clock' = [clock EXCEPT ![t] = 0] /\ UNCHANGED pc
    /\ UNCHANGED <<ttl, todo, found, listVars, faultVars, history>>

Done(t) ==
    /\ pc' = [pc EXCEPT ![t] = IF t \in Loops THEN "sleep" ELSE "idle"]
    /\ clock' = [l \in Loops |-> IF l = t THEN 0 ELSE clock[l]]

(* The fault: SET ... NX does not renew a key *)
Renewed(left) == IF left > 0 THEN left ELSE TTL
Expiry(left) == TTL

(* SETEX of the key, by the heartbeat and at first by Register *)
SetEx(t) ==
    LET g == t[2] IN
    /\ pc[t] = "set"
    /\ Done(t)
    /\ \E ok \in Outcomes(g) :
           /\ ttl' = IF ok THEN [ttl EXCEPT ![g] = Expiry(@)] ELSE ttl
           /\ missed' = [missed EXCEPT ![g] = IF ok THEN 0
                                              ELSE IF @ = Worst \/ t \in Mains THEN @ ELSE @ + 1]
    /\ UNCHANGED <<todo, found, listVars, faultVars, dead>>

(* KEYS im:service:gateway:* *)
Keys(t) ==
    /\ pc[t] = "keys"
    /\ pc' = [pc EXCEPT ![t] = "get"]
    /\ \E ok \in Outcomes(t[2]) :
           todo' = [todo EXCEPT ![t] = IF ok THEN {g \in Gateways : ttl[g] > 0} ELSE {}]
    /\ UNCHANGED <<ttl, found, clock, listVars, faultVars, history>>

(* GET of one of the keys, which may have expired meanwhile *)
Get(t) ==
    /\ pc[t] = "get"
    /\ \E g \in todo[t], ok \in Outcomes(t[2]) :
           /\ todo' = [todo EXCEPT ![t] = @ \ {g}]
           /\ found' = IF ok /\ ttl[g] > 0 THEN [found EXCEPT ![t] = @ \cup {g}] ELSE found
    /\ UNCHANGED <<ttl, pc, clock, listVars, faultVars, history>>

(* The fault: an empty result is taken for a failed fetch *)
KeepOld(old, new) == IF new = {} THEN old ELSE new
Replacement(old, new) == new

(* The list is replaced: UpdateGateways lines 99-109, RefreshCache 88-91. *)
Refresh(t) ==
    /\ t \in Polls
    /\ pc[t] = "get" /\ todo[t] = {}
    /\ Done(t)
    /\ list' = [list EXCEPT ![t[2]] = Replacement(@, found[t])]
    /\ found' = [found EXCEPT ![t] = {}]
    /\ UNCHANGED <<ttl, todo, rr, faultVars, history>>

-------------------------------------------------------------------------------
(* What a login is answered with *)

(* The fault: the list is thought to have kept its size *)
IndexAsIs(i, n) == i
Index(i, n) == IF i >= n THEN 0 ELSE i

(* Any of dispatch's addresses, or none *)
GetRandomGateway(addresses) == IF addresses = {} THEN {Unavailable} ELSE addresses

(* The address at the gateway's index, in the order of KEYS, which is any, *)
(* or the one in its code                                                  *)
GatewayUrl(g, addresses) ==
    LET n == Cardinality(addresses) IN
    IF n = 0 THEN {Fallback}
    ELSE IF Index(rr[g], n) < n THEN addresses ELSE {Garbage}

(* What a login at o may be answered with when these addresses are listed: *)
(* dispatch chooses once the tokens are replaced, or answers 503.          *)
Answers(o, addresses) ==
    IF o = Dispatch THEN GetRandomGateway(addresses) ELSE GatewayUrl(o, addresses)

(* The rest of Discover (lines 126-139) *)
Select(g, addresses) ==
    LET n == Cardinality(addresses)
    IN  rr' = [rr EXCEPT ![g] = IF n = 0 THEN @ ELSE (Index(@, n) + 1) % n]

(* Discover takes the cached addresses (lines 97-110) or asks Redis. *)
Discover(g) ==
    /\ pc[Main(g)] = "idle" /\ g \in deployment.observers
    /\ IF list[g] # {} THEN Select(g, list[g]) /\ UNCHANGED pc
       ELSE pc' = [pc EXCEPT ![Main(g)] = "keys"] /\ UNCHANGED rr
    /\ UNCHANGED <<ttl, todo, found, clock, list, faultVars, history>>

DiscoverAsked(g) ==
    LET t == Main(g) IN
    /\ pc[t] = "get" /\ todo[t] = {}
    /\ Select(g, found[t])
    /\ Done(t)
    /\ found' = [found EXCEPT ![t] = {}]
    /\ UNCHANGED <<ttl, todo, list, faultVars, history>>

-------------------------------------------------------------------------------
(* Time and faults *)

(* A second.  The commands of one iteration take no longer than the        *)
(* deployment allows: an assumption about Redis and the network, since     *)
(* redisConnect (redis_client.cpp line 24) is called without a timeout.    *)
Tick ==
    /\ \A t \in Loops : pc[t] # "off" => clock[t] < Interval + deployment.late
    /\ clock' = [t \in Loops |-> IF pc[t] = "off" THEN clock[t] ELSE clock[t] + 1]
    /\ ttl' = [g \in Gateways |-> IF ttl[g] = 0 THEN 0 ELSE ttl[g] - 1]
    /\ dead' = [g \in Gateways |-> IF Up(g) \/ dead[g] = Gone THEN dead[g] ELSE dead[g] + 1]
    /\ UNCHANGED <<pc, todo, found, listVars, faultVars, missed>>

(* A process goes down; nothing takes the key of a gateway back. *)
Crash(p) ==
    /\ Up(p) /\ crashes < deployment.crashes
    /\ crashes' = crashes + 1
    /\ pc' = [t \in Threads |-> IF t[2] = p THEN "off" ELSE pc[t]]
    /\ todo' = [t \in Threads |-> IF t[2] = p THEN {} ELSE todo[t]]
    /\ found' = [t \in Threads |-> IF t[2] = p THEN {} ELSE found[t]]
    /\ clock' = [t \in Loops |-> IF t[2] = p THEN 0 ELSE clock[t]]
    /\ list' = [list EXCEPT ![p] = {}]
    /\ rr' = [g \in Gateways |-> IF g = p THEN 0 ELSE rr[g]]
    /\ missed' = [g \in Gateways |-> IF g = p THEN Worst ELSE missed[g]]
    /\ spoiled' = spoiled \ {p}
    /\ UNCHANGED <<ttl, deployment, redis, outages, dead>>

(* Redis goes down and breaks the connections, with or without its keys. *)
RedisDown ==
    /\ redis = "up" /\ outages < deployment.outages
    /\ redis' = "down" /\ outages' = outages + 1
    /\ spoiled' = {p \in Processes : Up(p)}
    /\ \/ UNCHANGED <<ttl, missed>>
       \/ /\ ttl' = [g \in Gateways |-> 0]
          /\ missed' = [g \in Gateways |-> Worst]
    /\ UNCHANGED <<deployment, threadVars, listVars, crashes, dead>>

RedisUp ==
    /\ redis = "down"
    /\ redis' = "up"
    /\ UNCHANGED <<ttl, threadVars, listVars, deployment, spoiled, crashes, outages, history>>

-------------------------------------------------------------------------------
Step(t) ==
    \/ SetEx(t)
    \/ Keys(t)
    \/ Get(t)
    \/ Refresh(t)

Next ==
    \/ \E t \in Threads : Step(t)
    \/ \E t \in Loops : Wake(t)
    \/ \E p \in Processes : Start(p) \/ Crash(p)
    \/ \E g \in Gateways : Register(g) \/ Discover(g) \/ DiscoverAsked(g)
    \/ Tick
    \/ RedisDown
    \/ RedisUp

(* Threads run on, and time passes.  Nothing has to start or to come back. *)
Fairness ==
    /\ \A t \in Threads : WF_vars(Step(t))
    /\ \A t \in Loops : WF_vars(Wake(t))
    /\ \A g \in Gateways : WF_vars(Register(g)) /\ WF_vars(DiscoverAsked(g))
    /\ WF_vars(Tick)

Spec == Init /\ [][Next]_vars
FairSpec == Spec /\ Fairness

-------------------------------------------------------------------------------
(* The variables have the types the code gives them; a login is answered   *)
(* with the address of a gateway, the one in the code, or none.            *)
RegistryTypeOK ==
    /\ deployment \in Deployments
    /\ ttl \in [Gateways -> 0..TTL]
    /\ spoiled \subseteq Processes
    /\ pc \in [Threads -> {"off", "start", "idle", "sleep", "set", "keys", "get"}]
    /\ todo \in [Threads -> SUBSET Gateways] /\ found \in [Threads -> SUBSET Gateways]
    /\ clock \in [Loops -> 0..(Interval + deployment.late)]
    /\ list \in [Processes -> SUBSET Gateways]
    /\ rr \in [Gateways -> 0..Cardinality(Gateways)]
    /\ \A p \in Processes : Answers(p, list[p]) \subseteq Gateways \cup {Fallback, Unavailable}
    /\ dead \in [Gateways -> 0..Gone] /\ missed \in [Gateways -> 0..Worst]
    /\ redis \in {"up", "down"}
    /\ crashes \in 0..deployment.crashes /\ outages \in 0..deployment.outages

(* "When an instance goes down its key expires and dispatch takes it off": *)
(* no list names a gateway that has been down for the life of its key, one *)
(* interval and two late iterations, also if Redis fails meanwhile.        *)
DeadLeaveInTime ==
    \A g \in Gateways, p \in Processes : dead[g] = Gone => g \notin list[p]

(* A registered gateway keeps its key through failed or late renewals as   *)
(* long as the TTL has room for them: two, if commands take no time.       *)
KeyOutlivesMisses ==
    \A g \in Gateways :
        Up(g) /\ (missed[g] + 1) * (Interval + deployment.late) < TTL => ttl[g] > 0

(* Once Redis answers and no context is broken, a gateway that runs comes  *)
(* into every list and stays there, also after a crash and a restart.      *)
Reachable(g, o) ==
    /\ redis = "up"
    /\ \A p \in {g, o} : Up(p) /\ p \notin spoiled
    /\ o \in deployment.observers
FoundAgain ==
    \A g \in Gateways, o \in Processes : <>[]Reachable(g, o) => <>[](g \in list[o])
===============================================================================
