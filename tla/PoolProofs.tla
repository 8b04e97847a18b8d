------------------------------ MODULE PoolProofs ------------------------------
(***************************************************************************)
(* Proofs about the pools a process keeps: the database connections of     *)
(* DBPool and the Redis contexts of RedisClient, for any number of threads,*)
(* connections and outages.                                                *)
(***************************************************************************)
EXTENDS DBPool, RedisClient, FiniteSetTheorems, TLAPS

LEMMA HeadAndTail ==
    ASSUME NEW S, NEW s \in Seq(S), s # <<>>
    PROVE  /\ Head(s) \in S /\ Tail(s) \in Seq(S) /\ Head(s) = s[1]
           /\ 1 \in DOMAIN s
           /\ DOMAIN Tail(s) = {i \in Nat : i + 1 \in DOMAIN s /\ i # 0}
           /\ \A i \in DOMAIN Tail(s) : i + 1 \in DOMAIN s /\ Tail(s)[i] = s[i + 1]
           /\ \A i \in DOMAIN s \ {1} : i - 1 \in DOMAIN Tail(s) /\ i \in Nat
OBVIOUS

-------------------------------------------------------------------------------
(* The calls *)

CallRecords == [pc : Steps, needs : Seq({"read", "write"}),
                held : SUBSET Handles, refused : BOOLEAN]

(* A call that looks for a connection still needs one, and a thread that   *)
(* is in no call holds none.                                               *)
CallsOK ==
    /\ thread \in [Threads -> CallRecords]
    /\ \A t \in Threads : /\ thread[t].pc \notin {"idle", "work"} => thread[t].needs # <<>>
                          /\ thread[t].pc = "idle" => thread[t].held = {}

LEMMA ReturnEffect ==
    ASSUME CallsOK, NEW t \in Threads, thread[t].pc \notin {"idle", "work"},
           NEW conns \in SUBSET Handles, Return(t, conns)
    PROVE  /\ CallsOK'
           /\ thread'[t].held = thread[t].held \cup conns
           /\ \A u \in Threads \ {t} : thread'[u] = thread[u]
<1> DEFINE old == thread[t]
           new == [pc |-> NextStep(Tail(old.needs)), needs |-> Tail(old.needs),
                   held |-> old.held \cup conns, refused |-> old.refused \/ conns = {}]
<1>1. old \in CallRecords /\ old.needs # <<>>
  BY DEF CallsOK
<1>2. /\ thread' = [thread EXCEPT ![t] = new]
      /\ thread \in [Threads -> CallRecords]
  BY DEF Return, CallsOK
<1>3. Tail(old.needs) \in Seq({"read", "write"})
  <2>1. old.needs \in Seq({"read", "write"})
    BY <1>1 DEF CallRecords
  <2> QED BY <1>1, <2>1, HeadAndTail
<1>4. /\ NextStep(Tail(old.needs)) \in {"read", "write", "work"}
      /\ NextStep(Tail(old.needs)) # "work" => Tail(old.needs) # <<>>
  BY <1>3, HeadAndTail DEF NextStep
<1>5. new \in CallRecords
  <2>1. new.held \in SUBSET Handles /\ new.refused \in BOOLEAN
    BY <1>1 DEF CallRecords
  <2> QED BY <1>3, <1>4, <2>1 DEF CallRecords, Steps
<1> HIDE DEF new
<1>6. /\ thread'[t] = new /\ thread' \in [Threads -> CallRecords]
      /\ \A u \in Threads \ {t} : thread'[u] = thread[u]
  BY <1>2, <1>5
<1>7. /\ new.pc = NextStep(Tail(old.needs)) /\ new.needs = Tail(old.needs)
      /\ new.held = thread[t].held \cup conns
  BY DEF new
<1>8. new.pc # "idle" /\ (new.pc # "work" => new.needs # <<>>)
  BY <1>4, <1>7
<1>9. CallsOK'
  BY <1>6, <1>8 DEF CallsOK
<1> QED BY <1>6, <1>7, <1>9

LEMMA GotoEffect ==
    ASSUME CallsOK, NEW t \in Threads, thread[t].pc \notin {"idle", "work"},
           NEW pc \in Steps \ {"idle"}, Goto(t, pc)
    PROVE  /\ CallsOK'
           /\ \A u \in Threads : thread'[u].held = thread[u].held
<1>1. /\ thread \in [Threads -> CallRecords] /\ thread[t].needs # <<>>
      /\ thread' = [thread EXCEPT ![t] = [@ EXCEPT !.pc = pc]]
  BY DEF Goto, CallsOK
<1>2. [thread[t] EXCEPT !.pc = pc] \in CallRecords
  BY <1>1 DEF CallRecords
<1>3. thread' \in [Threads -> CallRecords]
  BY <1>1, <1>2
<1>4. /\ thread'[t].pc = pc /\ thread'[t].needs = thread[t].needs
      /\ thread'[t].held = thread[t].held
      /\ \A u \in Threads \ {t} : thread'[u] = thread[u]
  BY <1>1 DEF CallRecords
<1>5. CallsOK'
  BY <1>1, <1>3, <1>4 DEF CallsOK
<1> QED BY <1>4, <1>5

LEMMA CallEffect ==
    ASSUME CallsOK, NEW t \in Threads, NEW job \in Jobs, Call(t, job)
    PROVE  /\ CallsOK'
           /\ \A u \in Threads : thread'[u].held = thread[u].held
<1> DEFINE new == [pc |-> NextStep(Needs(job)), needs |-> Needs(job),
                   held |-> {}, refused |-> FALSE]
<1>1. /\ Needs(job) \in Seq({"read", "write"}) /\ Needs(job) # <<>>
      /\ Head(Needs(job)) \in {"read", "write"}
  <2>1. job \in {"send", "read", "write"}
    BY JobsAssumption
  <2>2. CASE job = "send"
    BY <2>2 DEF Needs
  <2>3. CASE job = "read"
    BY <2>3 DEF Needs
  <2>4. CASE job = "write"
    BY <2>4 DEF Needs
  <2> QED BY <2>1, <2>2, <2>3, <2>4
<1>2. new \in CallRecords /\ new.pc # "idle" /\ new.needs # <<>> /\ new.held = {}
  BY <1>1 DEF NextStep, CallRecords, Steps
<1>3. /\ thread' = [thread EXCEPT ![t] = new] /\ thread[t].held = {}
      /\ thread \in [Threads -> CallRecords]
  BY DEF Call, At, CallsOK
<1> HIDE DEF new
<1>4. /\ thread'[t] = new /\ thread' \in [Threads -> CallRecords]
      /\ \A u \in Threads \ {t} : thread'[u] = thread[u]
  BY <1>2, <1>3
<1> QED BY <1>2, <1>3, <1>4 DEF CallsOK

LEMMA WorkEffect ==
    ASSUME CallsOK, NEW t \in Threads,
           (\E c \in Handles : Release(t, c)) \/ Finish(t)
    PROVE  CallsOK'
<1>1. CASE Finish(t)
  <2>1. NoCall \in CallRecords /\ NoCall.pc = "idle" /\ NoCall.held = {}
    BY DEF NoCall, CallRecords, Steps
  <2>2. /\ thread \in [Threads -> CallRecords]
        /\ thread' = [thread EXCEPT ![t] = NoCall]
    BY <1>1 DEF Finish, CallsOK
  <2>3. /\ thread'[t] = NoCall /\ thread' \in [Threads -> CallRecords]
        /\ \A u \in Threads \ {t} : thread'[u] = thread[u]
    BY <2>1, <2>2
  <2> QED BY <2>1, <2>3 DEF CallsOK
<1>2. ASSUME NEW c \in Handles, Release(t, c) PROVE CallsOK'
  <2>1. /\ thread \in [Threads -> CallRecords] /\ thread[t].pc = "work"
        /\ thread' = [thread EXCEPT ![t] = [@ EXCEPT !.held = thread[t].held \ {c}]]
    BY <1>2 DEF Release, CallsOK, At
  <2>2. /\ [thread[t] EXCEPT !.held = thread[t].held \ {c}] \in CallRecords
        /\ [thread[t] EXCEPT !.held = thread[t].held \ {c}].pc = "work"
    BY <2>1 DEF CallRecords
  <2>3. /\ thread'[t].pc = "work" /\ thread' \in [Threads -> CallRecords]
        /\ \A u \in Threads \ {t} : thread'[u] = thread[u]
    BY <2>1, <2>2
  <2> QED BY <2>3 DEF CallsOK
<1> QED BY <1>1, <1>2

-------------------------------------------------------------------------------
(* The connections *)

Connected(p) == {c \in Handles : host[c] \in HostsOf(p)}

(* A connection is in the queue of its pool, once, or with one thread.     *)
Placed ==
    /\ \A p \in Pools : \A c \in Elements(queue[p]) : host[c] \in HostsOf(p)
    /\ \A t \in Threads : \A c \in thread[t].held :
           host[c] # Closed /\ \A p \in Pools : c \notin Elements(queue[p])
    /\ \A t, u \in Threads : t # u => thread[t].held \cap thread[u].held = {}
    /\ \A c \in Handles : host[c] # Closed =>
           \/ \E p \in Pools : c \in Elements(queue[p])
           \/ \E t \in Threads : c \in thread[t].held

Queued == \A p \in Pools : IsInjective(queue[p])
Counted == \A p \in Pools : active[p] = Cardinality(Connected(p))

PoolInv == PoolTypeOK /\ CallsOK /\ Placed /\ Queued /\ Counted

LEMMA HostFacts ==
    /\ \A p \in Pools : HostsOf(p) \subseteq Hosts
    /\ Closed \notin Hosts
    /\ HostsOf("master") \cap HostsOf("slave") = {}
    /\ HostsOf("master") \cup HostsOf("slave") = Hosts
    /\ Pools = {"master", "slave"}
BY HostsAssumption DEF Pools, HostsOf, Hosts

LEMMA ConnectedFacts ==
    ASSUME NEW p \in Pools
    PROVE  /\ IsFiniteSet(Connected(p)) /\ Cardinality(Connected(p)) \in Nat
           /\ IsFiniteSet(Connected(p)') /\ Cardinality(Connected(p)') \in Nat
<1>1. Connected(p) \subseteq Handles /\ Connected(p)' \subseteq Handles
  BY DEF Connected
<1> QED BY <1>1, FS_Subset, FS_CardinalityType, HandlesAssumption

(* A pool below its limit leaves a handle that is not connected.           *)
LEMMA HandleLeft ==
    ASSUME PoolInv, NEW p \in Pools, active[p] < MaxConns
    PROVE  NewHandle \in Handles /\ host[NewHandle] = Closed
<1> DEFINE M == Connected("master")
           S == Connected("slave")
<1>1. /\ IsFiniteSet(M) /\ Cardinality(M) \in Nat /\ Cardinality(M) <= MaxConns
      /\ IsFiniteSet(S) /\ Cardinality(S) \in Nat /\ Cardinality(S) <= MaxConns
      /\ Cardinality(M) < MaxConns \/ Cardinality(S) < MaxConns
  BY ConnectedFacts, HostFacts, BoundsAssumption DEF PoolInv, PoolTypeOK, Counted
<1>2. IsFiniteSet(M \cup S) /\ Cardinality(M \cup S) \in Nat
      /\ Cardinality(M \cup S) <= Cardinality(M) + Cardinality(S)
  <2>1. /\ IsFiniteSet(M \cup S) /\ IsFiniteSet(M \cap S)
        /\ Cardinality(M \cup S) = Cardinality(M) + Cardinality(S) - Cardinality(M \cap S)
    BY <1>1, FS_Union, FS_Intersection
  <2>2. Cardinality(M \cup S) \in Nat /\ Cardinality(M \cap S) \in Nat
    BY <2>1, FS_CardinalityType
  <2> QED BY <1>1, <2>1, <2>2
<1>3. M \cup S # Handles
  <2> SUFFICES ASSUME M \cup S = Handles PROVE FALSE
    OBVIOUS
  <2>1. Cardinality(Handles) <= Cardinality(M) + Cardinality(S)
    BY <1>2
  <2>2. /\ Cardinality(Handles) \in Nat /\ MaxConns \in Nat
        /\ Cardinality(Handles) >= 2 * MaxConns
    BY <1>2, HandlesAssumption, BoundsAssumption
  <2> HIDE DEF M, S
  <2> QED BY <1>1, <2>1, <2>2
<1>4. PICK c \in Handles : c \notin M \cup S
  BY <1>3 DEF Connected
<1>5. host[c] = Closed
  BY <1>4, HostFacts DEF PoolInv, PoolTypeOK, Connected
<1> QED BY <1>5 DEF NewHandle

(* Steps that move no connection *)
LEMMA StillStep ==
    ASSUME PoolInv, PoolTypeOK', CallsOK', UNCHANGED <<queue, active, host>>,
           \A t \in Threads : thread'[t].held = thread[t].held
    PROVE  PoolInv'
<1>1. Placed'
  BY DEF PoolInv, Placed, Elements
<1>2. Queued' /\ Counted'
  BY DEF PoolInv, Queued, Counted, Connected
<1> QED BY <1>1, <1>2 DEF PoolInv

LEMMA CreateStep ==
    ASSUME PoolInv, NEW t \in Threads, thread[t].pc \notin {"idle", "work"},
           NEW p \in Pools, Create(t, p)
    PROVE  PoolInv'
<1> DEFINE c == NewHandle
<1>1. PICK h \in HostsOf(p) : host' = [host EXCEPT ![c] = h]
  BY DEF Create
<1>2. /\ queue' = queue /\ active[p] < MaxConns /\ Return(t, {c})
      /\ active' = [active EXCEPT ![p] = @ + 1]
      /\ UNCHANGED <<broken, serverVars>>
  BY DEF Create
<1>3. c \in Handles /\ host[c] = Closed
  BY <1>2, HandleLeft
<1> HIDE DEF c
<1>4. /\ CallsOK' /\ thread'[t].held = thread[t].held \cup {c}
      /\ \A u \in Threads \ {t} : thread'[u] = thread[u]
  BY <1>2, <1>3, ReturnEffect DEF PoolInv
<1>5. /\ host'[c] = h /\ h \in Hosts /\ h # Closed
      /\ \A d \in Handles \ {c} : host'[d] = host[d]
      /\ host' \in [Handles -> Hosts \cup {Closed}]
  BY <1>1, <1>3, HostFacts DEF PoolInv, PoolTypeOK
<1>6. /\ \A q \in Pools : c \notin Elements(queue[q])
      /\ \A u \in Threads : c \notin thread[u].held
  BY <1>3, HostFacts DEF PoolInv, Placed
<1>7. Elements(queue[p]) \subseteq Handles /\ \A q \in Pools : Elements(queue[q]) \subseteq Handles
  BY DEF PoolInv, PoolTypeOK, Elements
<1>8. Placed'
  <2> USE DEF PoolInv
  <2>1. \A q \in Pools : Elements(queue[q])' = Elements(queue[q])
    BY <1>2 DEF Elements
  <2>2. \A q \in Pools : \A d \in Elements(queue'[q]) : host'[d] \in HostsOf(q)
    BY <1>2, <1>5, <1>6, <1>7 DEF Placed
  <2>3. ASSUME NEW u \in Threads, NEW d \in thread'[u].held
        PROVE  host'[d] # Closed /\ \A q \in Pools : d \notin Elements(queue'[q])
    <3>1. thread[u].held \subseteq Handles
      BY DEF CallsOK, CallRecords
    <3> QED BY <1>2, <1>4, <1>5, <1>6, <2>3, <3>1 DEF Placed
  <2>4. ASSUME NEW u \in Threads, NEW w \in Threads, u # w
        PROVE  thread'[u].held \cap thread'[w].held = {}
    BY <1>4, <1>6, <2>4 DEF Placed
  <2>5. ASSUME NEW d \in Handles, host'[d] # Closed
        PROVE  \/ \E q \in Pools : d \in Elements(queue'[q])
               \/ \E u \in Threads : d \in thread'[u].held
    <3>1. CASE d = c
      BY <1>4, <3>1
    <3>2. CASE d # c
      <4>1. host[d] # Closed
        BY <1>5, <2>5, <3>2
      <4> QED BY <1>2, <1>4, <4>1 DEF Placed
    <3> QED BY <3>1, <3>2
  <2> QED BY <2>2, <2>3, <2>4, <2>5 DEF Placed, Elements
<1>9. Queued'
  BY <1>2 DEF PoolInv, Queued
<1>10. Counted' /\ active' \in [Pools -> 0..MaxConns]
  <2>1. Connected(p)' = Connected(p) \cup {c} /\ c \notin Connected(p)
    BY <1>1, <1>3, <1>5, HostFacts DEF Connected
  <2>2. \A q \in Pools \ {p} : Connected(q)' = Connected(q)
    BY <1>1, <1>3, <1>5, HostFacts DEF Connected
  <2>3. Cardinality(Connected(p)') = Cardinality(Connected(p)) + 1
    BY <2>1, ConnectedFacts, FS_AddElement
  <2>4. active \in [Pools -> 0..MaxConns] /\ active[p] \in 0..MaxConns
    BY DEF PoolInv, PoolTypeOK
  <2>5. active'[p] = active[p] + 1 /\ \A q \in Pools \ {p} : active'[q] = active[q]
    BY <1>2, <2>4
  <2>6. active' \in [Pools -> 0..MaxConns]
    BY <1>2, <2>4, BoundsAssumption
  <2> QED BY <2>2, <2>3, <2>5, <2>6 DEF PoolInv, Counted
<1>11. PoolTypeOK'
  <2>1. slaveLock' \in Threads \cup {Nobody}
    BY <1>2 DEF Return, Unlock, PoolInv, PoolTypeOK
  <2> QED BY <1>2, <1>4, <1>5, <1>10, <2>1
          DEF PoolInv, PoolTypeOK, CallsOK, CallRecords, serverVars
<1> QED BY <1>4, <1>8, <1>9, <1>10, <1>11 DEF PoolInv

(* Steps that take the front c of the queue of p, to which c is connected  *)
(* before and, unless it is dropped, after.                                *)
LEMMA FrontFacts ==
    ASSUME PoolInv, NEW p \in Pools, queue[p] # <<>>,
           queue' = [queue EXCEPT ![p] = Tail(@)]
    PROVE  LET c == Head(queue[p])
           IN  /\ c \in Handles /\ host[c] \in HostsOf(p)
               /\ \A u \in Threads : c \notin thread[u].held
               /\ \A q \in Pools : c \notin Elements(queue'[q])
               /\ Elements(queue[p]) = Elements(queue'[p]) \cup {c}
               /\ \A q \in Pools \ {p} : queue'[q] = queue[q]
               /\ Queued'
               /\ queue' \in [Pools -> Seq(Handles)]
<1> DEFINE c == Head(queue[p])
<1>1. queue \in [Pools -> Seq(Handles)] /\ queue[p] \in Seq(Handles) /\ queue[p] # <<>>
  BY DEF PoolInv, PoolTypeOK
<1>2. /\ c \in Handles /\ Tail(queue[p]) \in Seq(Handles) /\ c = queue[p][1]
      /\ 1 \in DOMAIN queue[p]
      /\ \A i \in DOMAIN Tail(queue[p]) : /\ i \in Nat /\ i # 0 /\ i + 1 \in DOMAIN queue[p]
                                          /\ Tail(queue[p])[i] = queue[p][i + 1]
      /\ \A i \in DOMAIN queue[p] \ {1} : i - 1 \in DOMAIN Tail(queue[p]) /\ i \in Nat
  BY <1>1, HeadAndTail
<1>3. queue'[p] = Tail(queue[p]) /\ \A q \in Pools \ {p} : queue'[q] = queue[q]
  BY <1>1
<1>4. queue' \in [Pools -> Seq(Handles)]
  <2>1. Tail(queue[p]) \in Seq(Handles)
    BY <1>2
  <2> QED BY <1>1, <2>1
<1>5. c \in Elements(queue[p])
  BY <1>2 DEF Elements
<1>6. IsInjective(queue[p])
  BY DEF PoolInv, Queued
<1>7. c \notin Elements(queue'[p])
  <2>1. ASSUME NEW i \in DOMAIN Tail(queue[p]), Tail(queue[p])[i] = c PROVE FALSE
    <3>1. i + 1 = 1
      BY <1>2, <1>6, <2>1 DEF IsInjective
    <3> QED BY <1>2, <3>1
  <2> QED BY <1>3, <2>1 DEF Elements
<1>8. Elements(queue[p]) = Elements(queue'[p]) \cup {c}
  <2>1. ASSUME NEW x \in Elements(queue[p]), x # c PROVE x \in Elements(queue'[p])
    <3>1. PICK i \in DOMAIN queue[p] : x = queue[p][i]
      BY <2>1 DEF Elements
    <3>2. i # 1
      BY <1>2, <2>1, <3>1
    <3>3. i - 1 \in DOMAIN Tail(queue[p]) /\ (i - 1) + 1 = i
      BY <1>2, <3>1, <3>2
    <3>4. Tail(queue[p])[i - 1] = x
      BY <1>2, <3>1, <3>3
    <3> QED BY <1>3, <3>3, <3>4 DEF Elements
  <2>2. Elements(queue'[p]) \subseteq Elements(queue[p])
    BY <1>2, <1>3 DEF Elements
  <2> QED BY <1>5, <2>1, <2>2
<1>9. host[c] \in HostsOf(p) /\ \A u \in Threads : c \notin thread[u].held
  BY <1>5 DEF PoolInv, Placed
<1>10. \A q \in Pools : c \notin Elements(queue'[q])
  BY <1>3, <1>7, <1>9, HostFacts DEF PoolInv, Placed
<1>11. IsInjective(queue'[p])
  BY <1>2, <1>3, <1>6 DEF IsInjective
<1>12. Queued'
  BY <1>3, <1>11 DEF PoolInv, Queued
<1> QED BY <1>2, <1>3, <1>4, <1>8, <1>9, <1>10, <1>12

(* The thread that took the front uses it, as it is or connected anew.     *)
LEMMA TakeStep ==
    ASSUME PoolInv, NEW t \in Threads, thread[t].pc \notin {"idle", "work"},
           NEW p \in Pools, queue[p] # <<>>,
           queue' = [queue EXCEPT ![p] = Tail(@)],
           NEW h \in HostsOf(p), host' = [host EXCEPT ![Head(queue[p])] = h],
           Return(t, {Head(queue[p])}), UNCHANGED <<active, down, outages>>,
           broken' \subseteq broken
    PROVE  PoolInv'
<1> DEFINE c == Head(queue[p])
<1>1. /\ c \in Handles /\ host[c] \in HostsOf(p)
      /\ \A u \in Threads : c \notin thread[u].held
      /\ \A q \in Pools : c \notin Elements(queue'[q])
      /\ Elements(queue[p]) = Elements(queue'[p]) \cup {c}
      /\ \A q \in Pools \ {p} : queue'[q] = queue[q]
      /\ Queued'
      /\ queue' \in [Pools -> Seq(Handles)]
  BY FrontFacts
<1>2. host' = [host EXCEPT ![c] = h] /\ Return(t, {c})
  OBVIOUS
<1> HIDE DEF c
<1>3. /\ host'[c] = h /\ h \in Hosts /\ h # Closed
      /\ \A d \in Handles \ {c} : host'[d] = host[d]
      /\ host' \in [Handles -> Hosts \cup {Closed}]
  BY <1>1, <1>2, HostFacts DEF PoolInv, PoolTypeOK
<1>4. /\ CallsOK' /\ thread'[t].held = thread[t].held \cup {c}
      /\ \A u \in Threads \ {t} : thread'[u] = thread[u]
  BY <1>1, <1>2, ReturnEffect DEF PoolInv
<1>5. \A q \in Pools : /\ Elements(queue'[q]) \subseteq Elements(queue[q])
                       /\ Elements(queue'[q]) \subseteq Handles
  <2>1. \A q \in Pools : Elements(queue'[q]) \subseteq Elements(queue[q])
    BY <1>1
  <2>2. \A q \in Pools : Elements(queue[q]) \subseteq Handles
    BY DEF Elements, PoolInv, PoolTypeOK
  <2> QED BY <2>1, <2>2
<1>6. Placed'
  <2> USE DEF PoolInv
  <2>1. \A q \in Pools : \A d \in Elements(queue'[q]) : host'[d] \in HostsOf(q)
    BY <1>1, <1>3, <1>5 DEF Placed
  <2>2. ASSUME NEW u \in Threads, NEW d \in thread'[u].held
        PROVE  host'[d] # Closed /\ \A q \in Pools : d \notin Elements(queue'[q])
    <3>1. thread[u].held \subseteq Handles
      BY DEF CallsOK, CallRecords
    <3> QED BY <1>1, <1>3, <1>4, <1>5, <2>2, <3>1 DEF Placed
  <2>3. ASSUME NEW u \in Threads, NEW w \in Threads, u # w
        PROVE  thread'[u].held \cap thread'[w].held = {}
    BY <1>1, <1>4, <2>3 DEF Placed
  <2>4. ASSUME NEW d \in Handles, host'[d] # Closed
        PROVE  \/ \E q \in Pools : d \in Elements(queue'[q])
               \/ \E u \in Threads : d \in thread'[u].held
    <3>1. CASE d = c
      BY <1>4, <3>1
    <3>2. CASE d # c
      <4>1. host[d] # Closed
        BY <1>3, <2>4, <3>2
      <4> QED BY <1>1, <1>4, <3>2, <4>1 DEF Placed
    <3> QED BY <3>1, <3>2
  <2> QED BY <2>1, <2>2, <2>3, <2>4 DEF Placed, Elements
<1>7. Counted'
  <2>1. ASSUME NEW q \in Pools PROVE Connected(q)' = Connected(q)
    BY <1>1, <1>3, HostFacts DEF Connected
  <2> QED BY <2>1 DEF PoolInv, Counted
<1>8. PoolTypeOK'
  <2>1. slaveLock' \in Threads \cup {Nobody}
    BY <1>2 DEF Return, Unlock, PoolInv, PoolTypeOK
  <2> QED BY <1>1, <1>3, <1>4, <2>1 DEF PoolInv, PoolTypeOK, CallsOK, CallRecords
<1> QED BY <1>1, <1>4, <1>6, <1>7, <1>8 DEF PoolInv

(* The front was broken and cannot be replaced: it is closed and no longer *)
(* counted.                                                                *)
LEMMA DropStep ==
    ASSUME PoolInv, NEW t \in Threads, thread[t].pc \notin {"idle", "work"},
           NEW p \in Pools, queue[p] # <<>>,
           queue' = [queue EXCEPT ![p] = Tail(@)],
           Drop(t, p, Head(queue[p])), UNCHANGED <<down, outages>>,
           broken' \subseteq broken
    PROVE  PoolInv'
<1> DEFINE c == Head(queue[p])
<1>1. /\ c \in Handles /\ host[c] \in HostsOf(p)
      /\ \A u \in Threads : c \notin thread[u].held
      /\ \A q \in Pools : c \notin Elements(queue'[q])
      /\ Elements(queue[p]) = Elements(queue'[p]) \cup {c}
      /\ \A q \in Pools \ {p} : queue'[q] = queue[q]
      /\ Queued'
      /\ queue' \in [Pools -> Seq(Handles)]
  BY FrontFacts
<1>2. /\ host' = [host EXCEPT ![c] = Closed] /\ Return(t, {})
      /\ active' = [active EXCEPT ![p] = @ - 1]
  BY DEF Drop
<1> HIDE DEF c
<1>3. /\ host'[c] = Closed
      /\ \A d \in Handles \ {c} : host'[d] = host[d]
      /\ host' \in [Handles -> Hosts \cup {Closed}]
  BY <1>1, <1>2 DEF PoolInv, PoolTypeOK
<1>4. CallsOK' /\ \A u \in Threads : thread'[u].held = thread[u].held
  <2>1. /\ CallsOK' /\ thread'[t].held = thread[t].held \cup {}
        /\ \A u \in Threads \ {t} : thread'[u] = thread[u]
    BY <1>2, ReturnEffect DEF PoolInv
  <2> QED BY <2>1
<1>5. \A q \in Pools : /\ Elements(queue'[q]) \subseteq Elements(queue[q])
                       /\ Elements(queue'[q]) \subseteq Handles
  <2>1. \A q \in Pools : Elements(queue'[q]) \subseteq Elements(queue[q])
    BY <1>1
  <2>2. \A q \in Pools : Elements(queue[q]) \subseteq Handles
    BY DEF Elements, PoolInv, PoolTypeOK
  <2> QED BY <2>1, <2>2
<1>6. Placed'
  <2> USE DEF PoolInv
  <2>1. \A q \in Pools : \A d \in Elements(queue'[q]) : host'[d] \in HostsOf(q)
    BY <1>1, <1>3, <1>5 DEF Placed
  <2>2. ASSUME NEW u \in Threads, NEW d \in thread'[u].held
        PROVE  host'[d] # Closed /\ \A q \in Pools : d \notin Elements(queue'[q])
    <3>1. thread[u].held \subseteq Handles
      BY DEF CallsOK, CallRecords
    <3> QED BY <1>1, <1>3, <1>4, <1>5, <2>2, <3>1 DEF Placed
  <2>3. ASSUME NEW u \in Threads, NEW w \in Threads, u # w
        PROVE  thread'[u].held \cap thread'[w].held = {}
    BY <1>4, <2>3 DEF Placed
  <2>4. ASSUME NEW d \in Handles, host'[d] # Closed
        PROVE  \/ \E q \in Pools : d \in Elements(queue'[q])
               \/ \E u \in Threads : d \in thread'[u].held
    <3>1. d # c /\ host[d] # Closed
      BY <1>3, <2>4
    <3> QED BY <1>1, <1>4, <3>1 DEF Placed
  <2> QED BY <2>1, <2>2, <2>3, <2>4 DEF Placed, Elements
<1>7. Counted' /\ active' \in [Pools -> 0..MaxConns]
  <2>1. Connected(p)' = Connected(p) \ {c} /\ c \in Connected(p)
    BY <1>1, <1>3, HostFacts DEF Connected
  <2>2. \A q \in Pools \ {p} : Connected(q)' = Connected(q)
    BY <1>1, <1>3, HostFacts DEF Connected
  <2>3. Cardinality(Connected(p)') = Cardinality(Connected(p)) - 1
        /\ Cardinality(Connected(p)') \in Nat
    BY <2>1, ConnectedFacts, FS_RemoveElement
  <2>4. active \in [Pools -> 0..MaxConns] /\ active[p] = Cardinality(Connected(p))
    BY DEF PoolInv, PoolTypeOK, Counted
  <2>5. active'[p] = active[p] - 1 /\ \A q \in Pools \ {p} : active'[q] = active[q]
    BY <1>2, <2>4
  <2>6. active[p] - 1 \in 0..MaxConns
    BY <2>3, <2>4, BoundsAssumption
  <2>7. active' \in [Pools -> 0..MaxConns]
    BY <1>2, <2>4, <2>6
  <2> QED BY <2>2, <2>3, <2>4, <2>5, <2>7 DEF PoolInv, Counted
<1>8. PoolTypeOK'
  <2>1. slaveLock' \in Threads \cup {Nobody}
    BY <1>2 DEF Return, Unlock, PoolInv, PoolTypeOK
  <2> QED BY <1>1, <1>3, <1>4, <1>7, <2>1 DEF PoolInv, PoolTypeOK, CallsOK, CallRecords
<1> QED BY <1>1, <1>4, <1>6, <1>7, <1>8 DEF PoolInv

LEMMA AppendElements ==
    ASSUME NEW S, NEW s \in Seq(S), NEW x \in S
    PROVE  /\ Append(s, x) \in Seq(S)
           /\ Elements(Append(s, x)) = Elements(s) \cup {x}
           /\ IsInjective(s) /\ x \notin Elements(s) => IsInjective(Append(s, x))
<1>1. /\ Append(s, x) \in Seq(S)
      /\ DOMAIN Append(s, x) = DOMAIN s \cup {Len(s) + 1}
      /\ Len(s) + 1 \notin DOMAIN s
      /\ Append(s, x)[Len(s) + 1] = x
      /\ \A i \in DOMAIN s : Append(s, x)[i] = s[i]
  OBVIOUS
<1>2. Elements(Append(s, x)) = Elements(s) \cup {x}
  BY <1>1 DEF Elements
<1>3. IsInjective(s) /\ x \notin Elements(s) => IsInjective(Append(s, x))
  BY <1>1 DEF Elements, IsInjective
<1> QED BY <1>1, <1>2, <1>3

LEMMA ReleaseStep ==
    ASSUME PoolInv, NEW t \in Threads, NEW c \in Handles, Release(t, c)
    PROVE  PoolInv'
<1> DEFINE p == PoolOf(c)
<1>1. /\ c \in thread[t].held
      /\ queue' = [queue EXCEPT ![p] = Append(@, c)]
      /\ thread' = [thread EXCEPT ![t] = [@ EXCEPT !.held = thread[t].held \ {c}]]
      /\ UNCHANGED <<active, slaveLock, host, broken, serverVars>>
  BY DEF Release
<1>2. p \in Pools /\ host[c] \in HostsOf(p)
  <2>1. host[c] # Closed /\ host[c] \in Hosts \cup {Closed}
    BY <1>1 DEF PoolInv, PoolTypeOK, Placed
  <2> QED BY <2>1 DEF PoolOf, Pools, HostsOf, Hosts
<1> HIDE DEF p
<1>3. CallsOK'
  BY WorkEffect DEF PoolInv
<1>4. /\ thread'[t].held = thread[t].held \ {c}
      /\ \A u \in Threads \ {t} : thread'[u] = thread[u]
  BY <1>1 DEF PoolInv, CallsOK, CallRecords
<1>5. /\ \A u \in Threads \ {t} : c \notin thread[u].held
      /\ \A q \in Pools : c \notin Elements(queue[q])
  BY <1>1 DEF PoolInv, Placed
<1>6. /\ queue \in [Pools -> Seq(Handles)] /\ queue[p] \in Seq(Handles)
      /\ queue'[p] = Append(queue[p], c)
      /\ \A q \in Pools \ {p} : queue'[q] = queue[q]
  BY <1>1, <1>2 DEF PoolInv, PoolTypeOK
<1>7. /\ queue'[p] \in Seq(Handles)
      /\ Elements(queue'[p]) = Elements(queue[p]) \cup {c}
      /\ IsInjective(queue'[p])
  BY <1>2, <1>5, <1>6, AppendElements DEF PoolInv, Queued
<1>8. queue' \in [Pools -> Seq(Handles)]
  <2>1. Append(queue[p], c) \in Seq(Handles)
    BY <1>6, <1>7
  <2> QED BY <1>1, <1>6, <2>1
<1>9. Placed'
  <2> USE DEF PoolInv
  <2>1. \A q \in Pools : \A d \in Elements(queue'[q]) : host'[d] \in HostsOf(q)
    BY <1>1, <1>2, <1>6, <1>7 DEF Placed
  <2>2. ASSUME NEW u \in Threads, NEW d \in thread'[u].held
        PROVE  host'[d] # Closed /\ \A q \in Pools : d \notin Elements(queue'[q])
    BY <1>1, <1>4, <1>5, <1>6, <1>7, <2>2 DEF Placed
  <2>3. ASSUME NEW u \in Threads, NEW w \in Threads, u # w
        PROVE  thread'[u].held \cap thread'[w].held = {}
    BY <1>4, <2>3 DEF Placed
  <2>4. ASSUME NEW d \in Handles, host'[d] # Closed
        PROVE  \/ \E q \in Pools : d \in Elements(queue'[q])
               \/ \E u \in Threads : d \in thread'[u].held
    BY <1>1, <1>2, <1>4, <1>6, <1>7, <2>4 DEF Placed
  <2> QED BY <2>1, <2>2, <2>3, <2>4 DEF Placed, Elements
<1>10. Queued' /\ Counted'
  BY <1>1, <1>6, <1>7 DEF PoolInv, Queued, Counted, Connected
<1>11. PoolTypeOK'
  BY <1>1, <1>3, <1>8 DEF PoolInv, PoolTypeOK, CallsOK, CallRecords, serverVars
<1> QED BY <1>3, <1>9, <1>10, <1>11 DEF PoolInv

(* Take, in whichever way it ends.                                         *)
LEMMA AnyTakeStep ==
    ASSUME PoolInv, NEW t \in Threads, thread[t].pc \notin {"idle", "work"},
           NEW p \in Pools, Take(t, p)
    PROVE  PoolInv'
<1> DEFINE c == Head(queue[p])
<1>1. /\ queue[p] # <<>> /\ queue' = [queue EXCEPT ![p] = Tail(@)]
      /\ broken' \subseteq broken /\ UNCHANGED <<down, outages>>
  BY DEF Take, serverVars
<1>2. CASE Return(t, {c}) /\ UNCHANGED <<host, active>>
  <2>1. c \in Handles /\ host[c] \in HostsOf(p)
    BY <1>1, FrontFacts
  <2>2. host' = [host EXCEPT ![c] = host[c]]
    BY <1>2, <2>1 DEF PoolInv, PoolTypeOK
  <2> QED BY <1>1, <1>2, <2>1, <2>2, TakeStep
<1>3. ASSUME NEW h \in HostsOf(p), host' = [host EXCEPT ![c] = h],
             Return(t, {c}), UNCHANGED active
      PROVE  PoolInv'
  BY <1>1, <1>3, TakeStep
<1>4. CASE Drop(t, p, c)
  BY <1>1, <1>4, DropStep
<1> QED BY <1>2, <1>3, <1>4 DEF Take

-------------------------------------------------------------------------------
LEMMA ThreadStepKeeps ==
    ASSUME PoolInv, NEW t \in Threads, ThreadStep(t) PROVE PoolInv'
<1> DEFINE Still == PoolTypeOK' /\ CallsOK' /\ UNCHANGED <<queue, active, host>>
                    /\ \A u \in Threads : thread'[u].held = thread[u].held
<1>S. Still => PoolInv'
  BY StillStep
<1>P. "master" \in Pools /\ "slave" \in Pools /\ CallsOK
  BY DEF Pools, PoolInv
<1>1. ASSUME NEW p \in Pools, NEW pc \in Steps \ {"idle"},
             thread[t].pc \notin {"idle", "work"}, StartWait(t, p, pc)
      PROVE  Still
  <2>1. Goto(t, pc) /\ UNCHANGED <<poolVars, host, broken, serverVars>>
    BY <1>1 DEF StartWait
  <2>2. CallsOK' /\ \A u \in Threads : thread'[u].held = thread[u].held
    BY <1>1, <1>P, <2>1, GotoEffect
  <2> QED BY <2>1, <2>2 DEF PoolInv, PoolTypeOK, CallsOK, CallRecords, poolVars, serverVars
<1>2. CASE GetWrite(t)
  <2>1. thread[t].pc = "write" /\ "waitMaster" \in Steps
    BY <1>2 DEF GetWrite, At, Steps
  <2> QED BY <1>2, <1>1, <1>S, <1>P, <2>1, CreateStep, AnyTakeStep DEF GetWrite
<1>3. CASE WakeMaster(t)
  BY <1>3, <1>P, AnyTakeStep DEF WakeMaster, At
<1>4. CASE TimeoutMaster(t)
  <2>1. thread[t].pc = "waitMaster" /\ Return(t, {})
        /\ UNCHANGED <<queue, active, host, broken, serverVars>>
    BY <1>4 DEF TimeoutMaster, At
  <2>2. /\ CallsOK' /\ thread'[t].held = thread[t].held \cup {}
        /\ \A u \in Threads \ {t} : thread'[u] = thread[u]
    BY <1>P, <2>1, ReturnEffect
  <2>3. slaveLock' \in Threads \cup {Nobody}
    BY <2>1 DEF Return, Unlock, PoolInv, PoolTypeOK
  <2>4. PoolTypeOK'
    BY <2>1, <2>2, <2>3 DEF PoolInv, PoolTypeOK, CallsOK, CallRecords, serverVars
  <2> QED BY <1>S, <2>1, <2>2, <2>4
<1>5. CASE GetRead(t)
  <2>1. thread[t].pc = "read" /\ "write" \in Steps /\ "waitSlave" \in Steps
    BY <1>5 DEF GetRead, At, Steps
  <2>2. CASE Slaves = {}
    <3>1. Goto(t, "write") /\ UNCHANGED <<poolVars, host, broken, serverVars>>
      BY <1>5, <2>2 DEF GetRead
    <3>2. CallsOK' /\ \A u \in Threads : thread'[u].held = thread[u].held
      BY <1>P, <2>1, <3>1, GotoEffect
    <3>3. Still
      BY <3>1, <3>2 DEF PoolInv, PoolTypeOK, CallsOK, CallRecords, poolVars, serverVars
    <3> QED BY <1>S, <3>3
  <2>3. CASE Slaves # {}
    BY <1>5, <2>3, <1>1, <1>S, <1>P, <2>1, CreateStep, AnyTakeStep DEF GetRead
  <2> QED BY <2>2, <2>3
<1>6. CASE WakeSlave(t)
  BY <1>6, <1>P, AnyTakeStep DEF WakeSlave, At
<1>7. CASE TimeoutSlave(t)
  <2>1. /\ thread[t].pc = "waitSlave" /\ "write" \in Steps /\ Goto(t, "write")
        /\ slaveLock' = t /\ UNCHANGED <<queue, active, host, broken, serverVars>>
    BY <1>7 DEF TimeoutSlave, At, Steps
  <2>2. CallsOK' /\ \A u \in Threads : thread'[u].held = thread[u].held
    BY <1>P, <2>1, GotoEffect
  <2>3. Still
    BY <2>1, <2>2 DEF PoolInv, PoolTypeOK, CallsOK, CallRecords, serverVars
  <2> QED BY <1>S, <2>3
<1>8. ASSUME NEW c \in Handles, Release(t, c) PROVE PoolInv'
  BY <1>8, ReleaseStep
<1>9. CASE Finish(t)
  <2>1. CallsOK'
    BY <1>9, <1>P, WorkEffect
  <2>2. \A u \in Threads : thread'[u].held = thread[u].held
    BY <1>9, <1>P DEF Finish, NoCall, CallsOK, CallRecords
  <2>3. Still
    BY <1>9, <2>1, <2>2
       DEF Finish, PoolInv, PoolTypeOK, CallsOK, CallRecords, poolVars, serverVars
  <2> QED BY <1>S, <2>3
<1> QED BY <1>2, <1>3, <1>4, <1>5, <1>6, <1>7, <1>8, <1>9 DEF ThreadStep

LEMMA PoolStep == PoolInv /\ [Next]_vars => PoolInv'
<1> SUFFICES ASSUME PoolInv, [Next]_vars PROVE PoolInv'
  OBVIOUS
<1>1. ASSUME NEW t \in Threads, NEW job \in Jobs, Call(t, job) PROVE PoolInv'
  <2>1. CallsOK' /\ \A u \in Threads : thread'[u].held = thread[u].held
    BY <1>1, CallEffect DEF PoolInv
  <2>2. UNCHANGED <<poolVars, host, broken, serverVars>>
    BY <1>1 DEF Call
  <2>3. PoolTypeOK'
    BY <2>1, <2>2 DEF PoolInv, PoolTypeOK, CallsOK, CallRecords, poolVars, serverVars
  <2> QED BY <2>1, <2>2, <2>3, StillStep DEF poolVars
<1>2. ASSUME NEW t \in Threads, ThreadStep(t) PROVE PoolInv'
  BY <1>2, ThreadStepKeeps
<1>3. ASSUME NEW h \in Hosts, Outage(h) \/ Recover(h) PROVE PoolInv'
  <2>1. UNCHANGED <<poolVars, host, thread>>
    BY <1>3 DEF Outage, Recover
  <2>2. /\ broken' \subseteq Handles /\ down' \subseteq Hosts
        /\ outages' \in 0..MaxOutages
    BY <1>3, BoundsAssumption DEF Outage, Recover, PoolInv, PoolTypeOK
  <2>3. PoolTypeOK' /\ CallsOK'
    BY <2>1, <2>2 DEF PoolInv, PoolTypeOK, CallsOK, poolVars
  <2> QED BY <2>1, <2>3, StillStep DEF poolVars
<1>4. CASE UNCHANGED vars
  <2>1. UNCHANGED <<queue, active, slaveLock, host, broken, down, outages, thread>>
    BY <1>4 DEF vars, poolVars, serverVars
  <2>2. PoolTypeOK' /\ CallsOK'
    BY <2>1 DEF PoolInv, PoolTypeOK, CallsOK
  <2> QED BY <2>1, <2>2, StillStep
<1> QED BY <1>1, <1>2, <1>3, <1>4 DEF Next

-------------------------------------------------------------------------------
(* Init *)

(* The objects of a set have a numbering: the one Init uses is a sequence  *)
(* without repetitions.                                                    *)
LEMMA NumberingFacts ==
    ASSUME NEW S, IsFiniteSet(S)
    PROVE  /\ Cardinality(S) \in Nat
           /\ Numbering(S) \in [1..Cardinality(S) -> S]
           /\ Numbering(S) \in Seq(S) /\ Len(Numbering(S)) = Cardinality(S)
           /\ IsInjective(Numbering(S))
<1> DEFINE n == Cardinality(S)
<1>1. n \in Nat /\ ExistsBijection(1..n, S)
  BY FS_CardinalityType
<1>2. \E f \in [1..n -> S] : IsInjective(f)
  BY <1>1 DEF ExistsBijection, Bijection, Injection, IsInjective
<1>3. Numbering(S) \in [1..n -> S] /\ IsInjective(Numbering(S))
  BY <1>2 DEF Numbering
<1> QED BY <1>1, <1>3

(* A sequence without repetitions has as many elements as it is long.      *)
LEMMA ElementsCounted ==
    ASSUME NEW S, NEW s \in Seq(S), IsInjective(s)
    PROVE  Cardinality(Elements(s)) = Len(s)
<1>1. Len(s) \in Nat /\ DOMAIN s = 1..Len(s)
  OBVIOUS
<1>2. s \in Bijection(1..Len(s), Elements(s))
  BY <1>1 DEF Bijection, Injection, Surjection, Elements, IsInjective
<1> QED BY <1>1, <1>2, FS_CountingElements DEF ExistsBijection

LEMMA OpenedFacts ==
    /\ Cardinality(Slaves) \in Nat
    /\ Opened \in Seq(Handles) /\ Len(Opened) = 2 + Cardinality(Slaves)
    /\ IsInjective(Opened)
<1> DEFINE N == Numbering(Handles)
           n == Cardinality(Slaves)
<1>1. /\ Cardinality(Handles) \in Nat
      /\ N \in Seq(Handles) /\ Len(N) = Cardinality(Handles) /\ IsInjective(N)
  BY HandlesAssumption, NumberingFacts
<1>2. n \in Nat /\ 2 + n <= Len(N)
  BY <1>1, HandlesAssumption, BoundsAssumption, FS_CardinalityType
<1>3. Opened = SubSeq(N, 1, 2 + n)
  BY DEF Opened
<1> HIDE DEF N, n
<1>4. /\ Opened \in Seq(Handles) /\ Len(Opened) = 2 + n
      /\ DOMAIN Opened = 1..(2 + n) /\ DOMAIN N = 1..Len(N)
      /\ \A i \in 1..(2 + n) : Opened[i] = N[i]
  BY <1>1, <1>2, <1>3
<1>5. IsInjective(Opened)
  BY <1>1, <1>2, <1>4 DEF IsInjective
<1> QED BY <1>2, <1>4, <1>5 DEF n

LEMMA PoolInit == Init => PoolInv
<1> SUFFICES ASSUME Init PROVE PoolInv
  OBVIOUS
<1> PICK n \in Nat : n = Cardinality(Slaves)
  BY OpenedFacts
<1> DEFINE M == SubSeq(Opened, 1, 2)
           S == SubSeq(Opened, 3, 2 + n)
<1>1. /\ Opened \in Seq(Handles) /\ Len(Opened) = 2 + n /\ IsInjective(Opened)
      /\ DOMAIN Opened = 1..(2 + n)
      /\ n <= MaxConns
  BY OpenedFacts, HandlesAssumption
<1>2. /\ queue = [p \in Pools |-> IF p = "master" THEN M ELSE S]
      /\ queue["master"] = M /\ queue["slave"] = S
      /\ active = [p \in Pools |-> Len(queue[p])]
      /\ thread = [t \in Threads |-> NoCall]
      /\ slaveLock = Nobody /\ broken = {} /\ down = {} /\ outages = 0
  BY <1>1 DEF Init, Pools
<1>3. /\ M \in Seq(Handles) /\ Len(M) = 2 /\ DOMAIN M = 1..2
      /\ S \in Seq(Handles) /\ Len(S) = n /\ DOMAIN S = 1..n
      /\ \A i \in 1..2 : M[i] = Opened[i]
      /\ \A i \in 1..n : S[i] = Opened[i + 2]
  BY <1>1
<1> HIDE DEF M, S
<1>4. IsInjective(M) /\ IsInjective(S)
  <2>1. \A i, j \in 1..(2 + n) : Opened[i] = Opened[j] => i = j
    BY <1>1 DEF IsInjective
  <2>2. ASSUME NEW i \in DOMAIN S, NEW j \in DOMAIN S, S[i] = S[j] PROVE i = j
    <3>1. i + 2 \in 1..(2 + n) /\ j + 2 \in 1..(2 + n) /\ Opened[i + 2] = Opened[j + 2]
      BY <1>3, <2>2
    <3> QED BY <1>3, <2>1, <3>1
  <2>3. ASSUME NEW i \in DOMAIN M, NEW j \in DOMAIN M, M[i] = M[j] PROVE i = j
    BY <1>3, <2>1, <2>3
  <2> QED BY <2>2, <2>3 DEF IsInjective
<1>5. /\ Elements(M) = {Opened[1], Opened[2]}
      /\ Elements(S) = {Opened[i] : i \in 3..(2 + n)}
  <2>1. Elements(M) = {Opened[1], Opened[2]}
    BY <1>3 DEF Elements
  <2>2. \A i \in 3..(2 + n) : i - 2 \in 1..n /\ S[i - 2] = Opened[i]
    BY <1>3
  <2>3. Elements(S) = {Opened[i] : i \in 3..(2 + n)}
    BY <1>3, <2>2 DEF Elements
  <2> QED BY <2>1, <2>3
<1>6. \A c \in Handles :
          /\ c \in Elements(M) => host[c] = Master
          /\ c \in Elements(S) => host[c] \in Slaves
          /\ c \notin Elements(M) \cup Elements(S) => host[c] = Closed
  <2> SUFFICES ASSUME NEW c \in Handles
               PROVE  /\ c \in Elements(M) => host[c] = Master
                      /\ c \in Elements(S) => host[c] \in Slaves
                      /\ c \notin Elements(M) \cup Elements(S) => host[c] = Closed
    OBVIOUS
  <2> DEFINE k == CHOOSE i \in DOMAIN Opened : Opened[i] = c
  <2>1. host[c] = IF c \in {Opened[1], Opened[2]} THEN Master
                  ELSE IF \E i \in DOMAIN Opened : Opened[i] = c
                  THEN Numbering(Slaves)[k - 2] ELSE Closed
    BY DEF Init
  <2>2. (\E i \in DOMAIN Opened : Opened[i] = c) => k \in DOMAIN Opened /\ Opened[k] = c
    OBVIOUS
  <2> HIDE DEF k
  <2>3. CASE c \in Elements(M)
    <3>1. c \notin Elements(S)
      <4>1. \A i \in 3..(2 + n) : Opened[i] # Opened[1] /\ Opened[i] # Opened[2]
        BY <1>1 DEF IsInjective
      <4> QED BY <1>5, <2>3, <4>1
    <3> QED BY <1>5, <2>1, <2>3, <3>1
  <2>4. CASE c \in Elements(S) \ Elements(M)
    <3>1. \E i \in DOMAIN Opened : Opened[i] = c
      BY <1>1, <1>5, <2>4
    <3>2. k \in 1..(2 + n) /\ k # 1 /\ k # 2
      BY <1>1, <1>5, <2>2, <2>4, <3>1
    <3>3. k - 2 \in 1..n
      BY <3>2
    <3>4. Numbering(Slaves)[k - 2] \in Slaves
      <4>1. Numbering(Slaves) \in [1..n -> Slaves]
        BY HandlesAssumption, NumberingFacts
      <4> QED BY <3>3, <4>1
    <3> QED BY <1>5, <2>1, <2>4, <3>1, <3>4
  <2>5. CASE c \notin Elements(M) \cup Elements(S)
    <3>1. \A i \in DOMAIN Opened : i \in {1, 2} \/ i \in 3..(2 + n)
      BY <1>1
    <3>2. c \notin {Opened[1], Opened[2]} /\ ~\E i \in DOMAIN Opened : Opened[i] = c
      BY <1>5, <2>5, <3>1
    <3> QED BY <2>1, <2>5, <3>2
  <2> QED BY <2>3, <2>4, <2>5
<1>7. Elements(M) \subseteq Handles /\ Elements(S) \subseteq Handles
  <2>1. \A i \in DOMAIN Opened : Opened[i] \in Handles
    BY <1>1
  <2> QED BY <1>1, <1>5, <2>1
<1>8. Connected("master") = Elements(M) /\ Connected("slave") = Elements(S)
  <2>1. HostsOf("master") = {Master} /\ HostsOf("slave") = Slaves
    BY DEF HostsOf
  <2>2. Master \notin Slaves /\ Closed # Master /\ Closed \notin Slaves
    BY HostsAssumption DEF Hosts
  <2> QED BY <1>6, <1>7, <2>1, <2>2 DEF Connected
<1>9. /\ Cardinality(Elements(M)) = 2 /\ Cardinality(Elements(S)) = n
      /\ active["master"] = 2 /\ active["slave"] = n
  BY <1>2, <1>3, <1>4, ElementsCounted DEF Pools
<1>10. CallsOK
  <2>1. NoCall \in CallRecords /\ NoCall.pc = "idle" /\ NoCall.held = {}
    BY DEF NoCall, CallRecords, Steps
  <2> QED BY <1>2, <2>1 DEF CallsOK
<1>11. \A t \in Threads : thread[t].held = {}
  BY <1>2 DEF NoCall
<1>12. Placed
  <2>1. \A p \in Pools : \A c \in Elements(queue[p]) : host[c] \in HostsOf(p)
    BY <1>2, <1>6, <1>7 DEF Pools, HostsOf
  <2>2. \A c \in Handles : host[c] # Closed => \E p \in Pools : c \in Elements(queue[p])
    BY <1>2, <1>6 DEF Pools
  <2> QED BY <1>11, <2>1, <2>2 DEF Placed
<1>13. Queued
  BY <1>2, <1>4 DEF Queued, Pools
<1>14. Counted
  BY <1>8, <1>9 DEF Counted, Pools
<1>15. PoolTypeOK
  <2>1. queue \in [Pools -> Seq(Handles)]
    BY <1>2, <1>3
  <2>2. active \in [Pools -> 0..MaxConns]
    <3>1. Len(M) \in 0..MaxConns /\ Len(S) \in 0..MaxConns
      BY <1>1, <1>3, BoundsAssumption
    <3> QED BY <1>2, <3>1 DEF Pools
  <2>3. host \in [Handles -> Hosts \cup {Closed}]
    <3>1. \A c \in Handles : host[c] \in Hosts \cup {Closed}
      BY <1>6 DEF Hosts
    <3>2. host = [c \in Handles |-> host[c]]
      BY DEF Init
    <3> QED BY <3>1, <3>2
  <2> QED BY <1>2, <1>10, <2>1, <2>2, <2>3, BoundsAssumption
          DEF PoolTypeOK, CallsOK, CallRecords
<1> QED BY <1>10, <1>12, <1>13, <1>14, <1>15 DEF PoolInv

LEMMA PoolInvariant == Spec => []PoolInv
BY PoolInit, PoolStep, PTL DEF Spec

(* The variables of the pools keep their types; in particular no more than *)
(* max_conns_ connections of a pool are counted.                           *)
THEOREM PoolTypeCorrect == Spec => []PoolTypeOK
<1>1. PoolInv => PoolTypeOK
  BY DEF PoolInv
<1> QED BY <1>1, PoolInvariant, PTL

LEMMA PlacedOnce ==
    ASSUME PoolInv, NEW c \in Handles
    PROVE  Cardinality(Users(c)) + (IF c \in Elements(queue["master"]) THEN 1 ELSE 0)
               + (IF c \in Elements(queue["slave"]) THEN 1 ELSE 0)
           = (IF host[c] = Closed THEN 0 ELSE 1)
<1> USE DEF PoolInv
<1>P. Pools = {"master", "slave"}
  BY DEF Pools
<1>1. CASE host[c] = Closed
  <2>1. Users(c) = {}
    BY <1>1 DEF Users, Placed
  <2>2. \A p \in Pools : c \notin Elements(queue[p])
    BY <1>1, HostFacts DEF Placed
  <2> QED BY <1>1, <1>P, <2>1, <2>2, FS_EmptySet
<1>2. ASSUME host[c] # Closed, NEW t \in Threads, c \in thread[t].held
      PROVE  Cardinality(Users(c)) = 1 /\ \A p \in Pools : c \notin Elements(queue[p])
  <2>1. Users(c) = {t}
    BY <1>2 DEF Users, Placed
  <2> QED BY <1>2, <2>1, FS_Singleton DEF Placed
<1>3. ASSUME NEW p \in Pools, c \in Elements(queue[p])
      PROVE  /\ Users(c) = {} /\ host[c] # Closed
             /\ \A q \in Pools : c \in Elements(queue[q]) => q = p
  <2>1. Users(c) = {}
    BY <1>3 DEF Users, Placed
  <2>2. host[c] # Closed /\ \A q \in Pools : c \in Elements(queue[q]) => q = p
    BY <1>3, <1>P, HostFacts DEF Placed
  <2> QED BY <2>1, <2>2
<1>4. CASE host[c] # Closed /\ \E t \in Threads : c \in thread[t].held
  BY <1>2, <1>4, <1>P
<1>5. CASE host[c] # Closed /\ \E p \in Pools : c \in Elements(queue[p])
  <2>1. CASE c \in Elements(queue["master"])
    BY <1>3, <1>P, <2>1, FS_EmptySet
  <2>2. CASE c \in Elements(queue["slave"])
    BY <1>3, <1>P, <2>2, FS_EmptySet
  <2> QED BY <1>5, <1>P, <2>1, <2>2
<1> QED BY <1>1, <1>4, <1>5 DEF Placed

(* Whatever breaks, times out, is replaced or falls back: the counters are *)
(* the numbers of connections there are, and each of them is with one      *)
(* thread or once in the queue of its pool, so none is shared and none     *)
(* leaks.                                                                  *)
THEOREM NoConnectionLeaks == Spec => []ConnectionsAccounted
<1>1. PoolInv => ConnectionsAccounted
  <2> SUFFICES ASSUME PoolInv PROVE ConnectionsAccounted
    OBVIOUS
  <2>1. /\ \A p \in Pools : active[p] = Cardinality({c \in Handles : host[c] \in HostsOf(p)})
        /\ \A p \in Pools : IsInjective(queue[p])
    BY DEF PoolInv, Counted, Connected, Queued
  <2> QED BY <2>1, PlacedOnce DEF ConnectionsAccounted
<1> QED BY <1>1, PoolInvariant, PTL

-------------------------------------------------------------------------------
(* The Redis contexts *)

LEMMA LastFacts ==
    ASSUME NEW s \in Seq(Contexts), s # <<>>
    PROVE  /\ Len(s) \in DOMAIN s /\ s[Len(s)] \in Contexts
           /\ SubSeq(s, 1, Len(s) - 1) \in Seq(Contexts)
           /\ DOMAIN SubSeq(s, 1, Len(s) - 1) = DOMAIN s \ {Len(s)}
           /\ \A i \in DOMAIN s \ {Len(s)} : SubSeq(s, 1, Len(s) - 1)[i] = s[i]
OBVIOUS

LEMMA AppendFacts ==
    ASSUME NEW s \in Seq(Contexts), NEW c \in Contexts
    PROVE  /\ Append(s, c) \in Seq(Contexts)
           /\ DOMAIN Append(s, c) = DOMAIN s \cup {Len(s) + 1}
           /\ Len(s) + 1 \notin DOMAIN s
           /\ Append(s, c)[Len(s) + 1] = c
           /\ \A i \in DOMAIN s : Append(s, c)[i] = s[i]
OBVIOUS

(* Held contexts are at most as many as the threads that may hold one.     *)
LEMMA HeldBound ==
    ASSUME NEW f \in [Callers -> Contexts \cup {Null}]
    PROVE  Cardinality({f[t] : t \in Callers} \ {Null}) <= Cardinality(Callers)
<1> DEFINE D == {t \in Callers : f[t] # Null}
           H == {f[t] : t \in Callers} \ {Null}
           g == [t \in D |-> f[t]]
<1>1. g \in Surjection(D, H)
  BY DEF Surjection
<1>2. IsFiniteSet(D) /\ Cardinality(D) <= Cardinality(Callers)
  BY FS_Subset, CallersAssumption
<1>3. IsFiniteSet(H) /\ Cardinality(H) <= Cardinality(D)
  BY <1>1, <1>2, FS_Surjection
<1>4. /\ Cardinality(H) \in Nat /\ Cardinality(D) \in Nat
      /\ Cardinality(Callers) \in Nat
  BY <1>2, <1>3, FS_CardinalityType, CallersAssumption
<1> QED BY <1>2, <1>3, <1>4

(* Giving a context another place does not make it one more.               *)
LEMMA NoMore ==
    ASSUME NEW S \in SUBSET Contexts, NEW T \in SUBSET S,
           Cardinality(S) <= Cardinality(Callers)
    PROVE  Cardinality(T) <= Cardinality(Callers)
<1>1. IsFiniteSet(S)
  BY FS_Subset, ContextsAssumption
<1>2. IsFiniteSet(T) /\ Cardinality(T) <= Cardinality(S)
  BY <1>1, FS_Subset
<1>3. /\ Cardinality(S) \in Nat /\ Cardinality(T) \in Nat
      /\ Cardinality(Callers) \in Nat
  BY <1>1, <1>2, FS_CardinalityType, CallersAssumption
<1> QED BY <1>2, <1>3

LEMMA OpenContexts ==
    ASSUME ContextsTypeOK
    PROVE  Open \in SUBSET Contexts
BY DEF ContextsTypeOK, Open, Pooled, Held

-------------------------------------------------------------------------------
RedisInv == ContextsTypeOK /\ ContextsBounded

LEMMA RedisInitFacts ==
    ASSUME RedisInit PROVE RedisInv
<1>1. ContextsTypeOK
  BY RedisOutagesAssumption DEF RedisInit, ContextsTypeOK
<1>2. Pooled = {} /\ Held = {}
  BY DEF RedisInit, Pooled, Held
<1>3. ContextsNotShared
  BY <1>2 DEF RedisInit, ContextsNotShared
<1>4. Cardinality(Open) <= Cardinality(Callers)
  <2>1. Cardinality(Open) = 0
    BY <1>2, FS_EmptySet DEF Open
  <2> QED BY <2>1, FS_CardinalityType, CallersAssumption
<1> QED BY <1>1, <1>3, <1>4 DEF RedisInv, ContextsBounded

(* A thread takes the context that was given back last.                    *)
LEMMA TakeContextStep ==
    ASSUME RedisInv, NEW t \in Callers, GetContext(t), pool # <<>>
    PROVE  RedisInv'
<1> USE DEF RedisInv, ContextsBounded
<1>0. /\ pool \in Seq(Contexts) /\ ctx \in [Callers -> Contexts \cup {Null}]
      /\ t \notin calling /\ ctx[t] = Null
  BY DEF GetContext, ContextsTypeOK
<1> DEFINE c == pool[Len(pool)]
<1>1. /\ ctx' = [ctx EXCEPT ![t] = c]
      /\ pool' = SubSeq(pool, 1, Len(pool) - 1)
      /\ calling' = calling \cup {t}
      /\ UNCHANGED <<worn, redis, redisOutages>>
  BY DEF GetContext
<1>2. /\ Len(pool) \in DOMAIN pool /\ c \in Contexts
      /\ pool' \in Seq(Contexts)
      /\ DOMAIN pool' = DOMAIN pool \ {Len(pool)}
      /\ \A i \in DOMAIN pool' : pool'[i] = pool[i]
  BY <1>0, <1>1, LastFacts
<1> HIDE DEF c
<1>3. ctx'[t] = c /\ (\A u \in Callers \ {t} : ctx'[u] = ctx[u])
  BY <1>0, <1>1
<1>4. ContextsTypeOK'
  BY <1>1, <1>2, <1>3 DEF ContextsTypeOK
<1>5. Pooled = Pooled' \cup {c} /\ c \notin Pooled'
  BY <1>2 DEF Pooled, ContextsNotShared, c
<1>6. Held' = Held \cup {c}
  BY <1>0, <1>2, <1>3, ContextsAssumption DEF Held
<1>7. ContextsNotShared'
  <2>1. ASSUME NEW u \in Callers, NEW w \in Callers, u # w, ctx'[u] # Null
        PROVE  ctx'[u] # ctx'[w]
    <3>1. c # Null /\ c \notin Held
      BY <1>2, <1>5, ContextsAssumption DEF ContextsNotShared
    <3>2. \A x \in Callers : ctx[x] # Null => ctx[x] \in Held
      BY DEF Held
    <3>3. CASE u = t
      BY <1>3, <2>1, <3>1, <3>2, <3>3
    <3>4. CASE w = t
      BY <1>3, <2>1, <3>1, <3>2, <3>4
    <3>5. CASE u # t /\ w # t
      BY <1>3, <2>1, <3>5 DEF ContextsNotShared
    <3> QED BY <3>3, <3>4, <3>5
  <2>2. \A i, j \in DOMAIN pool' : pool'[i] = pool'[j] => i = j
    BY <1>2 DEF ContextsNotShared
  <2>3. Pooled' \cap Held' = {}
    BY <1>5, <1>6 DEF ContextsNotShared
  <2> QED BY <2>1, <2>2, <2>3 DEF ContextsNotShared
<1>8. Open' \subseteq Open
  BY <1>5, <1>6 DEF Open
<1>9. Cardinality(Open') <= Cardinality(Callers)
  BY <1>8, NoMore, OpenContexts
<1> QED BY <1>4, <1>7, <1>9

(* With an empty pool the open contexts are those held, one by a thread.   *)
LEMMA ConnectContextStep ==
    ASSUME RedisInv, NEW t \in Callers, GetContext(t), pool = <<>>
    PROVE  RedisInv'
<1> USE DEF RedisInv, ContextsBounded
<1>0. ctx \in [Callers -> Contexts \cup {Null}]
  BY DEF ContextsTypeOK
<1>1. PICK c \in Contexts \cup {Null} :
          ctx' = [ctx EXCEPT ![t] = c] /\ (c = Null \/ c \notin Open)
  <2>1. CASE redis = "up"
    BY <2>1 DEF GetContext, Connect
  <2>2. CASE redis # "up"
    <3>1. t \notin calling /\ ctx[t] = Null /\ ctx' = ctx
      BY <2>2 DEF GetContext, Connect, ContextsTypeOK
    <3>2. ctx' = [ctx EXCEPT ![t] = Null]
      BY <1>0, <3>1
    <3> QED BY <3>2
  <2> QED BY <2>1, <2>2
<1>2. /\ UNCHANGED <<pool, worn, redis, redisOutages>>
      /\ calling' = calling \cup {t}
  BY DEF GetContext, Connect
<1>3. /\ ctx' \in [Callers -> Contexts \cup {Null}]
      /\ ctx'[t] = c /\ (\A u \in Callers \ {t} : ctx'[u] = ctx[u])
  BY <1>0, <1>1
<1>4. ContextsTypeOK'
  BY <1>2, <1>3 DEF ContextsTypeOK
<1>5. Pooled' = {} /\ DOMAIN pool' = {}
  BY <1>2 DEF Pooled
<1>6. ContextsNotShared'
  <2>1. \A u \in Callers : ctx[u] # Null => ctx[u] \in Open
    BY DEF Open, Held
  <2>2. ASSUME NEW u \in Callers, NEW w \in Callers, u # w, ctx'[u] # Null
        PROVE  ctx'[u] # ctx'[w]
    <3>1. CASE u = t
      BY <1>1, <1>3, <2>1, <2>2, <3>1
    <3>2. CASE w = t
      BY <1>1, <1>3, <2>1, <2>2, <3>2
    <3>3. CASE u # t /\ w # t
      BY <1>3, <2>2, <3>3 DEF ContextsNotShared
    <3> QED BY <3>1, <3>2, <3>3
  <2> QED BY <1>5, <2>2 DEF ContextsNotShared
<1>7. Open' = {ctx'[u] : u \in Callers} \ {Null}
  BY <1>5 DEF Open, Held
<1>8. Cardinality(Open') <= Cardinality(Callers)
  BY <1>3, <1>7, HeldBound
<1> QED BY <1>4, <1>6, <1>8

LEMMA ReleaseContextStep ==
    ASSUME RedisInv, NEW t \in Callers, ReleaseContext(t)
    PROVE  RedisInv'
<1> USE DEF RedisInv, ContextsBounded
<1>0. pool \in Seq(Contexts) /\ ctx \in [Callers -> Contexts \cup {Null}]
  BY DEF ContextsTypeOK
<1>1. /\ ctx' \in [Callers -> Contexts \cup {Null}]
      /\ ctx'[t] = Null /\ (\A u \in Callers \ {t} : ctx'[u] = ctx[u])
      /\ UNCHANGED <<worn, redis, redisOutages>>
      /\ calling' = calling \ {t}
  BY <1>0 DEF ReleaseContext
<1>2. Held' \subseteq Held /\ (ctx[t] # Null => ctx[t] \in Held \ Held')
  BY <1>1 DEF Held, ContextsNotShared
<1>3. \A u, w \in Callers : u # w /\ ctx'[u] # Null => ctx'[u] # ctx'[w]
  BY <1>1 DEF ContextsNotShared
<1>4. CASE ctx[t] = Null
  <2>1. pool' = pool
    BY <1>4 DEF ReleaseContext
  <2>2. ContextsTypeOK'
    BY <1>1, <2>1 DEF ContextsTypeOK
  <2>3. Pooled' = Pooled
    BY <2>1 DEF Pooled
  <2>4. ContextsNotShared'
    BY <1>2, <1>3, <2>1, <2>3 DEF ContextsNotShared
  <2>5. Open' \subseteq Open
    BY <1>2, <2>3 DEF Open
  <2>6. Cardinality(Open') <= Cardinality(Callers)
    BY <2>5, NoMore, OpenContexts
  <2> QED BY <2>2, <2>4, <2>6
<1>5. CASE ctx[t] # Null
  <2> DEFINE c == ctx[t]
  <2>1. c \in Contexts /\ pool' = Append(pool, c)
    BY <1>0, <1>5 DEF ReleaseContext
  <2>2. c \in Held /\ c \notin Held' /\ c \notin Pooled
    BY <1>2, <1>5 DEF ContextsNotShared
  <2> HIDE DEF c
  <2>3. /\ pool' \in Seq(Contexts)
        /\ DOMAIN pool' = DOMAIN pool \cup {Len(pool) + 1}
        /\ Len(pool) + 1 \notin DOMAIN pool
        /\ pool'[Len(pool) + 1] = c
        /\ \A i \in DOMAIN pool : pool'[i] = pool[i]
    BY <1>0, <2>1, AppendFacts
  <2>4. ContextsTypeOK'
    BY <1>1, <2>3 DEF ContextsTypeOK
  <2>5. Pooled' = Pooled \cup {c}
    BY <2>3 DEF Pooled
  <2>6. \A i, j \in DOMAIN pool' : pool'[i] = pool'[j] => i = j
    BY <2>2, <2>3 DEF ContextsNotShared, Pooled
  <2>7. Pooled' \cap Held' = {}
    BY <1>2, <2>2, <2>5 DEF ContextsNotShared
  <2>8. ContextsNotShared'
    BY <1>3, <2>6, <2>7 DEF ContextsNotShared
  <2>9. Open' \subseteq Open
    BY <1>2, <2>2, <2>5 DEF Open
  <2>10. Cardinality(Open') <= Cardinality(Callers)
    BY <2>9, NoMore, OpenContexts
  <2> QED BY <2>4, <2>8, <2>10
<1> QED BY <1>4, <1>5

LEMMA RedisOutageStep ==
    ASSUME RedisInv, RedisDown \/ RedisUp \/ UNCHANGED redisVars
    PROVE  RedisInv'
<1> USE DEF RedisInv, ContextsBounded
<1>1. UNCHANGED <<pool, ctx, calling>>
  BY DEF RedisDown, RedisUp, redisVars
<1>2. ContextsTypeOK'
  <2>1. Open \subseteq Contexts
    BY OpenContexts
  <2>2. worn' \subseteq Contexts
    BY <2>1 DEF RedisDown, RedisUp, redisVars, ContextsTypeOK
  <2>3. redis' \in {"up", "down"} /\ redisOutages' \in 0..MaxRedisOutages
    BY RedisOutagesAssumption DEF RedisDown, RedisUp, redisVars, ContextsTypeOK
  <2> QED BY <1>1, <2>2, <2>3 DEF ContextsTypeOK
<1>3. Pooled' = Pooled /\ Held' = Held
  BY <1>1 DEF Pooled, Held
<1>4. ContextsNotShared' /\ Cardinality(Open') <= Cardinality(Callers)
  BY <1>1, <1>3 DEF ContextsNotShared, Open
<1> QED BY <1>2, <1>4

(* However commands and outages interleave, no context is used twice at    *)
(* once and a process has at most as many as it has threads.               *)
THEOREM ContextsStayBounded == RedisSpec => []ContextsBounded
<1>1. ASSUME RedisInv, [RedisNext]_redisVars PROVE RedisInv'
  <2>1. ASSUME NEW t \in Callers, GetContext(t) PROVE RedisInv'
    BY <1>1, <2>1, TakeContextStep, ConnectContextStep
  <2>2. ASSUME NEW t \in Callers, ReleaseContext(t) PROVE RedisInv'
    BY <1>1, <2>2, ReleaseContextStep
  <2>3. ASSUME RedisDown \/ RedisUp \/ UNCHANGED redisVars PROVE RedisInv'
    BY <1>1, <2>3, RedisOutageStep
  <2> QED BY <1>1, <2>1, <2>2, <2>3 DEF RedisNext
<1>2. RedisInv => ContextsBounded
  BY DEF RedisInv
<1> QED BY RedisInitFacts, <1>1, <1>2, PTL DEF RedisSpec
===============================================================================
