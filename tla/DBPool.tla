-------------------------------- MODULE DBPool --------------------------------
(***************************************************************************)
(* The connection pools of a service (common/db_pool.cpp): one pool for    *)
(* the master and one for all slaves, each with a mutex, a condition       *)
(* variable and a limit.  GetReadConnection keeps the mutex of the slaves' *)
(* pool while it falls back to the master, so giving back a slave          *)
(* connection waits for it; SendMessage takes a write and then a read      *)
(* connection and holds both.                                              *)
(*                                                                         *)
(* What a thread does under a mutex without waiting is one step.  Servers  *)
(* go down and come back, and connections break with them.                 *)
(***************************************************************************)
EXTENDS Integers, Sequences, FiniteSets, Functions

CONSTANTS
    Threads,
    Master,             \* master_host_
    Slaves,             \* slave_hosts_
    Handles,            \* MYSQL objects
    Closed,             \* the host of a handle that is not connected
    Nobody,             \* no thread
    MaxConns,           \* max_conns_
    Jobs,               \* what the handlers ask for: "send", "read", "write"
    MaxOutages          \* bound on how often a server goes down

VARIABLES
    queue,              \* master_queue_, slave_queue_
    active,             \* master_active_count_, slave_active_count_
    slaveLock,          \* who holds slave_mtx_ from one step to the next
    host,               \* the host a handle is connected to
    broken,             \* handles whose connection is lost
    down,               \* hosts that do not answer
    outages,
    thread              \* the call each thread is in

poolVars == <<queue, active, slaveLock>>
serverVars == <<down, outages>>
vars == <<poolVars, host, broken, serverVars, thread>>

Hosts == {Master} \cup Slaves
Pools == {"master", "slave"}
HostsOf(pool) == IF pool = "master" THEN {Master} ELSE Slaves
PoolOf(c) == IF host[c] = Master THEN "master" ELSE "slave"

ASSUME HostsAssumption == Master \notin Slaves /\ Closed \notin Hosts
ASSUME NobodyAssumption == Nobody \notin Threads
ASSUME BoundsAssumption == MaxConns \in Nat \ {0, 1} /\ MaxOutages \in Nat
ASSUME HandlesAssumption ==
    /\ IsFiniteSet(Slaves) /\ Cardinality(Slaves) <= MaxConns
    /\ IsFiniteSet(Handles) /\ Cardinality(Handles) >= 2 * MaxConns
ASSUME JobsAssumption == Jobs \subseteq {"send", "read", "write"}

(* What is still to be acquired.  A refused connection does not end it:    *)
(* SendMessage looks at both when it has asked for both.                   *)
Needs(job) == CASE job = "send" -> <<"write", "read">>
                [] job = "read" -> <<"read">>
                [] job = "write" -> <<"write">>

(* A thread in GetWriteConnection, also as the fallback of a read, or in   *)
(* GetReadConnection, waiting in one of them, or using what it has.        *)
Steps == {"idle", "write", "waitMaster", "read", "waitSlave", "work"}
NoCall == [pc |-> "idle", needs |-> <<>>, held |-> {}, refused |-> FALSE]

(* Init opens two connections to the master and one to each slave. *)
Numbering(S) == CHOOSE f \in [1..Cardinality(S) -> S] : IsInjective(f)
Opened == SubSeq(Numbering(Handles), 1, 2 + Cardinality(Slaves))

Init ==
    /\ queue = [p \in Pools |-> IF p = "master" THEN SubSeq(Opened, 1, 2)
                                ELSE SubSeq(Opened, 3, Len(Opened))]
    /\ active = [p \in Pools |-> Len(queue[p])]
    /\ slaveLock = Nobody
    /\ host = [c \in Handles |->
           IF c \in {Opened[1], Opened[2]} THEN Master
           ELSE IF \E i \in DOMAIN Opened : Opened[i] = c
           THEN Numbering(Slaves)[(CHOOSE i \in DOMAIN Opened : Opened[i] = c) - 2]
           ELSE Closed]
    /\ broken = {}
    /\ down = {} /\ outages = 0
    /\ thread = [t \in Threads |-> NoCall]

-------------------------------------------------------------------------------
At(t, pc) == thread[t].pc = pc
Goto(t, pc) == thread' = [thread EXCEPT ![t].pc = pc]
FallsBack(t) == slaveLock = t

(* The next Get...Connection of the call, or its work *)
NextStep(needs) == IF needs = <<>> THEN "work" ELSE Head(needs)

(* Get...Connection returns c, or nothing: the lock of a fallback goes *)
Unlock(t) == slaveLock' = IF FallsBack(t) THEN Nobody ELSE slaveLock
Return(t, conns) ==
    /\ thread' = [thread EXCEPT ![t] =
           [pc |-> NextStep(Tail(@.needs)), needs |-> Tail(@.needs),
            held |-> @.held \cup conns, refused |-> @.refused \/ conns = {}]]
    /\ Unlock(t)

Call(t, job) ==
    /\ At(t, "idle")
    /\ thread' = [thread EXCEPT ![t] = [pc |-> NextStep(Needs(job)), needs |-> Needs(job),
                                        held |-> {}, refused |-> FALSE]]
    /\ UNCHANGED <<poolVars, host, broken, serverVars>>

(* A new connection, in a handle that is free: it fails if the random host *)
(* is down.                                                                *)
MayFail(pool) == HostsOf(pool) \cap down # {}
NewHandle == CHOOSE c \in Handles : host[c] = Closed

(* The fault: the limit is not looked at *)
CreateUnlimited(t, pool) ==
    /\ queue[pool] = <<>>
    /\ \E h \in HostsOf(pool) \ down : host' = [host EXCEPT ![NewHandle] = h]
    /\ Return(t, {NewHandle})
    /\ active' = [active EXCEPT ![pool] = @ + 1]
    /\ UNCHANGED <<queue, broken, serverVars>>

(* Lazy creation (lines 99-106, 141-153) *)
Create(t, pool) ==
    /\ queue[pool] = <<>>
    /\ active[pool] < MaxConns
    /\ \E h \in HostsOf(pool) \ down : host' = [host EXCEPT ![NewHandle] = h]
    /\ Return(t, {NewHandle})
    /\ active' = [active EXCEPT ![pool] = @ + 1]
    /\ UNCHANGED <<queue, broken, serverVars>>

(* The fault: the count is not corrected *)
DropOnly(t, pool, c) ==
    /\ host' = [host EXCEPT ![c] = Closed]
    /\ Return(t, {})
    /\ UNCHANGED active

(* Neither the old connection nor a new one: the call returns nothing *)
Drop(t, pool, c) ==
    /\ host' = [host EXCEPT ![c] = Closed]
    /\ Return(t, {})
    /\ active' = [active EXCEPT ![pool] = @ - 1]

(* The front of the queue (lines 116-130, 163-183): used if it answers a   *)
(* ping, else replaced.                                                    *)
Take(t, pool) ==
    LET c == Head(queue[pool])
    IN  /\ queue[pool] # <<>>
        /\ queue' = [queue EXCEPT ![pool] = Tail(@)]
        /\ broken' = broken \ {c}
        /\ \/ c \notin broken /\ Return(t, {c}) /\ UNCHANGED <<host, active>>
           \/ /\ c \in broken
              /\ \E h \in HostsOf(pool) \ down : host' = [host EXCEPT ![c] = h]
              /\ Return(t, {c})
              /\ UNCHANGED active
           \/ c \in broken /\ MayFail(pool) /\ Drop(t, pool, c)
        /\ UNCHANGED serverVars

(* An empty queue and no new connection: wait up to 3 seconds *)
StartWait(t, pool, pc) ==
    /\ queue[pool] = <<>>
    /\ active[pool] >= MaxConns \/ MayFail(pool)
    /\ Goto(t, pc)
    /\ UNCHANGED <<poolVars, host, broken, serverVars>>

(* GetWriteConnection *)
GetWrite(t) == At(t, "write") /\ (Create(t, "master") \/ Take(t, "master")
                                  \/ StartWait(t, "master", "waitMaster"))

WakeMaster(t) == At(t, "waitMaster") /\ Take(t, "master")

(* The fault: wait instead of wait_for *)
NoTimeout(t) == FALSE

TimeoutMaster(t) ==
    /\ At(t, "waitMaster")
    /\ queue["master"] = <<>>
    /\ Return(t, {})
    /\ UNCHANGED <<queue, active, host, broken, serverVars>>

(* GetReadConnection: without slaves it is GetWriteConnection *)
GetRead(t) ==
    /\ At(t, "read")
    /\ IF Slaves = {}
       THEN Goto(t, "write") /\ UNCHANGED <<poolVars, host, broken, serverVars>>
       ELSE /\ slaveLock = Nobody
            /\ Create(t, "slave") \/ Take(t, "slave") \/ StartWait(t, "slave", "waitSlave")

WakeSlave(t) ==
    /\ At(t, "waitSlave")
    /\ slaveLock = Nobody
    /\ Take(t, "slave")

(* The fallback, with slave_mtx_ held (lines 157-159) *)
TimeoutSlave(t) ==
    /\ At(t, "waitSlave")
    /\ slaveLock = Nobody
    /\ queue["slave"] = <<>>
    /\ slaveLock' = t
    /\ Goto(t, "write")
    /\ UNCHANGED <<queue, active, host, broken, serverVars>>

(* The handler is done and gives a connection back (lines 190-202). *)
Release(t, c) ==
    /\ At(t, "work")
    /\ c \in thread[t].held
    /\ PoolOf(c) = "slave" => slaveLock = Nobody
    /\ queue' = [queue EXCEPT ![PoolOf(c)] = Append(@, c)]
    /\ thread' = [thread EXCEPT ![t].held = @ \ {c}]
    /\ UNCHANGED <<active, slaveLock, host, broken, serverVars>>

Finish(t) ==
    /\ At(t, "work")
    /\ thread[t].held = {}
    /\ thread' = [thread EXCEPT ![t] = NoCall]
    /\ UNCHANGED <<poolVars, host, broken, serverVars>>

Outage(h) ==
    /\ h \notin down
    /\ outages < MaxOutages
    /\ outages' = outages + 1
    /\ down' = down \cup {h}
    /\ broken' = broken \cup {c \in Handles : host[c] = h}
    /\ UNCHANGED <<poolVars, host, thread>>

Recover(h) ==
    /\ h \in down
    /\ down' = down \ {h}
    /\ UNCHANGED <<poolVars, host, broken, outages, thread>>

ThreadStep(t) ==
    \/ GetWrite(t) \/ WakeMaster(t) \/ TimeoutMaster(t)
    \/ GetRead(t) \/ WakeSlave(t) \/ TimeoutSlave(t)
    \/ \E c \in Handles : Release(t, c)
    \/ Finish(t)

Next ==
    \/ \E t \in Threads : (\E job \in Jobs : Call(t, job)) \/ ThreadStep(t)
    \/ \E h \in Hosts : Outage(h) \/ Recover(h)

(* Threads run, waits end after 3 seconds, handlers finish, and a thread   *)
(* that wants a mutex gets it if it is free again and again.               *)
Fairness == \A t \in Threads : SF_vars(ThreadStep(t))

Spec == Init /\ [][Next]_vars
FairSpec == Spec /\ Fairness

-------------------------------------------------------------------------------
Elements(q) == {q[i] : i \in DOMAIN q}
Users(c) == {t \in Threads : c \in thread[t].held}

(* The variables have the types the code gives them. *)
PoolTypeOK ==
    /\ queue \in [Pools -> Seq(Handles)]
    /\ active \in [Pools -> 0..MaxConns]
    /\ slaveLock \in Threads \cup {Nobody}
    /\ host \in [Handles -> Hosts \cup {Closed}]
    /\ broken \subseteq Handles /\ down \subseteq Hosts
    /\ outages \in 0..MaxOutages
    /\ thread \in [Threads -> [pc : Steps, needs : Seq({"read", "write"}),
                               held : SUBSET Handles, refused : BOOLEAN]]

(* Whatever breaks, is replaced, times out or falls back, the counters are *)
(* the numbers of connections there are, so no pool runs dry or over, and  *)
(* a connection is with one thread or once in the queue of its pool.       *)
ConnectionsAccounted ==
    /\ \A p \in Pools : active[p] = Cardinality({c \in Handles : host[c] \in HostsOf(p)})
    /\ \A p \in Pools : IsInjective(queue[p])
    /\ \A c \in Handles :
           Cardinality(Users(c)) + (IF c \in Elements(queue["master"]) THEN 1 ELSE 0)
               + (IF c \in Elements(queue["slave"]) THEN 1 ELSE 0)
           = (IF host[c] = Closed THEN 0 ELSE 1)

(* Every call comes to an end, although a fallback holds the mutex of the  *)
(* slaves while it waits for a master connection, and threads that have a  *)
(* master connection may be waiting for that mutex.                        *)
CallsFinish == \A t \in Threads : ~At(t, "idle") ~> At(t, "idle")

(* "Reads fall back to the master when all slaves are unavailable or the   *)
(* connection times out": a read is refused only if the master is down or  *)
(* has no connection to spare.                                             *)
Refuses(t) ==
    thread[t].needs # <<>> /\ Head(thread[t].needs) = "read"
    /\ thread'[t].refused /\ ~thread[t].refused
ReadsFallBack ==
    [][\A t \in Threads : Refuses(t) =>
           \/ Master \in down
           \/ queue["master"] = <<>> /\ active["master"] = MaxConns]_vars
===============================================================================
