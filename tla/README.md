# TLA+ models of MyTinyIM

Specifications, model-checking runs and proofs for MyTinyIM, an instant-messaging
back end in C++ with a MySQL master/slave store, Redis and gRPC between the
services. Paths are relative to the repository root; `.cpp` files without a
directory are unique in `src/`.

Contents: [the system](#the-system) · [modules](#modules) · [runs](#runs) ·
[fairness](#fairness) · [proofs](#proofs) · [where code and documents
differ](#where-code-and-documents-differ) · [what is not
modelled](#what-is-not-modelled) · [plan](#plan)

## The system

| Part | State | Operations | What is hard | What makes it correct |
|---|---|---|---|---|
| chat server (`src/chat_server`) | none of its own: MySQL `im_message_body`, `im_message_index`, Redis counters `im:seq:{uid}` | `SendMessage`, `SyncMessages` | every statement, command and RPC of two calls interleaves; each can fail, or succeed with its answer lost | one number per row and inbox; order of one sender; a row never without its body; a success reply means stored |
| message store (MySQL) | the master's log, the positions of the slaves | INSERT, SELECT, replication | slaves lag by any amount | prefixes of one log |
| gateway (`src/gateway`) | `users_` of `ConnectionManager`; per session a read buffer and a write queue | packets (login, send, sync, heartbeat, relation), `PushNotify`, `KickUser`, HTTP login and logout, kick subscriber | kicks, pushes and reads on three kinds of threads; token check, registration and location are separate steps; connections log in by packet, with no check at all | kicks reach whom they should and nobody else; locations lead to sessions; packets leave in order, one write at a time |
| auth server (`src/auth_server`) | Redis `im:session:{uid}`, `im:location:{uid}` | `Register`, `Login`, `Logout` | a login is up to seven Redis commands between which others move; tokens expire while sessions go on | a superseded session ends, as long as its location or its token is there |
| web client (`web_client`) | per user: status, `localSeq` | login, sync at login and on notification, heartbeat | notifications are lost, pages are short, answers come from lagging slaves | what is behind `localSeq` has been shown; everything is shown in the end |
| database pool (`src/common/db_pool.*`) | two queues, two counters, two mutexes | get a write or a read connection, give back | outages, waiting, a fallback that keeps a mutex | counters equal connections; every call returns |
| Redis client (`src/common/redis_client.*`) | a stack of contexts | commands, `Subscribe` | failed commands read as empty answers; a broken connection is used again; a subscriber that ends | a context belongs to one thread; broken ones do not pile up |
| registry, discovery, dispatch (`service_registry.cpp`, `src/dispatch`) | Redis keys with a time to live, `gateway_list_` of dispatch, `cache_` and `rr_index_` of each gateway | register, renew, poll, discover, answer a login | late and failed renewals, expiry, lists older than the keys, crashes and outages | the dead leave every list in time; the living stay in, and come back |
| user server (`src/user_server`) | none of its own: MySQL `im_relation`, `im_friend_request`, `im_group`, `im_group_member`, `im_group_request` | `ApplyFriend`, `AcceptFriend`, `CreateGroup`, `JoinGroup`, `ApplyGroup`, `AcceptGroup`, lists | check-then-insert, several statements without a transaction, errors that are only logged, a message to others at the end, a null connection, and no check that a request or a group exists | friendship is mutual; a success is stored; a member is announced once; who is told of a request finds it; only its owner has the owner's role in a group |
| packet format (`packet.h`, `OnRead`) | a read buffer | encode, decode | a read brings half a packet or several | requests are handled once, in order, as soon as they are whole |

How they interact. A client logs in over HTTP (`http_session.cpp` or
`dispatch/main.cpp` → `AuthService.Login` → Redis), which publishes kicks on the
channel `im:kick` for older sessions of the same device; every gateway subscribes
to it. The login is answered with the address of a gateway that keeps its key
alive in Redis. The client opens a WebSocket to a gateway, which compares the token,
registers the session and stores its location in Redis. `MSG_SEND` becomes
`ChatService.SendMessage`: the body is inserted once, the counter of each
addressee is incremented in Redis, one INSERT adds the inbox rows, and the
gateways at which addressees have sessions are asked to notify them
(`PushNotify`). A notified client pulls with `SyncMessages` from its `localSeq`;
that reads a slave. The servers share no memory: what couples them is MySQL,
Redis and RPCs, and in the gateway the table of sessions and the strand of each.

Every hazard of this code that a test would hardly reach is listed with its line
and the properties that watch it under `hazards` in `PROJECT.json`.

## Modules

```
MessageStore <- ChatServer <- Timeline          Inbox  (abstract inboxes,
                    |            |                       implemented by ChatServer)
        ChatServerProofs <- TimelineProofs

MessageStore <- MessageStoreProofs (used by the proofs of both services)
MessageStore <- RelationService <- RelationServiceProofs

Presence <- PresenceProofs
SessionWriter <- SessionReader          (SessionProofs: both, and that the
                                         reader implements the writer)
DBPool, RedisClient <- MCDBPool, PoolProofs
Registry <- RegistryProofs
```

`MC<Module>.tla` and `MC<Module>*.cfg` are the instances TLC checks.

**MessageStore** — the cluster. The only state is the master's log `binlog` and
how much of it each slave has `applied`; a table is what a prefix of the log put
into it. `Commit` is one INSERT, `SlotTaken` the unique key `uk_owner_seq`,
`ReadPositions` the prefixes `GetReadConnection` can end up reading.

**ChatServer** — `chat_service_impl.cpp`. A handler is a gRPC thread; `call[h]`
holds the locals of its `SendMessage`. One action per statement or command:

| Action | Code (lines of `chat_service_impl.cpp`) |
|---|---|
| `StoreBody`, `LoseBody` | INSERT of the body, 21–42; answer lost |
| `GetMembers` / `CheckRelation` | SELECT of the members 48–70 / of the friendship 155–179 |
| `Allocate` | INCR for one addressee, 81–105 and 181–190; fails, or counts and the answer is lost (number 0) |
| `InsertIndex` | the INSERT of all rows, 107–111 and 192–200; refused by the unique key, failed, or committed with the answer lost |
| `Push`, `Reply` | notifications and the reply |
| `JoinGroup`, `SlaveReplays` | another service adds a member; replication |

`replies` and `precedes` are history variables: which calls were answered with
success, and which messages were answered before another began.

**Inbox** — the abstract specification: a row is prepared under the next number
of its owner (or under 0), and the rows of a message enter their inboxes all at
once or never. `ChatServer!ImplementsInbox` is the refinement: prepared rows are
those of calls before or at their INSERT, the inbox is the master's table.

**Timeline** — composes ChatServer with the gateway session and the web client:
`Push` becomes `PushNotify`, `SyncMessages` answers a page from some server's
prefix, connections carry packets in order and lose them when they break.
`session` is the gateway's view, `status`, `localSeq`, `shown` the client's.

**Presence** — logins, logouts, tokens, locations, kicks, sessions. Each Redis
command is a step. A `login` record is a call of `AuthServiceImpl::Login` (pc =
next command); `conn[c].phase` follows a session through upgrade → `Join` →
location → end:

| Action | Code |
|---|---|
| `BeginLogin`, `CheckLocation`, `KickLocation`, `CheckToken`, `KickToken`, `StoreToken`, `Expire` | `Login`, `auth_service_impl.cpp` 53–133; `StoreToken` once more in `/api/login` of the gateway, `http_session.cpp` 175 |
| `ExpireTokens` | Redis: the day that `Expire` gave all tokens of the user is over |
| `Logout`, `KickLeaver`, `LogoutAll` | `Logout`, with a device 193–197, without one 188–190 |
| `Upgrade`, `UpgradeAnonymous` | the token check of `http_session.cpp` 76–98 |
| `Join`, `Locate` | `OnAccept`, `websocket_session.cpp` 51–61 |
| `PacketLogin`, `Locate` | the login packet, 271–297: it trusts the id it is given |
| `Unlocate`, `Leave`, `Abandon` | the end of a session, 105–116; a bad magic, 126–130 |
| `ReceiveKick` | the kick listener of a gateway, `gateway/main.cpp` 40–54, and `KickUser` |
| `CrashGateway`, `Subscribe`, `LoseSubscriber` | a gateway starts again, serves before it listens, and the locations of its sessions stay; a listener whose connection breaks is not started again |

Switches say what may happen: overlapping calls of one user, logins by packet,
logouts of all devices, bad packets, failing Redis commands; `MaxFaults` bounds
the faults. Expiry has no switch. History variables name what a property has to
set apart: gateways that did not hear a kick since they started (`missed`),
locations a crash left behind (`stale`), sessions whose location the end of
another one deleted (`hidden`), sessions that went on while no token of theirs was
stored (`lapsed`: it expired, went with a logout, or was never asked for), and
sessions set up while a login of their device ran (`raced`). `Forgotten` sessions
are `hidden` and `lapsed`: nothing in Redis tells of them.

**SessionWriter** — the write queue of one `WebsocketSession`: `Send`, `Kick`,
what they post to the strand (`RunPost`), `OnWrite`, a connection that breaks,
`OnRead` that leaves. It is the abstract specification of a session as those see
it who only send.

**SessionReader** — extends SessionWriter to the whole session. A packet travels
in pieces (two for the header, `Body(r)` for the rest), and a read brings any
number of them:

| Action | Code (lines of `websocket_session.cpp`) |
|---|---|
| `OnRead` | what has arrived is appended to `buffer_` |
| `HandlePacket` | a whole packet: its handler, the answer through `SendPacket`, `consume`, 138–321 |
| `RejectPacket` | a wrong magic: `Close` and no further read, 126–130 |
| `DoRead` | nothing whole is left: read again, 132–136 and 324 |
| `ReadError` | the session leaves `users_`, 105–116 |

**RedisClient** — `redis_client.cpp`: the contexts of a process, taken from the
back of `pool_` or connected, and given back by every command, also one that
failed. An outage wears out all contexts that are open.

**Registry** — `service_registry.cpp`, `service_discovery.h` and the answers to a
login. Each process has threads: the heartbeat, the polling loop (or dispatch's
refresh thread), and `main`, which registers the gateway and later stands for the
handlers of logins. Every Redis command is a step (`SetEx`, `Keys`, `Get`), and so
is the replacement of a list (`Refresh`); `Tick` is a second of sleep, of the life
of a key, or of a slow command. `spoiled` processes have broken contexts: what
RedisClient says of them is here "may fail until it is started again".

**DBPool** — `db_pool.cpp`: lazy creation, the queue, the ping and replacement of
a broken connection, the three-second wait, the fallback of a read to the master
with the slaves' mutex held, and giving back; servers go down and come back.

**RelationService** — `relation_service_impl.cpp`. The tables are those of
MessageStore; `call[n]` is the n-th call, with its next step; `notices` are the
messages the service asked the chat service to send. One action per statement:

| Action | Code (lines of `relation_service_impl.cpp`) |
|---|---|
| `Ask` | a request packet (`websocket_session.cpp` 170–246); nobody applies to himself, 18–22 |
| `CheckRequest`, `InsertRequest` | `ApplyFriend`: is one pending 31–43, the request 45–53 |
| `Befriend` | `AcceptFriend`: both rows in one INSERT IGNORE, 81–90 |
| `InsertGroup`, `InsertOwner`, `InsertInitial`, `FinishGroup` | `CreateGroup`, 134–162 |
| `CheckMember`, `Join` | `JoinGroup` 165–195; the former also `ApplyGroup` 245–256 |
| `InsertGroupRequest`, `AcceptMember` | `ApplyGroup` 264–271, `AcceptGroup` 308–312 |
| `Notify` | the nested `SendMessage` of each call, and the answer |
| `Refuse`, `GoDown` | no connection: an error answer from `ApplyFriend` (24–25), the end of the process otherwise |

The gateway has one call of a session under way at a time, but a user has several
sessions, so calls of one user overlap; users and group numbers are any, since
neither the service nor the gateway asks whether a request was made or a group
exists. A statement fails without an effect or is committed and its answer lost
(`Fails`). `GetFriendList` reads a slave; since no call depends on how far
the slaves are, the properties speak of every position in the log instead of
moving them. `GetGroupList` changes nothing and has no definition. Two requests
that only say no change nothing and are left out.

## Runs

`tlc -config <cfg> <module>`; each passing run is exhaustive. State counts are
distinct states.

| Run | Instance | Question and answer |
|---|---|---|
| `chat_core` (MCChatServer, 290 k) | 2 users, friends one way, 1 group with one member and one to join, 2 handlers, 2 messages | Do inboxes stay consistent when two calls interleave at every statement and anything fails? Yes: `NoSharedSeq`, `AnsweredFirstIsFirst`, `BodyBeforeIndex`, `RepliedIsStored`, `FanOutIsAtomic`, and the refinement of `Inbox` |
| `timeline_pull` (MCTimeline_pull) | one handler, a slave, pages of one row, failing RPCs, two connections | Does `localSeq` ever pass a row the client has not shown? Not while messages are stored one at a time: `LocalSeqCoversInbox`, `LocalSeqNeverBack` |
| `timeline_catchup` | one handler, no slave, no failing RPC, a page that is large enough | Under these conditions is every message shown, and does every call return? Yes: `CatchesUp`, `CallsReturn`. Each condition is needed, see below |
| `timeline_overtaken` (violation) | two handlers | with concurrent calls `LocalSeqCoversInbox` fails |
| `timeline_heartbeat` (violation) | failing RPCs | heartbeats do not make up for a lost notification |
| `presence` (MCPresence, 705 k) | 1 device, 1 gateway, 2 sessions, 2 logins, in two parts: over `/api/login` of the gateway, with a logout, all of which overlap; or over dispatch one thing at a time, with login packets, logouts of all devices, bad packets and one fault. Fair | Does a login kick every session that was there (`KickReachesPresent`), and does it leave (`SupersededLeave`)? Do sessions of one login only remain (`OneLoginRemains`)? Do locations lead to sessions (`LocationHasSession`), and is nobody kicked without a conflict (`OnlyConflictsKick`)? Yes, but for forgotten sessions, for a gateway that missed a kick, and, in `OneLoginRemains`, for sessions that connect during a login or without a token |
| `presence_expired` (violation) | 3 sessions, one thing at a time, nothing fails | a session of an older login stays (`OneLoginPerDevice`) |
| `session` (MCSession, 170 k) | 2 of 4 requests (with and without a body, unanswered, rejected) cut anywhere, a push, 2 kicks, a connection that may break | Are requests answered once and in order (`RequestsAnsweredInOrder`)? One write at a time, nothing lost or overtaken, LOGOUT before the close, packets get out, kicked sessions leave? Yes, but a session that was rejected stays in `users_` |
| `relation` (MCRelationService, 1.8 M) | 2 users, 3 calls, at most 2 of each kind, about friends or about one number of a group that may not exist yet; every step may fail or lose its answer; the server may go down | Is friendship mutual on every server (`FriendsMutual`), is a success stored (`AnswersHold`), a member announced once (`AnnouncedOnce`), does whoever hears of a request find it (`ToldOfRequests`), and has nobody else an owner's role (`OwnersOwn`)? Yes |
| `db_pool` (MCDBPool, 145 k) | 2 threads, 2 connections per pool, 1 slave, 2 outages; and, in behaviours of its own, 3 threads with the Redis pool and 2 outages | Do the counters match the connections (`ConnectionsAccounted`), and does every call return (`CallsFinish`)? Are Redis contexts never shared and never more than threads (`ContextsBounded`)? Yes |
| `db_pool_fallback` (violation) | the same | one path of a read does not fall back |
| `registry` (MCRegistry, 292 k) | 2 gateways, the list of dispatch or of a gateway, one crash; or 1 gateway, a crash and an outage of Redis; commands that take no time or up to a second | Does a dead gateway leave every list within TTL + interval + two late iterations (`DeadLeaveInTime`)? Does a key outlive the renewals the TTL has room for (`KeyOutlivesMisses`)? Is a gateway found again after a crash or an outage (`FoundAgain`)? Yes |

Why the bounds are enough to be interesting. Two messages, two handlers and a
group whose member may also be the addressee of a single chat are the least in
which numbers are taken and inserted in different orders and in which a zero
number meets the unique key. `PageLimit = 1` with two messages makes pages too
short. Two logins of one device with two sessions let an old session's clean-up
fall between a newer session's registration and the next login, and a day pass
anywhere; one fault may hit the gateway at any of these moments. All that may happen
together has too many states, so `MCPresence` divides it into two parts
(`Overlapping`, `OneByOne`), which are instances of Presence with some of its
switches off. Three sessions
are needed only where the end of one hides a second from the login of a third
(`presence_expired`). Two kicks
are what one login publishes (location and token). Two threads, each of which may
hold a write and wait for a read connection, with two connections per pool, reach
the fallback under the mutex and the exhaustion of both pools; two outages break
pooled connections and prevent their replacement. Three calls of the relation
service are, for instance, a group that is joined before it is made and then
applied for, or two joins that race while the group is made; an application, its
repetition and an acceptance. The calls about friends and those about groups share
no table, so they do not meet (`OneKind`). In `registry` a
key lives 5 s and a loop sleeps 1 s (10 s and 3 s in the code): there is room for
three missed renewals if commands take no time and for one if they are late (two
and none to two in the code, depending on how late), and a key may expire between
two polls or outlive several; processes share nothing but the keys, so one list at
a time is enough. The proofs below
remove the bounds for most safety properties.

The mutants of `PROJECT.json` show what each property catches: for instance an
expired counter (`IncrExpired`) breaks `NoSharedSeq`, a fan-out in several
INSERTs (`InsertIndexByRow`) breaks `FanOutIsAtomic`, an old session that leaves its location
(`UnlocateOnly`) breaks `LocationHasSession`, a connection dropped without its
count (`DropOnly`) breaks `ConnectionsAccounted`, a request of a group shown to all
its members (`RecipientsAllMembers`) breaks `ToldOfRequests`, one packet
handled for each read (`GoOnReading`) breaks `RequestsAnsweredInOrder`, a list
kept when nothing was found (`KeepOld`) breaks `DeadLeaveInTime`. Definitions
under a comment "The fault" exist for them only.

### Fairness

- `ChatServer`, `Timeline`: weak fairness of each handler (a gRPC thread keeps
  running), of the gateway's and client's handling of arrived packets, of the
  heartbeat timer and of replication. Nothing forces a client to send or connect,
  and connections may break at any time: `CatchesUp` assumes the client stays
  online.
- `Presence`: calls of Login run on, the subscriber reads its connection, an
  accepted session is set up, and a kicked one is ended; a `Join` by packet and
  the ends of healthy sessions are not fair.
- `SessionReader`: the strand runs what is posted, an `async_write` completes
  (beast's idle timeout breaks a connection on which nothing moves), `OnRead` goes
  on with its buffer and notices the end; a connection that was closed for a bad
  packet ends. Clients, pushes and kicks are not forced to come.
- `DBPool`: strong fairness of each thread. A thread that waits for a mutex that
  is free again and again gets it (`std::mutex` does not promise it, but the
  holders sleep up to three seconds in between); every wait ends after three
  seconds at the latest, which `TimeoutMaster` and `TimeoutSlave` stand for.
- `Registry`: threads run on, loops wake when their time has come, and time
  passes. Nothing forces a process to start or Redis to come back: `FoundAgain`
  assumes that they stay up from some moment on.

`CHECK_DEADLOCK FALSE` (in all passing runs but `db_pool` and `registry`, which
never rest): a system at rest, when all bounded inputs are used up, may stop. That calls and kicks do not get stuck is what the
liveness properties say.

## Proofs

Checked by TLAPS for every value of the constants that satisfies the modules'
named assumptions. `PROJECT.json` lists the theorems.

**MessageStoreProofs** holds the lemmas on the log: a commit adds its rows to one
table, and a prefix shows what it showed.

**ChatServerProofs.** `TypeCorrect` rests on `CallOK`, which says what the locals
are at each statement. `SeqNeverShared` needs `Counted`: every row that is in an
inbox or about to be inserted has at most the number the counter shows, so the
next INCR is fresh. `OrderKept` adds `IdsOK`: ids of messages are handed out in
order and a call holds rows of its own message only, so all rows of an answered
message were counted before a later call counts. `SyncFindsBodies` needs that the
body of a call is committed before its rows, for every prefix of the log.
`RepliesHold` and `FanOutAtOnce` need `RowsInserted`: a message has no row on the
master before its call is past the INSERT, and a single chat that has come to its
notifications has its row there.

`InboxRefinement`: `Spec => ImplementsInbox`, each action mapped to `Prepare`,
`Deposit`, `Discard` or a stutter; `Fresh` says that a user who is still to be
visited has no row of the message yet.

**TimelineProofs.** `ServiceWithin`: each step of the composition is one of
ChatServer or leaves it alone, so the invariants of ChatServer are at hand.
- `ClientTypes` and `NeverBack` hold without a condition. The types need that
  inboxes are finite (`StoredFinite`), so that a page has a last row. An answer may be
  older than the client's `localSeq`; `Advance` takes the larger of the two.
- `LocalSeqCovers`: as long as rows are stored in the order of their numbers
  (`StoresInOrder`), a client has shown every row up to its `localSeq`, for any
  clients, handlers, slaves, page limit, failing calls and broken connections. The
  property alone is not inductive: a number is also on its way in a request or an
  answer, and rows are shown later than they are read. `NumbersSeen` says of all
  these numbers that they are of a row, and that all rows up to them have been
  shown or are in the same packet (`SeenUpTo`); `PrefixesOrdered`, that a slave that
  lags lacks only rows with larger numbers. TLC checked the conjunction first, on
  the instance of `timeline_pull`.
- Without `StoresInOrder` the property is false (`timeline_overtaken`), and the code
  does not ensure it: INCR and INSERT are separate steps of threads that run
  together. `OneAtATimeInOrder` and `OneAtATimeCovers` give a condition on the code
  that does: no two calls are between their first INCR and their INSERT for the same
  addressee (`StoredOneAtATime`), because then what a call is about to store has the
  largest numbers (`BatchesAhead`).

**SessionProofs.** `OneWrite` (with the types) is inductive as it stands;
`NothingIsLost` uses it to know that what is written is the front of the queue.
`LogoutFirst` needs `KickWaits`, the LOGOUT of a kick that has run is in the queue
or on the wire, and `KickDone`, after the close it is on the wire after all that
came before. `SessionImplementsWriter` maps each step of the reader to a `Send`,
an `OnReadError` or a stutter, so that all of it holds of a whole session
(`SessionIsSafe`).
`RequestsInOrder` holds for requests of any sizes and reads that cut them anywhere.
Its invariant says what the stream is: the buffer followed by what is on its way is
the packets that were sent and not yet handled, whole and in order. To say it
without recursion, `Cuts` names the place where each of them begins, and lemmas say
how the places move when a packet is sent (`SentCuts`) or handled (`HandledCuts`);
a read moves none, since it only takes pieces from one part to the other
(`StreamFacts`). So the loop always has the beginning of the next packet at the
front of its buffer (`FrontIsNext`), and what it answers comes after what it has
answered (`NextInOrder`), while pushes and kicks are no answers (`OthersInOrder`).
`AnsweredOnce` follows for clients that send each request once.

**PoolProofs.** `ContextsStayBounded`: a Redis context is connected only when the
pool is empty, so that all others are held, at most one by each other thread; that
none is shared is part of the invariant.
`PoolTypeCorrect` and `NoConnectionLeaks` are about the database pools, with any
number of threads, connections, slaves and outages. `Placed` says where a
connection is: in the queue of the pool of its server or with one thread, never
both; `Queued`, that no queue holds one twice; `Counted`, that a counter is the
number of open connections of its pool. That a counter stays within `max_conns_`,
which is part of the types, follows from the check before each creation only
because replacing a broken connection never raises the counter. The numbers are
cardinalities, so handles and slaves are assumed finite, as they are in a process.

**RegistryProofs.** `DeadLeave` follows a gateway that is down through what still
speaks for it: its key is gone after TTL ticks (`KeysExpire`), a value got before
that is in a list one late iteration later (`FoundLately`), and a list is replaced
within an interval and another late iteration (`ListedLately`). `KeysOutlive`
needs that the age of a key is at most the misses since its last renewal, an
interval and a late iteration each, and the time its loop has slept (`Renewals`).
`Order` says what each thread may be doing while its process starts. No bound on
crashes and outages, and no relation between TTL and interval, is assumed.

**PresenceProofs.**
- `ConflictsKick` holds with every switch on. Its invariant `Reasons` traces each
  kick back: what is pending was published by a login that saw a location or a
  token, both of which stem from a session or a call that is not its own.
- `LocationsHaveSessions` assumes that Redis answers, without which TLC refutes it.
- `KicksReach` assumes only that Redis answers: logins by packet, expiry,
  overlapping calls, crashes and lost listeners are included, in any number. Its
  invariant `Reaching` says that location and token stand in for each other. An
  accepted session has a token or is marked `lapsed` (`AcceptedKnown`), one that
  can be found has a token, is marked, or its kick is on the way (`LiveKnown`), and
  one without a location is marked `hidden` (`LocatedListed`). So a login that has
  passed its first check has kicked the sessions with a location
  (`LocationChecked`), and one that has passed both has kicked all but the
  forgotten (`KicksSent`). A kick on the way arrives (`ThreatLasts`).
- `OneLogin` has the same assumption. While a session is set up that no login
  disturbed, it has the current token or none is stored (`UpgradesAlone`,
  `UpgradesCurrent`), so any login that begins later finds it among those present
  (`PresentAll`), and after that it has the current token or is doomed
  (`LocatedCurrent`): of two such sessions of different logins the older is
  (`OneGoesOn`). What is set apart is not idle: `presence_expired` shows a
  forgotten session that stays, and TLC finds the same of a raced one (with
  `Overlap`, no matter what else) and of packet sessions.

**RelationServiceProofs.** All are without a condition: any users, calls, group
numbers and failures.
- `MutualFriends` rests on `Mirrored`: the table of friendships is symmetric at
  each commit, since both rows are one INSERT, and what holds on the master at each
  commit holds on every prefix of the log (`TablesGrow`).
- `SuccessIsStored` needs `Kept`: what a call past its INSERT has put into the
  tables is there, and rows are never taken out. It says nothing of `AcceptFriend`
  and `AcceptGroup`, whose success says nothing.
- `JoinAnnouncedOnce`: the call that announces a member is the one whose INSERT
  succeeded (`OneAnnouncer`), and two such calls cannot both have found the user
  missing.
- `RequestsCanBeFound` is inductive with `Kept`: a message is sent after the
  INSERT, by a call whose row is in the table (`ToldStep`).
- `OwnersAreOwners`: a call that is about to insert an owner has made that group
  (`OwnersMade`), and nobody else's call has the same number, since numbers of
  groups are not given twice.

**Only model-checked**: liveness (`CallsReturn`, `CatchesUp`, `SupersededLeave`,
`EveryPacketSent`, `KickedSessionLeaves`, `CallsFinish`, `FoundAgain`), which needs
ENABLED and is beyond the prover, and the four violations. Every safety property of
a passing run is a theorem, under the conditions said above.

## Where code and documents differ

Four are runs of their own, with the line they contradict under `findings`:
`timeline_overtaken`, `timeline_heartbeat`, `presence_expired` and
`db_pool_fallback`. The others were found with the same models by changing a switch
or a bound:

- *Rows are not appended in order* (`chat_service_impl.cpp:187,196`). The number
  is taken before the INSERT, so an inbox row may be inserted below existing ones;
  the design document says the index is append-only.
- *Group messages that are not stored are answered with success*
  (`chat_service_impl.cpp:51,108`): when the member query or the batch INSERT
  fails the reply is still success, with number 0. Members read from a lagging
  slave miss a user who has just joined.
- *Needed for `CatchesUp`*: with a slave, the sync a notification triggers may
  read a server that lags behind the announced row, and nothing triggers another
  (`chat_service_impl.cpp:234`); with more rows than one page, the client takes
  the first page and does not ask for the next (`connection_manager.js:276`);
  with `LoggedIn = {}`, a client that logged in by packet is never notified of
  group messages, because those are pushed only to users with a token in
  `im:session` (`chat_service_impl.cpp:118`).
- *Locations*: the end of an old session deletes the location of the newer one on
  the same device (`websocket_session.cpp:107`), so pushes to a connected user
  may stop until it reconnects; with `BadPackets = TRUE` a session closed for a
  wrong magic number leaves its location and its entry in `users_` behind, because
  `OnRead` closes and returns without reading again (`websocket_session.cpp:126`).
- *Logins by packet kick nobody* (`websocket_session.cpp:290`): a login packet joins
  and locates the session, asks for no token and publishes no kick, so two
  connections of one device that log in by packet both stay. The scenario of
  `src/web_client/README_USAGE.md:89` ("旧会话被踢下线") logs in just so.
- *A login during an upgrade*: the token is compared (`http_session.cpp:82`) before
  the session is registered (`websocket_session.cpp:52`); a newer login between the
  two kicks a session that is not there yet, and both stay.
- *A late kick* (`auth_service_impl.cpp:117`) names user and device only, so it
  also ends the session of the login that sent it, if that session is registered
  before the kick arrives.
- *Logout without a device* (`auth_service_impl.cpp:187`) deletes all tokens and
  kicks nobody, so that its sessions are `lapsed`.
- *The device of a login packet* is not read (`websocket_session.cpp:287`): the
  session has the device of its URL, or `PC`.
- *Close twice*: a packet queued after a kick's close, or the second kick of a
  login, closes the stream again (`websocket_session.cpp:373`).
- *Crashed gateways*: the key of a gateway goes with its TTL, as
  `src/IM即时通信服务器端架构.md:297` says, but the locations of its sessions have none
  (`websocket_session.cpp:61`; the same document, line 400, wants a TTL of two
  heartbeats for a route). They stay until the next session of the device, and
  every message to the user is pushed to them meanwhile.
- *Missed kicks*: the kick listener ends with its connection to Redis
  (`redis_client.cpp:199`) and a restarted gateway accepts sessions before it
  listens (`gateway/main.cpp:41,76`): sessions at such a gateway outlive a newer
  login of their device.
- *After an outage of Redis*: broken contexts go back to the pool
  (`redis_client.cpp:37`) and are the first to be taken again. Dispatch uses Redis
  from one thread, so it has one context: once that is broken its list stays empty
  and every login is answered 503 until it is started again. `FoundAgain` assumes
  that no context is broken for this reason. A gateway's heartbeat may be caught in
  the same way and lose its key.
- *503 after the login*: dispatch looks for a gateway when the token has been
  replaced and the older sessions have been kicked (`dispatch/main.cpp:149,152`).
- *Two strands*: reads of a session run on the strand of the acceptor
  (`server.h:38`), writes on another (`websocket_session.cpp:22`), so two threads
  may be in the stream at once. The models take each operation on it for atomic.
- *Requests are never closed*: `init.sql:69` knows the states 1 and 2, but no
  statement sets them (a TODO at `relation_service_impl.cpp:79`), so a request
  stays pending after it was accepted or refused, and `ApplyFriend` answers
  "Request already pending" ever after.
- *A request twice*: two calls of `ApplyFriend` that overlap both find none pending
  and both insert one, since the table has no unique key; so does a call whose check
  fails (`relation_service_impl.cpp:34,46`; line 31: "Check duplicate apply").
- *A request its friend never hears of*: the result of the nested `SendMessage` is
  not looked at (`relation_service_impl.cpp:64`), and the call cannot be repeated,
  because the request is pending (`README.md:55`: "好友申请实时推送到在线客户端").
- *A request nobody asked for*: `AcceptFriend` looks up no request, so it makes
  friends of two users none of whom has applied (`relation_service_impl.cpp:81`);
  the web client's `makeFriends` accepts 200 ms after it applied, whatever became
  of that (`connection_manager.js:237`). A check of `ApplyFriend` that fails counts
  as "none pending" (`relation_service_impl.cpp:34`).
- *Groups without an owner*: who joins a number before he makes the group of that
  number stays a plain member, since `uk_group_user` refuses the owner's row; a
  group whose owner's INSERT fails, or is never reached, has none either.
  `CreateGroup` goes on and answers success (`relation_service_impl.cpp:151,160`;
  line 147: "Add Owner and Initial Members").
  `AcceptFriend` answers success when its INSERT failed
  (`relation_service_impl.cpp:88`).
- *New members are announced by `JoinGroup` only*: `README.md:66` says that all
  members are notified when a user joins; a member let in by `AcceptGroup` is
  not announced to the group, and neither is one whose message could not be sent
  (`relation_service_impl.cpp:192,312`).
- *No connection*: all calls but `ApplyFriend` use a connection they may not have
  got (`relation_service_impl.cpp:77`), which ends the user server.
- *Idle timeout*: the gateway's is 300 s (`websocket_session.cpp:25`), while
  `tests/integration_test.cpp:121` expects 5 s and waits for 15 s.

## What is not modelled

- User ids, names, texts, JSON and protobuf encodings: model values or absent.
- Passwords and `Register` (one INSERT). The gateway address that `Login` picks
  is not used by its callers.
- The loss of Redis' counters: `NoSharedSeq`
  depends on the counters never going back (`IncrExpired` shows what happens).
- Crashes of chat, auth and user servers between two steps, other than a call that
  fails (`LoseBody`, `InsertFailed`, `GoDown` and so on), and of a gateway in the
  middle of a login it serves: Redis and the auth server then hold what the steps
  before the crash left, as when the call fails.
- That `redisConnect` and gRPC calls have no timeout and block a thread of the
  gateway's `io_context`: a call takes any time in the models but Registry.
- `Registry` assumes that an iteration of a loop is late by no more than
  `deployment.late`: hiredis is used without a timeout and does not ensure it.
- The HTTP sessions of gateway and dispatch apart from what they ask of the auth
  server and what a login is answered with.
- Widths of the header's fields: `body_len` is what it says, and a packet longer
  than what arrives is one that is never complete.
- The TCP/WebSocket layer, MySQL and Redis are external: an operation succeeds,
  fails, or succeeds with its answer lost, as the callers can tell it.
- `GrpcChannelPool` (a map under a mutex: a failing call is an outcome of every
  RPC), configuration (read before any thread starts), logging.

## Plan

1. Done: MessageStore, ChatServer, Inbox, Timeline, Presence with its faults,
   SessionWriter and SessionReader, DBPool, RedisClient, Registry,
   RelationService, and the proofs above.
2. Theorems to come: the safety half of the liveness arguments (what a call that
   waits for a connection, or a client that lacks a row, waits for).
3. Models: pushes that follow the locations of Presence, with the location read
   before and used after the session has moved; an expired or lost counter of
   Redis in ChatServer.
