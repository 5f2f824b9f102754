# Aeacus in TLA+

Aeacus lets the network choose the server of a QUIC connection: an edge node
reads the server name in a client's first packet, resolves it next to the
client, and forwards the packet there. The repository holds that forwarder, the
edge DNS servers it is compared with, demo QUIC servers and clients, and the
scripts that measure them. This directory holds specifications of the parts that
keep state and wait for others, the model checking runs about them, and proofs.
Source paths below are relative to `src/aeacus/`.

## 1. The system

| part | source | state | operations | hard behaviour | what makes it correct |
|---|---|---|---|---|---|
| DNS exchange | `dns/resolver.py:34-98` | a future shared by all attempts, a socket per attempt | send, await with timeout, retry | a timer against an answer; late, duplicate, mismatched answers; cancellation; Python 3.8 and 3.11 differ | it ends, the first outcome stands, sockets are closed |
| Resolver | `dns/resolver.py:13-31, 55-80, 101-184` | `CACHE`, shared by all tasks of the process; the call stacks | look up, store, two mutually recursive coroutines and an iterative one | other tasks change the cache at every wait; entries expire and lookups pop them; the recursion must end | answers come from valid records; recursion is bounded |
| Edge DNS server | `dns_legacy_aio.py` | `CACHE`, `update_record`, the cache file | client queries, refreshes on the control port, notices, load and save | reply assembled after the wait; failures halfway; restarts | a reply gives an address, a notice tells what is new, old entries stay old |
| Forwarder | `dns_aeacus_aio.py` | the frame in hand, the socket's queue, `CACHE` | receive, parse, resolve, rewrite, send | one loop waits for every resolution; errors of one packet | order, valid routes, every packet served, checksum |
| Demo server: connections | `dummy_server.py:27, 156-256` | `CONNECTIONS`, event queues | route a datagram, work off events, send | ids are issued while sending and entered later; retired in any order | every id in use finds its connection |
| Demo server: tickets | `dummy_server.py:27-72` | `tickets` of every server, the MQTT connection | add, publish, receive, pop | three threads, one broker, own echoes, lost subscriptions, restarts | tickets spread, and are used no more often than intended |
| HTTP/3 server | `http3_server.py` | handlers by stream, queues, backlogs | HTTP, WebSocket, WebTransport, push | data before acceptance, either side closing first | order is kept, streams end |
| HTTP/3 client | `http3_client.py` | events and waiters by stream | requests, pushes, WebSockets, 0-RTT | waiters of a lost connection, pushes before their promise, files of one name | a result is the whole response, and nobody waits for what was read |
| QUIC clients | `dummy_client.py`, `migration_client.py`, `quic_support_tester.py` | connection, flags, deadlines, ticket | send, receive, handle events, migrate | ending against flushing; 0-RTT; loss without timers | an exchange stands still only after a loss; every client ends |
| Measurement | `fake_*.py`, `rtt_mea.py`, `echo_server.py`, `analysis/handshake_delay.py` | requests by id, registrations, logs | register, send, match answers, read the log | id wrap-around, late and duplicate answers, two writers of one log, restarts | an answer is matched with its request, and the analysis says what was answered |
| Others | `name_server_aio.py`, `dns/adns_server.py`, `web_logger.py`, ... | none worth the name | one loop each | none | not modelled, see section 7 |

How they interact. The edge DNS server and the forwarder each import the
resolver and call it from tasks of one event loop; the resolver calls the
exchange. Within a process control changes hands only at an `await` that
suspends, and the only one in the resolver is the exchange's. The demo servers
talk to one another through the MQTT topic `aeacus` only. A server process has a
thread for QUIC, one for MQTT and one per published ticket; the connection table
belongs to the first, the ticket store is touched by all.

## 2. Modules

```
OneShotQuery  <--implements--  DnsExchange        DnsExchangeProofs
                                   |
                        (used by its promise)
                                   v
                               Resolver
                               /      \
                       LegacyDns      Forwarder  --implements-->  LossyPipe
                        /  |              |  \         ForwarderProofs
         LegacyDnsProofs MCLegacyDns  MCForwarder  IpChecksum

TicketStore, TicketStoreProofs      ConnTable, ConnTableProofs

Http3Server  <--EXTENDS--  Http3Client, Http3ClientProofs

QuicClients, QuicClientsProofs      Measurement, MeasurementProofs
```

**DnsExchange** is `send_with_retry_async`. `pc` is the place of the task,
`attempt` the loop variable, `future` the one future of line 84, `open` the
attempts whose transport is open, `net` the answers under way. The task's
actions are the stretches between two awaits; `TimerFires` and
`DatagramReceived` are the event loop's, so that an answer may arrive after the
timer released the task and before the task runs. The interpreter is a variable
because `asyncio.TimeoutError` is caught at line 96 on Python 3.11 (the EASDF
host, `vms/provisioning/playbook.yml`) and not on 3.8 (`containers/`).

**OneShotQuery** is what that function really offers: the first answer, or the
first silence, decides. `DnsExchange` implements it.

**Resolver** has the cache and the coroutines. A task is a stack of frames
(`fn`, `name`, `ns_level`, `ignore_cache`, place), because the recursion depth
and what each level remembers matter. One action is one stretch of a coroutine
between calls, returns and awaits; `running` keeps other tasks out in between.
`Call` raises when the stack is full, as Python does. A question is asked by
`Ask` and ended by `Answered` or `Unanswered`, which is what
`DnsExchange!ExchangeEnds` and `IsOneShot` promise. A DNS reply is a sequence of
records; `Stored` gives `update_cache`'s backward walk, so that the first record
of a key stays. A lookup pops what has expired, and every action says which keys
it looked up (`LookedUp`).

**LegacyDns** adds the requests: `Query`, `Refresh` (the control port up to its
await), `Reply` (the walk through `CACHE` that reads expired entries too, and
NXDOMAIN on an exception), `Refreshed` (the rest of `update_dns_cache`, with the
TypeError of line 216), `Cancelled`, and `Tick`, `SecondPasses`, `Interrupt`,
`Crash`. `out` is the datagram the last step sent. `Addrs` holds what `CACHE`
holds, not what it prints: the root servers' addresses are strings in the program
and dnslib's `A` objects in a reply, which line 218 finds different even when the
address is the same (`root` and `rootA` in `MCLegacyDns`). A crash may leave the
cache file cut off or missing; one that cannot be read is as none (`NoFile`).

**Forwarder** composes the same resolver with the serve loop. `Receive` starts
a resolution, `Forward`, `SendFails`, `Fail` and `Cancel` end it, `Skip` and
`ReceiveFragment` are the frames that need none. `sent` and `arrived` are
histories. **LossyPipe** is the promise: in order, at most once, possibly
dropped, possibly broken. **IpChecksum** is the loop of lines 134-142 by itself,
since the header's bytes matter to nothing else.

**TicketStore** has any number of servers around one broker: `held` is
`self.tickets`, `publishing` the threads started by `add`, `inbox` what the
broker has for a server. `linked` and `subscribed` differ after a reconnection.

**ConnTable** has `CONNECTIONS` and, as external parts, the QUIC library's ids
and its queue of events. `turn` tells whether the thread receives, works off the
events of a connection, or sends. Whether and when the library reports a
termination is left open.

**Http3Server** has the handlers of `http3_server.py`. `kind` is `_handlers`,
`inbox` a handler's `queue`, `backlog` its `http_event_queue`; `opened` stands for
`websocket is not None` and `accepted`, and is true of plain HTTP, which holds
nothing back. Each call of `send` and each event is one action, for neither
awaits. `arrived`, `given` and `wire` are histories: what came in, what the
application took, what went out. The application is any ASGI application,
which may return or fail at every point (`AppEnds`).

**Http3Client** puts `http3_client.py` at the other end of those streams: what
the server sends is the server's own `wire`, of which the client has read the
first `read[s]` items, and what the client sends waits in `upstream`. `CheckUrls`
is the comparison of the URLs in `main()`, of which only the outcome is kept: a
second URL names the same server or it does not; `Ask` and `RequestReturns` are
`perform_http_request` up to its future and from there to its file; `Answer`,
`WebSocketEvent`, `PushEvent` and `Promised` are the branches of
`http_event_received`, of which `Read` takes one; `AllDone` is the end of
`gather()` with `process_http_pushes`. Each stream is read at its own pace, which
is all that QUIC promises. With `scheme = "other"` the server meets any other
client, so that WebTransport, trailers and bodies of several parts occur.

**QuicClients** has the three QUIC clients, which share most of their code: one
turn of the loop of `listen()` is one action (`Turn`: send, ask if it is time,
read and handle a datagram if there is one), in the order of the loop, and so is
one turn of the echo server (`Serve`). The state of the library is kept to what
its API shows: the phase of the handshake, what is left to send, whether it is
closing. A frame is a datagram of its own, and one that an end has no keys for is
lost to it: a query that left before the client's handshake was done (`early`) is
taken by a server that accepts early data, any other after the client's Finished
(`Takes`). A server without a common version ends the handshake with an event of its
own (`Versions`). `lost` holds the frames whose loss
nobody noticed, which an end may notice when something arrives, since no program
calls `handle_timer`. `round` is the migration's `run(1)` and `run(2)`, `start` its
`START_TS` and `index` the variable of `listen()`, which are set at different times.

**Measurement** has the clients that measure delays and their servers. A query is
known by a number, which stands for the time in milliseconds that names it in
the log. A log is kept as what the analysis has made of it line by line (`data`),
so that the order of the lines is the order of the actions; `line` is the last
line about an answer with the delay it should have said. `net` only grows:
datagrams come late, twice or never. One program runs at a time, for each has
its own log and servers.

## 3. What the runs check

| run | instance | states | shows |
|---|---|---|---|
| `DnsExchange` | 3 attempts, both interpreters | 8 k | invariant `SharedFuture`, `SocketsLeakExactlyOnSilence`, `ExchangeEnds`, `IsOneShot` |
| `DnsExchangeRetries` | the same | - | violation: a silent query does not end after all its retries |
| `LegacyDns` | 2 tasks, 4 names, either resolver | 1.1 M | `AnswerIsRecent`, `NoticeIsNews` |
| `LegacyDnsBroken` | 1 task, zones in disorder, a seeded root, restarts | 478 k | `TypeOK`, `NoticeIsNews`, `AnswerHasAddress`, `RoundsAreBounded`, `OnlyRepliesRenew`, `RequestsEnd` |
| `LegacyDnsEmpty` | 2 tasks | - | violation: a reply without error that holds no record |
| `Forwarder` | 5 frames, socket of 2, 2 names | 266 k | `RouteIsValid`, `IsPipe`, `PacketsAreServed` |
| `TicketStore` | 3 servers (1 flaky), 2 tickets | 100 k | `UsesAndChances`, `UsesAreBounded`, `LostSubscriptionStays`, `TicketsSpread` |
| `IpChecksum` | base 4, 5 words | 1.8 k | `SumIsExact`, `ReceiverAccepts` |
| `ConnTable` | 2 connections, 5 ids | 62 k | `TableFollowsQueues`, `AssertionHolds` |
| `Http3Client` | 2 streams, client and server or any other client | 1.1 M | `TypeOK`, `ToldInOrder`, `SessionsEnd`, `ResultsWhole`, `WaitsOnlyForServer`, `PushesWhole`, `ClosedIsOver` |
| `QuicClients` | 3 clients, 4 kinds of server, deadline of 2 | 291 k | `QuietOnlyAfterLoss`, `CloseIsSent`, `VerdictIsPhase`, `QueriesPaced`, `ProgramEnds` |
| `Measurement` | 3 queries, 2 ids, 2 runs | 1.2 M | `AnswersAreMatched`, `DelaysNotOverstated`, `AnalysisAgrees`, `RegisteredWhileAsking` |

The typing of the modules whose `TypeOK` is proved (section 6) is not checked
again by their runs.

Deadlock is checked in every run but three: in `Http3Client` the applications
may all have ended or the connection be lost, in `QuicClients` the program is over
at last, and in `Measurement` the time and the queries are used up.
In `LegacyDns` it is also the check that the
`while` of `dns_legacy_aio.py:172` never runs round a loop of aliases: `Reply`
is not enabled then, and the server would stand still. With one request at a time
it does not happen even in zones whose aliases form a loop, for the resolution
before it follows the same aliases and meets the recursion limit. A request whose
alias moves into a loop of others while it waits is outside the two-task instance.
`RequestsEnd`, for its part, is about one request at a time, none of which is
cancelled: there an end without a reply would count as an end.

What is worth knowing of the results:

* Retries never help. All attempts share a future, so that a bad answer stays
  and a timeout has cancelled it. On 3.11 the caller of a silent query gets a
  `CancelledError`, which passes every `except Exception`: a client of the edge
  server hears nothing (`Cancelled`), and the forwarder ends (`Cancel`).
* Every silence leaves a socket open, two on 3.11.
* A reply can be empty though its resolution succeeded, when another request's
  lookup pops the expired alias in between. With one request at a time it
  cannot (`AnswerHasAddress`), unless a reply about one name changes the alias of
  another that led there: then the walk that puts the answer together follows the
  new alias, to nothing or to an address long expired. Proved for the `--ns`
  server and replies without such records (`ToThePoint`), checked for the other.
* The same kind of reply can send a packet of the forwarder to the address of a
  name that its server's name no longer stands for; without it the route is
  right (`RouteIsValid`), and in any case it comes from an unexpired record.
* A notice tells an address that a name server has given during the refresh, however
  the tasks' lookups and replies fall (`NoticeIsNews`). The converse does not hold: a
  domain that was not in the cache is not announced (the TypeError of line 216), nor
  one that moved while its entry is valid when the server has `--ns`, since
  `ignore_cache` is not passed on (line 168). And what is new need not be a change:
  the first refresh of a root server announces the address the program started with,
  as an object in place of a string.
* A packet that cannot be read, resolved or sent costs only itself: every packet in
  the socket of a loop at work is served or given up, unless a fragment came before it
  (the `struct.error` of line 115) or a question ended in a `CancelledError`, which end
  the loop (`PacketsAreServed`).
* A ticket is good for two resumptions at its issuer: its own MQTT message comes
  back and restores it after `pop`.
* A server that lost its broker connection learns of no ticket from elsewhere
  until it restarts.
* Ids of a connection always find it or will when its events are worked off,
  and the assertion of `dummy_server.py:169` holds; terminated connections stay
  in the table for good.
* A WebSocket that the application closes, or leaves, without accepting it gets
  its refusal but not the end of its stream (`SessionsEnd`); WebTransport
  sessions in the same place are ended.
* What `get()` and `post()` return is the whole response, but a lost connection, or
  an application that ends without ending its response, leaves the request
  waiting (`WaitsOnlyForServer` says that it waits for nothing else). A push
  whose data is read before its promise is saved without that data
  (`PushesWhole`). Requests and pushes of one file name replace one another's file.
* The dummy client never tells the server that it leaves: its answer sets the
  flag that ends the loop before the close is sent. The tester does (`CloseIsSent`).
* A server without a common version is entered by the tester like one whose handshake
  has begun, since the end of the connection is an event too (`VerdictIsPhase`).
* The second round of a migration sends a burst of the queries that the first
  had time for, since `index` begins anew and `START_TS` does not: once it has caught
  up it has asked for every interval since the first round began. With a ticket the
  burst does not wait for the handshake, and all but its newest query leave as early
  data; without one none leaves before the handshake is done (`QueriesPaced`).
* After 65535 queries an answer can be logged for another query; its delay is
  then too short, never too long. A delay of `rtt_mea.py` is reckoned from the start
  of the turn and is too short by the time until the read.
* The sender's log line comes before its query is sent, so that the analysis
  never loses an answer to it (`AnalysisAgrees`).

Each property can fail: beside the definitions stand slips (comment "Slip for
..."), changes of a definition that a plausible bug would make, and for every
property of a passing run there is one that breaks it. They are not part of any
specification.

## 4. Bounds, and why they are enough

* `Retries = 3` is the code's own value; the proofs cover every other.
* `MaxDepth = 6` frames stands for Python's recursion limit. Resolutions in
  ordered zones need fewer; loops of aliases need more whatever the limit, so
  that both outcomes occur. `Forwarder` has 4, since its resolver recurses
  through aliases only.
* `Floor = 1` tick stands for the 300 s of line 59; records have TTLs below and
  above it (0 and 2), so that both sides of the `max` decide.
* Ages are counted to `MaxAge`. TTLs go up to 2, so that an entry has expired at 3,
  the bound in `Forwarder` and `LegacyDnsBroken`, and is too old for `AnswerIsRecent`
  at 4, the bound in `LegacyDns`: nothing looks further. The proofs have any
  `MaxAge`. It is one bound for all entries, since an entry may be compared with an
  older one of its key and another TTL, in the cache file.
* `Seed` is empty in the runs with two tasks and one root server in
  `LegacyDnsBroken`, for the notices about it: its 13 records have a TTL of 116 days,
  which no run would see end (`RootSeed` has `MaxAge`), and the resolver takes the
  root's address from `DNS_ROOT_LIST` (`RootAddr`). The proofs have any seed.
* A tick is longer than any one resolution and no request sees two: otherwise an
  entry could be stored and expire while one request waits, which
  with 300 s against at most a few exchanges of 9 s does not happen.
* Two tasks are what it takes for a cache to change during a wait, in
  `LegacyDns`; the only symmetry used is theirs, in a run without liveness.
* Restarts are enabled in `LegacyDnsBroken` only and for the `--ns` resolver
  (`MayRestart`), which keeps the product of zones and files small.
* Four-valued words and five of them give every pattern of carries between two
  neighbouring additions; the proof covers 0x10000 and ten words.
* Two streams let one push the other, and two requests meet in one file name and
  in `gather()`; the events of different streams meet nowhere else. Two events of
  another client (`MaxEvents`) can fall before, across and after the acceptance.
  `MaxData = 1` is one part of a body between the headers and the end; a
  WebSocket has two texts, as many as `main()` waits for.
* `QuicClients`: `Limit = 2` intervals let the migration ask twice in its first
  round and four times in the second, which `MaxQueries = 5` does not cut.
* `Measurement`: three queries over two ids is one that comes round, before and
  after the answer to the one it replaces; two runs are a client that was
  registered before and one that is now.
* Two connections and five ids allow one connection to have its first id, its
  own, and one issued and retired while the other lives. `MaxQueue = 2` bounds
  the events of one connection.

## 5. Fairness

`DnsExchange`: the task is resumed when it is ready and an armed timer expires
(weak fairness of `Task` and `TimerFires`); nothing is asked of the network.
`LegacyDns` and `Forwarder`: the event loop runs a ready task, and a question
ends, which is `ExchangeEnds`. In `LegacyDns` nothing is asked of clients or of
the clock. `TicketStore`: a started thread runs and a live MQTT connection
delivers (`PublishTicket`, `OnMessage`); `TicketsSpread` is claimed only between
servers whose connections do not break, QoS 0 having no redelivery. `QuicClients`:
a client's loop never blocks, its socket being non-blocking, so that it goes on
(`WF(Client)`), and time passes (`WF(Tick)`); nothing is asked of the server or
the network. `ConnTable`, `Http3Client`, `Measurement` and `IpChecksum` make no
liveness claim: a request may wait for ever, as said above.

## 6. Proofs

* **DnsExchangeProofs**, for every `Retries > 0`: `SharedFuture` says, by the
  state of the future, where the task is, which attempt it makes and which
  sockets are open. With `TypeOK` it is inductive; typing alone is not, for that
  `open` holds attempts only needs that a task that opens one has one left. From
  it follow `AnsweredFirstTimeOnly`, `SocketsLeakExactlyOnSilence` and
  `FirstOutcomeStands`, and step by step the refinement `IsOneShot`. Assumes
  `RetriesAssumption`, `RuntimesAssumption`.
* **LegacyDnsProofs**, for any name space and any replies whose records hold an
  address under A and a name otherwise: the resolver's frames pass values to each
  other through `ret`, so typing alone is not inductive. `Nested` says which
  coroutine a frame has called, `Ready` what the running frame may find in `ret`,
  `Waiting` that only a frame at "asked" waits; `GoodFrames` bounds the level
  of a frame by its place, one less while it may still call itself. Each of the
  17 steps of a task and the steps of the server keep them. `NoticeIsNews` needs to
  know of the entry a refresh began with, while the refresh waits: `Remembered` says
  that, as long as the entry has not been replaced by one at most a tick old, it is
  the address remembered or has been popped, in whatever order the other tasks look
  up, store and pop (`RemembersOrNew`).
  `OnlyRepliesRenew` needs `FileIsOlder`: the copy of an entry in the cache file is
  no younger than the entry, so that no restart makes it younger. What a reply
  says is proved for `Alone`: one request at a time, `--ns`, and name servers whose
  reply about a name changes no alias on another's way to it (`ToThePoint`, which
  TLC evaluates for the replies of the runs). `AloneInv` says that good aliases lead
  from the name asked for to the one being looked up (`Way`), where good is what had
  not expired when the request began (`Good`): a lookup pops only what is not on the
  way, the tick that a request may see makes nothing on it bad, and a
  reply about a name cuts no way to that name (`WayStored`). When the lookup is over
  the way ends at a live address, and the walk of the reply cannot leave it
  (`ChainGood`). None of the three conditions can be dropped: `LegacyDnsEmpty` is the
  counterexample with two requests, section 3 has that of other replies, and a
  recursive resolver looks up name servers in between, whose aliases are on no such
  way. From the same invariant, `WalksEnd`: the `while` of line 172 always has an end,
  so that a resolution that succeeds never leaves the server in it. Assumes `ResolverAssumption`,
  `ServerAssumption`.
* **ForwarderProofs**, for all packets, names and replies: `Carried` (what is in
  hand is a packet, and the loop runs while it is) is inductive; with two
  lemmas about sequences every step maps to a step of `LossyPipe` or to none.
  For routes, `RouteInv` adds that the
  stack holds calls of the iterative coroutine only, that the name looked up is one
  that the aliases in the cache give for the server's name, and that the value handed
  down is the address of a live entry. That the route is unexpired follows for any
  replies (`RouteUnexpired`), that it is one of the server's name for those that
  keep to the point (`RouteValid`). Assumes `PacketsAssumption`,
  `ServerNameAssumption`, `ServeAssumption`, `ResolverAssumption`.
  The checksum, for any base and length: `total = sum + carries * (Base - 1)` is the
  loop invariant; with the complement it makes the header's sum a positive multiple of
  `Base - 1`. `ReceiverAccepts` adds up the finished header anew, by a recursive
  function: the sum exists and is unique for every length, since there is no smallest
  length for which it is not (`TotalsExist`), and storing the checksum adds it to the
  sum. Assumes `BaseAssumption`, `WordsAssumption`.
* **TicketStoreProofs**, for any servers and tickets, any of them flaky: the
  bound on uses is not inductive, since it says nothing of the copies still to
  come. `UsesAndChances` counts those in too, and needs that a ticket is
  published by its issuer only. Assumes `FlakyAssumption`, `NobodyAssumption`.
* **Http3ClientProofs**, for any streams, applications and clients of any kind, and
  any loss of the connection: all seven properties. `ServerInv` says of each stream
  how its kind, its queues and what was sent on it go together (what was told and what
  is held back are what came in; whatever ends a session ends its stream), and
  `ClientInv` of each request, push and file what part of the server's stream it
  holds. Neither is implied by the properties: these compare two ends of a
  stream, and every state in between must say where the difference is. `Only`, the
  filter on sequences, is a recursive function, and its lemmas go by the smallest
  length at which it would be wrong. Assumes `StreamsAssumption`.
* **ConnTableProofs**, for any connections, ids and length of the queues:
  `TableFollowsQueues` is not inductive, for it says nothing of the order of the
  events. `Inv` adds that an id belongs to one connection (`Owned`), that an id
  whose "issued" event waits is not in the table, and that a "retired" event has
  its id in the table or the "issued" event before it (`IssuedInOrder`,
  `RetiredInOrder`); each event comes once. So the head of a queue, if it is a
  "retired" event, has its id in the table, and the lookup and the assertion of
  line 169 succeed. Assumes `NobodyAssumption`.
* **QuicClientsProofs**, for any deadline and any number of queries above twice
  the deadline (a migration asks at most once per interval of each round, so the
  bound never stops one). The argument follows the frames: `Kept` says that each
  step of an exchange with the echo server is done, or its frame is queued, in
  flight or lost; `Closed` says where the close is, and `Numbered` that no frame
  names a query not yet asked; `Paced` ties `index` to the queries asked and says
  which of them are still queued, by the keys there are. None of the
  properties is inductive without them:
  `QuietOnlyAfterLoss` speaks of the state in which all queues are empty only.
  Assumes `LimitAssumption`.
* **MeasurementProofs**, for any number of queries, ids and runs and any length of
  time: all four safety properties. `Carried` says what a datagram under way may
  name: its query, or a later one of the same id; and that one that says
  "registered" tells of a server that has known a client since it started. With
  `InOrder` (a later query has a later time) and `TurnIsLast` (no query is later
  than the time that `rtt_mea.py` works with) the delays follow; `AnalysisAgrees`
  needs that nothing is heard of a query whose line is not yet written. Assumes
  `ConstantsAssumption`.

Only model-checked: liveness (`ExchangeEnds`, `RequestsEnd`, `PacketsAreServed`,
`TicketsSpread`, `ProgramEnds`), which needs fairness and ENABLED, out of the
prover's reach; that replies have an address and are recent when the server
resolves recursively (`LegacyDnsBroken`, and for two requests that records
are recent `LegacyDns`), which holds in the zones of those runs and not in all; and
that no while loop of the server runs for ever (deadlock freedom), of which
`WalksEnd` proves the loop of the reply under those same conditions.

## 7. Not modelled

`dns_legacy_patched.py` is the edge server without its control port.
`name_server_aio.py`, `dns/adns_server.py` and the `--response` option answer
every query alike. Lines 73-157 of `dns_legacy_aio.py` have no caller. The
probes `sample_ran_rtt.py` and `yolo_delay.py`, the samples (`token_*.py`,
`mqtt_*.py`) and `web_logger.py` are single loops around a library. The rest of
`analysis/`, `exp/` and the shell scripts work on logs. The
forwarder's parsing of a ClientHello and the QUIC protocol itself are the
library's. A forwarder that hears its own frames (both interfaces the same, the
option's default for trials on `lo`) is not considered: deployments have
`--nic-egress eno1` (`docs/`).

In `http3_server.py`: the choice between HTTP/0.9 and 3, the `quack` datagram,
and what a session sends on streams other than its own; wsproto's framing (a
message comes in one piece), and events of a session that come before its
headers, which meet a missing key (`http3_server.py:442`). In the clients: the
session ticket files, HTTP/0.9, and the list of domains the tester works off one
after the other. `handshake_delay.py` cuts off the first and the last digit of
the time that names a query; the queries of a run stay distinct.

## 8. Plan

Done: every part of section 1 that keeps state, the most important first (exchange,
resolver, edge DNS server, forwarder, tickets, connections, HTTP/3 server and
client, QUIC clients, measurement).

Every safety property of the passing runs is the property of a theorem,
`AnswerHasAddress` and `AnswerIsRecent` under the conditions of section 6. What is left:

1. `AnswerIsRecent` for several requests. Its counterexamples need a request that
   changes an alias on another's way and then fails; with a condition that
   excludes those, the way of each request could end at the name that another
   looks up.
2. Events of an HTTP/3 session that come before its headers (`http3_server.py:442`).
