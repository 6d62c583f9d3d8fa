# Logshuttle in TLA+

Logshuttle reads log lines from Kafka and forwards each one to the destinations
("log drains") that users registered for its app or site through a REST API. A
destination is a syslog service (tcp, udp, tls) or an http(s) endpoint. This
directory holds TLA+ models of the parts that carry the program's own logic,
the TLC instances that check them, and TLAPS proofs about them.

Run everything from this directory: `tlc -config MCDrains.cfg MCDrains`,
`tlapm DrainsProofs.tla`, and so on. `PROJECT.json` lists the runs, maps every
definition to the lines it models and lists the hazards and findings.

## 1. The system

    Kafka -> LogConsumer -> forwarders -> Shuttle.SendMessage -> Drain pools -> services
                             (4 topics)      |  route table        http / syslog
    REST API -> Storage <-- RefreshRoutes <--+     |
                  (minute ticker)                  +-> drains.Dial / Undial

| component | source | state | operations | what is hard |
|---|---|---|---|---|
| Drain registry | `drains/drains.go` | `drains`, `drains_count`, `drain_keys`, `bad_hosts`, two mutexes | `Dial`, `Undial`, bad-host ticker, flush ticker, `PrintMetrics`, `CloseAll` | reference counting from many goroutines; `drains_mutex` held while a pool connects; tickers that walk the maps without the lock |
| Shuttle | `shuttle/shuttle.go` | `routes` (key to slice of destinations), `route_keys`, `routes_mutex` | `RefreshRoutes` (adders, removal pass), `SendMessage`, five forwarders | the removal pass shifts a slice that is ranged over by itself and by forwarders; adders check and append in two critical sections |
| Http pool | `drains/httpdrain.go` | `buffered`, `draining`, `closed`, `mutex` | `writeLoop`, `Flush`, `Close` | flags read without the mutex; mutex held during a POST without timeout |
| Syslog pool | `drains/syslogdrain.go` | channel `packets`, slice `conns`, `Attempting`, `Pressure`, `Mutex` | `writeLoop`, `connect` in goroutines, `Close` | lock-free growth of the pool; order of a tag when it grows |
| Syslog connection | `syslog/syslog.go` | channel `Packets`, `conn`, `Errors`, `stopped` | `writeLoop`, `writePacket`, `connect`, `watch`, `Close` | reconnect by a report from another goroutine; `Close` against a write under way |
| Log-drain API | `logshuttle-server.go` | storage | create, delete, get, list, log events | ignored errors; calls that fail after they were carried out; an exit between two calls |
| Server | `logshuttle-server.go`, `server.go` | ticker, signal channel | minute loop, shutdown | the order of shutdown; the loop waits for `drains_mutex`, pools and adders |
| Kafka consumer | `events/consumer.go` | `IsOpen`, the client handle | `runPooler`, `Refresh`, `Close` | recovery, refresh and close share an unlocked flag |
| Kafka producer | `events/producer.go` | client handle | `AddLog`, `AddRaw`, `Close` | closed before its users |
| Log session | `shuttle/session.go`, `logsession-server.go` | idle counter, own consumer | `CreateLogSession`, `ReadLogSession`, `ConsumeAndRespond` | when a session is idle; whose line it shows |
| Storage | `storage/storage.go` | routes, sessions with expiry | Postgres, Redis (and memory, for tests) | they find and remove a route in different ways |
| Parsers, packet format, Envoy adapter | `shuttle/common.go`, `syslog/packet.go`, `shuttle/envoy.go` | none | formatting | which app and site a line belongs to |

What makes each part correct:

* registry: the count of a URL is the number of its users; a pool is open while
  it has users and closed after; every `Dial` returns;
* route table: it follows storage, and agrees with the registry on who uses a pool;
* forwarding: each message goes once to each destination, and a forwarder comes back;
* pools: each packet leaves at most once and in order, is not lost inside the
  process, and is sent in the end if the service takes it; `Close` ends everything;
* consumer: within a process messages are handed over in order, and again only after
  a commit failed; what goes by is accounted for; close is final;
* session: the lines that a drain of its app or site gets and no others; it ends
  when the client leaves or nothing comes;
* API and storage: what was answered holds of storage, whatever failed; either
  storage does what one abstract store does;
* the process: while endpoints answer, no goroutine waits for ever on another, and
  a signal ends it.

## 2. The modules

| module | models | composed with |
|---|---|---|
| `SharedPools` | abstract: routes join and leave the one pool of their URL | implemented by `Drains` |
| `Drains` | the registry | used by `Shuttle` through `INSTANCE` |
| `DrainsProofs` | theorems about `Drains` | extends `Drains` |
| `GoSlices` | what a holder of a slice header sees when the array is rewritten | used by `Shuttle` |
| `Shuttle` | storage as a set, refresh, adders, forwarders, registry | `D == INSTANCE Drains`; implements `Drains` (`R == INSTANCE Drains WITH handle <- Held`) |
| `ShuttleProofs` | theorems about `Shuttle` | extends `Shuttle` |
| `OrderedLine` | abstract: packets join a line at its end and leave from its front, once | implemented by `HttpDrain` and `Logger` |
| `HttpDrain` | an http pool with its endpoint | `OL == INSTANCE OrderedLine` |
| `SyslogDrain` | a syslog pool; its connections are FIFO queues | `Logger` is one connection in detail |
| `Logger` | a syslog connection | `OL == INSTANCE OrderedLine`; what `SyslogDrain` takes for a queue |
| `Consumer` | the Kafka consumer, with Kafka's log and committed position | |
| `LogLines` | which lines belong to which app and site: parsers, keys of drains, names of sessions | used by `Session`, `Services` |
| `Storage` | Postgres or Redis, with calls that fail | `Services` |
| `Session` | `ConsumeAndRespond` of any number of readers | `Services` |
| `RouteStore` | abstract: routes come and go, one at a time, once | implemented by `Services`; what `Shuttle` assumes of storage |
| `Services` | the handlers of the two HTTP services | `Store == INSTANCE Storage`, `S == INSTANCE Session`, `R == INSTANCE RouteStore` |
| `Pipeline` | who waits for whom, from Kafka to the endpoints, with the flush ticker and the shutdown | `GoSlices` |
| `PacketLines` | lemmas about lines of numbered packets, and about a slice with an element removed | the proofs about registry, table, pools, connection, consumer |
| `*Proofs` | theorems about the module of that name (`ServicesProofs`: also about `LogLines` and `Session`) | |
| `MC*` | TLC instances | |

**Drains.** `call[r]` is where the `Dial` of route `r` is. The steps are: read
the bad-host list (`DialRefused`, `DialQueue`), take the lock and either share a
pool, give up on the scheme, or begin to connect with the lock held (`DialShare`,
`DialUnsupported`, `DialOpen`), and end in success or failure (`DialConnected`,
`DialFailed`). The steps of one critical section that nothing can interleave with
are one action. `Undial` is one critical section. A pool is named by URL and
generation; `opened`, `closing` and `handle` are what the code has as pointers.

**Shuttle.** `refresh` is the main goroutine in `RefreshRoutes`, `adder[r]` the
goroutine of a new route. The removal pass is modelled loop step by loop step,
because the pass itself changes the array it ranges over: `refresh.view` is the
header the `range` copied, seen through the array (`GoSlices!Seen`). A forwarder
holds such a view too, without the lock. `append` moves the slice to another
array or not, depending on its capacity: a nondeterministic choice, limited by
the longest view (`AdderAdd`). A send to a closed pool succeeds `Slots` times,
which stands for the room in its channel (512 packets for syslog; an http
`writeLoop` takes one more packet and returns), then blocks. `RefreshFatal` is
`log.Fatalf` and a restart with empty tables. Storage is a set of routes and an
API call changes it in one step. `RefreshRoutes` is one step for its first loop:
a route is found by its id, and only its own adder adds an id, so the order of
that loop and of the adders cannot be told apart.

The composition is checked against the registry's own specification. `Drains`
lets a route call `Dial` when it has no drain and `Undial` when it has one;
`Shuttle` adds who does so, and when. `Held` is the drain of a route, in its
destination once it is in the table and at its adder before; under that mapping
every step of `Shuttle` is one of `Drains`, or leaves the registry alone, or is an
exit that empties it (`UsesRegistry`). A second `Undial` for one route, as in
`shuttle_shared_closed`, is a step that `Drains` does not have.

**HttpDrain.** Packets are numbered in the order of the channel. `mutex` is
TRUE across the POST of a `Flush`; `draining` and `closed` are read in a step of
their own. A flush may be the ticker's or one of the goroutines that `writeLoop`
starts; the assumption `EnoughFlushers` makes the bound on them never bind.

**OrderedLine.** What both kinds of destination promise of the packets they
accept: they wait in a line, leave it from the front, and went to the service or to
nowhere. An http pool takes several at once (a POST), a connection one. In
`HttpDrain` a packet is accepted when `writeLoop` found the pool open, and waits in
the POST under way, the buffer, or the hand of `writeLoop`, in this order; in
`Logger` in `writePacket` or the channel. So `SyslogDrain` may take a connection for
a FIFO queue. A whole syslog pool is no ordered line: its connections overtake each
other (`SameTagInOrder` is refuted), and `SamePoolInOrder` is what is left.

**SyslogDrain.** `writer` is where `writeLoop` is. `connect` has a step each for
the load and the store of `Attempting`, for the read and for the write of the
slice by `append`. `Pressure` is abstracted to "the channel was seen non-empty
once" and a choice. `Choose` reads the length and the element of `conns` in one
step. `chosen_from` is a history variable for `SamePoolInOrder`.

**Logger.** `net[n]` and `watch[n]` are connection `n` and its goroutine; `Close`
has a step for each assignment that `writeLoop` can see. A panic of any goroutine
is the end of the process (`crashed`). A write to a connection that the service
left can succeed and be lost: the kernel takes the bytes. A write that misses its
deadline is one that fails. `Write`, which nothing calls, is left out.

**Consumer.** `pooler` is where `runPooler` is; `client` is the state of the handle
in `kafkaConsumer`, which the poller, `Refresh` and `Close` read and replace
without a lock, so the check of `IsOpen` and the use of the handle are separate
steps. A call on a handle that was closed is undefined: it returns, or it ends the
process. Kafka is external: a topic is a log, `stored` is the position of the last
polled message (`enable.auto.offset.store` is on by default), `AutoCommit` and a
close of the client write it, unless the last commit fails: the wrapper then returns
the error before it destroys the handle, `consumer.go:93` and `:147` ignore it, and
the client is of no more use either way (`ClientCloses`). What a forwarder gets is
recorded with the number of last commits that had failed when it was polled
(`Receipt`), so that `TakenOnceInOrder` can tell a message that Kafka had to give
again from one that the code repeated. A group without a position starts at the end of
the topic (`auto.offset.reset` is not set). A message that a recovery drained, that
lay before a start, or that was in the hand of `runPooler` at an exit is in `gone`.
`RefreshCheck` may also happen after the signal handler stopped the ticker: a tick
that was pending is still received.

**LogLines.** A name is a sequence of characters, since the code splits and joins
names at dashes; a line is a record of what decides where it belongs, and its
text is left out. `KeysOf` is what the forwarders of `shuttle.go` look up for a
line, `Shows` what the functions `Respond...` of `session.go` compare. A line is
whole, or `partial` (its parser refuses it), or `odd` (its parser indexes what is
not there and panics).

**Storage.** One operator per operation, for both backends; `rows` stands for the
table `drains` or the list `routes`. A call that fails may have been carried out.
Postgres deletes by id and Redis by value (`Matching`); Postgres keeps the row of
an expired session until its ticker runs.

**Services.** A request is one of `Calls`, and a handler takes one step per call of
storage: `at[q]` is where it is and `found[q]` the route it works on. What a
handler does with an error, looked at or not, is in its step. A panic is answered
500 by the framework's recovery. `Exits` ends a service between any two steps, and
its requests get no answer. `reply` is what was answered.

**Session.** One action for each way an iteration of `ConsumeAndRespond` can go, in
the order of the code: the poll, the context of the request, the idle count, the
event. The group of a session is new, so that Kafka gives it any of the lines of
its topics from some moment on. `shown` and `passed` are history.

**Pipeline.** A pool is a route with a URL of its own here, and carries counts of
packets, not packets: what they are is in `SyslogDrain` and `HttpDrain`, and how
pools are shared in `Drains`. What is modelled is each lock and channel, who takes
it and who has to come back first: `drains_mutex` (`Dial`, `Undial`,
`PrintMetrics`), `routes_mutex`, the mutex of each pool, the channels of topics,
pools and connections, `wg.Wait`, and the token of `Close`. The flush ticker and
`CloseAll` walk `drain_keys` with no lock and see `Undial` shift the array
(`Shifted`), or a nil drain (`Nil`). A `scene` is the routes at the start, those
that are deleted, and whether a signal comes; TLC looks at several.

## 3. What the runs check

| run | instance | states | shows |
|---|---|---|---|
| `drains_registry` | 5 routes, 3 URLs: one shared by three routes and refusing at times, one of its own, one unsupported; 2 pools per URL | 15 thousand | `CountIsHolders`, `NoUseAfterClose`, `PoolsAccounted`, `KeysMatchDrains`, `DialReturns`, refinement of `SharedPools` |
| `shuttle` | 4 routes: three of an app, two of them to the URL that a site sends to as well; one forwarder | 3.1 million | counts agree with the table (`CountIsRefs`), no served pool is closed, after a refresh the table has nothing that was not read and serves what was (`RefreshedTableIsExact`), no double entry, no stored route dropped, each message once to each destination unless the array is cut meanwhile |
| `shuttle_live` | the three routes of the app, one exit and restart | 27 thousand | a deleted route leaves for good, a stored one is served; the table uses the registry as `Drains` specifies (`UsesRegistry`) |
| `http_drain` | 4 packets, a flush at 2, ticker and three goroutines | 17 thousand | once, in order, posted in the end, refinement of `OrderedLine` |
| `syslog_drain` | 4 packets of two tags, 2 connections, 2 connecting goroutines | 12 thousand | nothing lost or doubled in the process, order within a pool, delivery, `Close` returns |
| `logger` | 3 packets, two connections that may break | 6 thousand | refinement of `OrderedLine` across reconnects, no leak by reconnecting, delivery, `Close` stops `writeLoop` |
| `consumer` | the topic of a space and one of Kafka's own, 3 messages, two poll errors, a failed subscription and a failed last commit, a recovery drains one event | 0.34 million | in order and once within a process, and again only after a last commit failed (`TakenOnceInOrder`), nothing goes by unaccounted, an open consumer has a client that can be used, recovery ends, messages are handed over |
| `services` | 3 requests at once out of creations, deletions, reads, sessions and events on two ids; two apps, a site, 11 lines; one failed call, one exit | 148 thousand | what was answered 201 stays (`CreatedStays`), what was deleted stays deleted (`DeletedIsGone`), sessions agree with drains (`ShownAsDrained`), refinement of `RouteStore`, sessions end |
| `pipeline` | one syslog and one http pool, every channel of one, one forwarder, four scenes | 282 thousand | the main loop comes around, the message in the pooler's hand gets on, a signal ends the process |
| `shuttle_shared_closed` | two routes may be deleted before a refresh | violated | a pool in use is closed |
| `shuttle_skipped` | a forwarder and a removal | violated | a destination that stays is skipped |
| `logger_panic` | `Close` against `writeLoop` | violated | the process panics |

The passing properties of `Shuttle` are stated for one deletion per key between
two refreshes (`MaxStale = 1`), and `SentOnceToEach` for walks during which no
destination was cut out (`torn`). These are exactly the conditions under which
the code is right: the runs that expect a violation lift them one at a time.

Each component has a `TypeOK`. No run checks one as a property of its own: for
`Drains`, `Shuttle` (where it also says that positions are inside the slices they
walk, and that no count is negative), `HttpDrain`, `SyslogDrain`, `Logger` and
`Consumer` it is proved (section 4). `DrainingMeansFlushing`
of `HttpDrain` and `OrderKept` of `Logger` are proved and not run: what packets see
of them is in the refinement of `OrderedLine`.

`ShownAsDrained` compares the two ways in which the code decides whose line it is.
It holds for names that do not meet in one key and for sites without `--`; the
instance has two apps of which one's name begins the other's, a space with a
dash, process types, and a site. `MainReturns` and `MessagesMove` hold while
endpoints answer, and `ShutdownEnds` unless a pool that the shutdown closes is
given back meanwhile; the `.cfg`s below lift these conditions.

### Other counterexamples

These properties state what a comment, a test or the README says, and TLC
refutes each with the `.cfg` named; they are kept for whoever repairs the code.
A `.cfg` that several rows name holds one of their properties and the others as
comments: one is made active at a time (for `ShownAsDrained`, one pair of calls and
lines).

| property | `.cfg` | what happens |
|---|---|---|
| `DuplicatesRejected` (`shuttle.go:283`) | `MCShuttleDuplicate` | two adders of one refresh both add the same URL to an app |
| `RefreshedTableIsStored` (`shuttle_test.go:216`) | `MCShuttleRemovedStays` | of two routes deleted before a refresh one stays in the table |
| `ForwarderReturns` (`README.md:13`) | `MCShuttleStuck` | a forwarder blocks for ever on the channel of a closed pool |
| `LivePoolNotRefused` (`drains.go:54`) | `MCDrainsBadHost` | a URL with a live pool is refused as a bad host |
| `ClosedIsFlushed` (`logshuttle-server.go:176`) | `MCHttpDrainClose` | what was buffered at `Close` is never posted |
| `WriterComesBack` (`shuttle_test.go:197`) | `MCHttpDrainSilent` | an endpoint that never answers stops `writeLoop` and its forwarders |
| `SameTagInOrder` (`syslogdrain.go:157`) | `MCSyslogDrainRefuted` | a new connection lets later packets of a tag overtake |
| `ConnectionsBounded` (`README.md:44`) | `MCSyslogDrainRefuted` | racing goroutines exceed MAX_SYSLOG_CONNECTIONS |
| `ClosedMeansNoConnection` (`drains.go:96`) | `MCSyslogDrainRefuted` | a connection appended during or after `Close`, or lost by a racing append, stays open |
| `ClosedLeavesNoConnection` (`drains.go:96`) | `MCLoggerRefuted` | a connection dialed while `Close` runs stays open |
| `SafelyClosed` (`logshuttle-server.go:173`) | `MCConsumerRefuted` | `Close` closes the client that `runPooler` is polling |
| `RefreshUsesClient` (`consumer.go:108`) | `MCConsumerRefuted` | a refresh that saw the consumer open subscribes a client that a recovery closed |
| `CloseIsFinal` (`consumer.go:143`) | `MCConsumerRefuted` | `Close` during a recovery returns at once, and the consumer is opened again |
| `IdleSessionEnds` (`session.go:197`) | `MCServicesRefuted` | lines of other apps keep a session without lines of its own open |
| `DeletionMeansGone` (`README.md:228`) | `MCServicesRefuted` | a lookup that failed, or found nothing, deletes nothing and is answered 200 |
| `DeletesOfItsKey` (`README.md:230`) | `MCServicesRefuted` | a deletion under the key of one app deletes the drain of another |
| `FailedLeavesNothing` | `MCServicesRefuted` | a creation answered 500 left its route in storage |
| `ShownAsDrained` | `MCServicesNames` (`DashedCalls`) | the drain of a site with `--` in its name gets nothing: `SendMessage` cuts the name |
| `ShownAsDrained` | `MCServicesNames` (`JoinedCalls`) | two apps share the key of their drains: name and space are joined without a separator |
| `ProducerUsedOpen` (`producer.go:107`) | `MCServicesRefuted` | an event is given to a producer that the shutdown closed |
| `NoCrash` | `MCPipelineCrash` | the flush ticker meets the key of a pool that was given back: a nil drain |
| `ShutdownAlwaysEnds` (`logshuttle-server.go:176`) | `MCPipelineTwice` | `CloseAll` and `Undial` close one pool, and one waits for ever |
| `ExitsFlushed` (`logshuttle-server.go:177`) | `MCPipelineFlushed` | the process exits with packets in its pools |
| `MessagesMove` | `MCPipelineSilent` | an endpoint that does not answer stops the topic, and in the end all topics |
| `MainReturns` | `MCPipelineSilent` | ... and the main loop, which waits in `PrintMetrics` with `drains_mutex` held |
| `DetectedErrorIsSent` (`syslog.go:26`) | `MCLoggerRefuted` | the `watch` of every closed connection blocks for ever |

### Bounds

* `MaxPools` limits how often a URL is dialed anew. Two generations are enough for
  a stale handle or key to meet a new pool; in `Shuttle` the bound never binds,
  because an id is created once.
* `Routes` bounds the lives of routes: each is created and deleted once. Three
  routes of a key are the least for which a cut in the middle differs from one at
  the end; the fourth shares their URL from another key.
* `MaxPackets` 3 or 4 with queues of 1 or 2 fills every queue and leaves one packet
  behind it; the real capacities (512, 100, 64) only delay that.
* `MaxFailing = 2`: a connection fails, and its replacement fails; `Conns` has room
  for every dial that can follow.
* `Connectors = 2`: two racing appends are the least that lose a connection.
* `MaxFaults` in `Consumer`: two errors from `Poll`, so that a client that replaced
  another is replaced too, one failed subscription, at the start, in a recovery or in
  a refresh, and one failed last commit. `MaxDrained = 1` stands for the 100
  events of a recovery: it drains nothing, reaches the limit, or goes beyond it.
  Exits, restarts and signals are not bounded.
* `Calls` of `Services` are combinations of three requests that have something to
  do with each other: two creations and a deletion, a creation and two deletions, a
  deletion and a list, a session and its reader, an event. `MaxFaults = 1` and
  `MaxExits = 1`: one call fails, before or after it was carried out, and one
  service exits, at any point.
* `MaxLoops = 1` stands for the 600 empty polls of a session: one resets the count,
  or goes beyond it. `MaxHeard = 1`: a session shows a line and passes one over;
  each line is judged on its own.
* `Scenes` of `Pipeline`: channels of one are full as soon as a second packet comes.
  A syslog pool with a deletion and a signal, an http pool with either, and both
  pools are looked at on their own because together they are too many states.
* `MaxRestarts = 1` in the liveness run: nothing survives an exit but storage.

### Fairness

Weak fairness stands for the Go scheduler on a goroutine that can run. Strong
fairness is used where a step may be enabled and disabled for ever: a
`sync.Mutex` (which hands itself to a waiter that starved for a millisecond), a
`select` with several ready cases (Go picks at random), and a host that is dialed
again and again. The minute and five-minute tickers are weakly fair. A dial ends
(4 s timeout). Nothing is assumed of users, of messages, or of an http endpoint
in `SilentSpec`; `FairSpec` of `HttpDrain` assumes that a POST ends, since the
client has no timeout of its own. `SyslogDrain` assumes that the service reads,
and `Consumer` that forwarders come back, that the process is started again, and
that a topic which is polled again and again gives its messages (strong fairness).

In `Services` only the goroutine that reads a session is fair: handlers may stop
anywhere. A poll that brings nothing is fair only once the topics are quiet,
because with lines coming every poll may bring one. In `Pipeline` goroutines are
weakly fair and endpoints only for the pools in `Healthy`; strong fairness is used
for the mutex of a busy pool in `PrintMetrics`, for `routes_mutex` in
`SendMessage`, and for the token of `Close` in the `select` of `writeLoop`. Nothing
is assumed of the poller's messages, the API, signals and flushes.

`CHECK_DEADLOCK FALSE` is set for `SyslogDrain` and `Logger`, which stop after
`Close` and when every packet of the bound was sent, and after a panic; for
`Services`, which stops when every request was answered; and for `Pipeline`,
which stops when the process has ended. The other models never stop: tickers and
refreshes go on.

## 4. What is proved

Every theorem holds for all values of the constants that satisfy the `ASSUME`s of
the module it is about; no bound of a run is used.

**DrainsProofs** (any finite set of routes, any URLs, any bound)

| theorem | statement |
|---|---|
| `TypeCorrect` | `Spec => []TypeOK`; a count is never negative |
| `CountsCorrect` | `Spec => []CountIsHolders` |
| `HandlesStayOpen` | `Spec => []NoUseAfterClose` |
| `NoPoolLost` | `Spec => []PoolsAccounted` |
| `KeysComplete` | `Spec => []KeysMatchDrains` |
| `Refinement` | `Spec => ImplementsSharedPools` |

The assumptions are `RoutesHaveUrls`, `RoutesFinite`, `SupportedUrls` and
`MaxPoolsPositive`. The four invariants are inductive only together, with three
strengthenings. `InitAlone`: the one `Dial` that is in `Init` holds the lock and
its URL has no pool. Without it two callers could both register a pool.
`DialingHoldsNothing`: who is in `Dial` has no drain yet, so that taking one adds
exactly one holder. `PoolsCounted`: a registered pool has a positive count, so
that the count reaches 0 exactly when the pool is closed. The argument for
`Undial` turns on `CountIsHolders` before the step: a count of 1 with a holder
leaving means no holder is left, hence nobody's pool is closed. The refinement maps `drains` to
`pool` and `handle` to `uses`; `DialShare` and `DialConnected` are joins,
`Release` is a leave, and `CountIsHolders` shows that the code's test `val == 1`
is the abstract "last user".

**ShuttleProofs** (any finite set of routes, any keys, URLs, forwarders, capacity
of a closed pool's channel, and number of restarts)

| theorem | statement, for `MaxStale <= 1` |
|---|---|
| `SpecTypeOK` | `Spec => []TypeOK`: positions are inside the slices they walk, and no count is negative |
| `SpecCountIsRefs` | `Spec => []CountIsRefs` |
| `SpecServedPoolsOpen` | `Spec => []ServedPoolsOpen` |
| `SpecRefreshedTableIsExact` | `Spec => []RefreshedTableIsExact` |
| `SpecOneEntryPerRoute` | `Spec => []OneEntryPerRoute` |
| `SpecSentOnceToEach` | `Spec => []SentOnceToEach` |
| `SpecStoredRoutesStay` | `Spec => StoredRoutesStay` |
| `SpecUsesRegistry` | `Spec => UsesRegistry` |

The assumptions are `RoutesHaveUrls`, `RoutesFinite`, `RoutesHaveKeys` and `BoundsNat`,
and one hypothesis that the code does not ensure: at most one route of a key is
deleted between two refreshes (`MaxStale <= 1`). Without it the statements are
false of the code: `MCShuttleSharedClosed` and `MCShuttleRemovedStays` show two
deleted routes of one app closing a pool in use, and one of them staying. The
theorems say that this is the only way in which the table goes wrong, and no
number of apps, forwarders, adders and restarts adds another.

No property is inductive alone. The invariant `IInv` has four parts.

* `Registry`: the count of a URL is the number of its users, a user being a route
  in the table or one whose adder holds a drain; each holds the registered pool,
  which is open. It is the invariant of `DrainsProofs` carried over to the table.
* `Table`: an entry is in the slice of its own key, once; and a route that has an
  adder is not in the table (`AddersAdd`), which makes the append of the adder safe.
* `Refreshed`: the table has what the refresh read, and what was deleted before,
  of which there is one route per key (`OneStale`). The heart is `PassPlace`, about
  the slice that the removal pass ranges over while it cuts it. Either nothing was
  cut (`Uncut`: the view is the slice, and all before `ndx` is stored), or the one
  stale route was, and the shifted view has only stored routes from `ndx` on
  (`Cleared`): what the shift makes the loop skip was never to be removed.
* `Senders`: a walk that no cut tore is at its place in a prefix of the slice, since
  an `append` in place writes only beyond it (`Placed`).

`RemoveKeepsRegistry`, `RemoveKeepsTable` and `RemoveKeepsRefreshed` join them: the
cut takes away the one entry of a route, thus
exactly one user of its URL, together with the one `Undial`. `RefsCounted` gets
`CountIsRefs`, which counts entries and adders apart, from users of the two kinds
that are disjoint. `SpecUsesRegistry` gives, for each step, the step of `Drains`
that it is under `Held`; `AdderAdd` moves a drain from the adder to the table, which
`Held` does not see. The message it carries is that `NoUseAfterClose` and the other
theorems of `DrainsProofs` hold of the registry as the shuttle drives it.

Two more invariants rest on `IInv`. `Bounded` and `MessagesInside` type what `IInv`
has no need of: the keys of the registry, the bad hosts, which are flaky ones, the
restarts, and the position of a message also in an array that was cut.
`ReadIsServed` is about the routes that a refresh read: each reliable one is served,
or its adder is on its way and cannot fail (`Coming`), or it was displaced. The last
is a fact of the code that the property states as well: the duplicate check of an
adder counts a destination whose route was deleted already, which the removal pass
of the same refresh then drops (`Displaced`); the next refresh makes up for it
(`StoredRouteServed`, by TLC).

**ServicesProofs** (any requests, ids, names and numbers of faults and exits, over
either storage; assumption `NoneIsNoId`)

| theorem | statement |
|---|---|
| `CreationLasts` | `Spec => []CreatedStays` |
| `DeletionLasts` | `Spec => []DeletedIsGone` |
| `StorageRefinement` | `Spec => ImplementsRouteStore` |

A failed call may have been carried out, so an id in storage need not have been
answered. The invariant therefore follows ids and not answers: rows have issued
ids and no two rows one id (`RowsIssued`, `IdsUnique`); a creation adds an id
that never was in storage and that no other request adds (`AddersFresh`), so that
nothing comes back; a deletion that found a route knows the whole row of its id
(`RemoversKnow`), so that removal by value, in Redis, removes what removal by id
does in Postgres.

The second part is about lines and sessions (names of any characters and length):

| theorem | statement |
|---|---|
| `MatchIsLookup` | `IsAppMatch(c, app)` is `App(c) = app`, for an app without a dash |
| `KeysRoundTrip` | a key taken apart at its first dash and joined again is the key |
| `DrainHasItsKey` | `GetLogDrain` finds a drain under the key it was created with |
| `ShownIsDrained` | a line that a session gets is shown exactly when a drain of its subject is sent it |
| `SessionsShowWhatIsDrained` | `Spec => []ShownAsDrained` |

The last two have conditions on names, `NamesOf(C)`: a subject is an app without a
dash and a space that is not empty, or a site without `--` alone; and the keys
that `SendMessage` looks up tell the names of the lines apart from those of the
subject (`KeysTellApart`). The names of `MCServices` satisfy them; the two
choices of `MCServicesNames` show that neither can be dropped.
`FirstIsLeast` gets the first dash from the well-foundedness of `<`, and the
invariant `SessInv` says that every reader has a subject that was asked for, and
showed and passed over only what it was given.

**HttpDrainProofs** (any threshold, numbers of flushes and of packets)

| theorem | statement |
|---|---|
| `TypeCorrect` | `Spec => []TypeOK` |
| `DrainingCorrect` | `Spec => []DrainingMeansFlushing`: `draining` is never left set |
| `NoPacketLostOrDoubled` | `Spec => []EachPacketOnce` |
| `OrderOfPackets` | `Spec => []DeliveredInOrder` |
| `Refinement` | `Spec => ImplementsOrderedLine` |

`EachPacketOnce` and `DeliveredInOrder` speak of all places at once and are not
inductive; the invariant takes them place by place (`Covered`, `Apart`, `InOrder`)
and adds `Locks`: only the `Flush` that holds the mutex is past its lock, and only it
has a batch, so that the buffer is emptied into the one batch that is under way. For
the refinement this is `PostingFits`: the line begins with that batch, and a POST
that is over takes exactly the first packets (`ReturnsDelivers`).

**SyslogDrainProofs** (any tags, any hash, any capacities, any number of goroutines
in `connect`): `TypeCorrect`, `NoPacketLostOrDoubled` (`[]EachPacketOnce`),
`OrderWithinAPool` (`[]SamePoolInOrder`). The pool may lose a connection to a
racing `append`, but not its packets: `Covered` counts the queues of all
connections, in the pool or not. `AtHome` says that a packet sits in the queue
that its tag and the pool it was chosen from give, so that two packets alike are
in one queue, which is in order; `AlikeInOrder` carries this to what arrived.
`Counted` bounds connections by packets (one is asked for per packet that left
the channel), which types the array of queues.

**LoggerProofs** (any numbers of packets and failures): `TypeCorrect`,
`NothingLeaks` (`[]OldConnectionsEnd`), `ReconnectKeepsOrder` (`[]OrderKept`),
`Refinement` (`ImplementsOrderedLine`). The packet in hand is the first of the line,
also while it is retried over several connections (`HandIsFirst`). The strengthening `Connected`: until `Close`, the current connection is the last that
was dialed, and it is replaced only after its goroutine reported its end.

**ConsumerProofs** (any topics, numbers of messages and of faults): `TypeCorrect`,
`RecoveryKeepsOrder` (`[]TakenOnceInOrder`), `CommitsSkipNothing`
(`[]NothingSkipped`), `OpenHasClient` (`[]OpenMeansAlive`). `Positions` is the heart:
what was taken since the last failure of a last commit lies at or before the
position from which the group would read on if this client were closed (`Reach`),
and a message in the hand of `runPooler` that was polled since lies exactly there. `Passed` does the same for what was committed; `ClientUsed` says which
places of `runPooler` go with which state of the client, since the flag and the
handle are not changed together.

`PacketLines` has the lemmas about lines of packets that these four rest on; its
`RemovedAt`, what `append(s[:i], s[i+1:]...)` leaves, serves `DrainsProofs` and
`ShuttleProofs` too.

Only model-checked:

* liveness under fairness (`DialReturns`, every `~>`), which is out of TLAPS's reach;
* `Pipeline`, whose properties are all liveness.

## 5. Not modelled

* Formatting: the text of packets and log lines (`syslog/packet.go`,
  `syslog/priorities.go`, `KubernetesToHumanReadable`, `Duration`). No state, no
  control; unit tests reach it.
* Metrics and counters (`sent`, `received`, `Sent`, `AvgWriteTime`...): their data
  races change only what is logged. The locks that printing them takes are in
  `Pipeline`.
* The Envoy adapter's stream handler: it hands each entry to the producer and keeps
  nothing. Its entries are lines of source `istio`.
* The HTTP framework, authorization, health checks and profiling routes.
* The memory storage, which only tests use, and `AddRoutes`, which nothing calls.
* Kafka, Redis, Postgres and the endpoints beyond what the code sees of them.
* `randomSource` of `session.go`, which requests share without a lock: what a race
  does to it is a matter of the Go library; two equal groups would share lines.

What could come next: who holds which lock in `Pipeline`, as an invariant; and a
composition of `Consumer` with `Pipeline` in which messages are told apart.
