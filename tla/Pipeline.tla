------------------------------- MODULE Pipeline ------------------------------
(***************************************************************************)
(* The shuttle service as its goroutines wait for each other: the pooler   *)
(* hands a message to a forwarder, the forwarder puts it into the channel  *)
(* of each pool of its app, writeLoop passes it on under the mutex of the  *)
(* pool, and an endpoint takes it.  The main loop, the adders, the flush   *)
(* ticker and the shutdown take the same locks and channels.               *)
(*                                                                         *)
(* What a message is, which connection it takes and how often a pool is    *)
(* shared is left to Shuttle, SyslogDrain, HttpDrain and Drains: here a    *)
(* pool is a route with a URL of its own, and is opened once.              *)
(***************************************************************************)
EXTENDS Naturals, FiniteSets, SequencesExt, GoSlices

CONSTANTS
  Pools,        \* the pools there can be
  Syslog,       \* those to a syslog destination; the others are http
  Healthy,      \* those whose endpoint takes what it is sent
  Forwarders,   \* the goroutines that read a topic channel
  Scenes,       \* bound: what a run looks at, see scene
  BufferSize,   \* capacity of the channel packets of a syslog pool (512)
  QueueSize     \* capacity of the channel of its connection (100)

ASSUME PoolsFinite == IsFiniteSet(Pools)
ASSUME KindsOfPools == Syslog \subseteq Pools /\ Healthy \subseteq Pools
ASSUME CapacitiesPositive == {BufferSize, QueueSize} \subseteq Nat \ {0}

VARIABLES
  scene,         \* the routes at the start, those the API deletes, if a signal comes
  process,       \* "up", "exited" or "crashed"
  stored,        \* the pools that have a route in storage
  table,         \* those that are destinations of the app
  drain_keys,    \* those that are registered, oldest first
  drains_mutex, routes_mutex,  \* whether they are held
  main,          \* where the main loop is, in its round, the routes it read, and
                 \* whether a tick came before the round was over
  adder,         \* adder[p]: where the goroutine that adds p is
  closer,        \* closer[p]: where `go drain.Close()' is
  packets,       \* packets[p]: how many packets are in the channel of p
  writer,        \* writer[p]: where writeLoop is
  mutex,         \* mutex[p]: whether the mutex of p is held
  queue,         \* queue[p]: packets in the connection of p, or buffered by http
  closed,        \* the http pools whose flag is set
  flusher,       \* flusher[p]: where a `go l.Flush()' is
  ticker,        \* where the goroutine of the flush ticker is
  pooler,        \* "poll", the forwarder it has a message for, or "ended"
  fwd,           \* fwd[f]: where forwarder f is, and the pools it has yet to send to
  shutdown       \* where the goroutine of the signal is

storageVars == <<scene, stored>>
registryVars == <<table, drain_keys, drains_mutex, routes_mutex>>
poolVars == <<packets, writer, mutex, queue, closed>>
walkVars == <<ticker, shutdown>>
flowVars == <<pooler, fwd>>
vars == <<process, storageVars, registryVars, main, adder, closer, poolVars, flusher,
          walkVars, flowVars>>

Http == Pools \ Syslog

\* A goroutine that walks drain_keys: its header, its place, the pool it is at,
\* and whether the array is still the one of drain_keys.
Off == [at |-> "off", view |-> <<>>, next |-> 1, dest |-> {}, shared |-> FALSE]
Walk(at, view) == [at |-> at, view |-> view, next |-> 1, dest |-> {}, shared |-> TRUE]

Idle == [at |-> "wait", todo |-> {}]

\* Before the first refresh; a route that is created later is as one whose host
\* refused until then.
Init ==
  /\ process = "up"
  /\ scene \in Scenes /\ stored = scene.routes
  /\ table = {} /\ drain_keys = <<>>
  /\ drains_mutex = FALSE /\ routes_mutex = FALSE
  /\ main = [at |-> "tick", next |-> 1, pkg |-> {}, due |-> FALSE]
  /\ adder = [p \in Pools |-> "none"]
  /\ closer = [p \in Pools |-> "none"]
  /\ packets = [p \in Pools |-> 0]
  /\ writer = [p \in Pools |-> "none"]
  /\ mutex = [p \in Pools |-> FALSE]
  /\ queue = [p \in Pools |-> 0]
  /\ closed = {}
  /\ flusher = [p \in Pools |-> "off"]
  /\ ticker = Off
  /\ pooler = "poll"
  /\ fwd = [f \in Forwarders |-> Idle]
  /\ shutdown = Off

(***************************************************************************)
(* The log-drain API.                                                      *)
(***************************************************************************)
DeleteLogDrain(p) ==
  /\ p \in stored \cap scene.deletes
  /\ stored' = stored \ {p}
  /\ UNCHANGED <<scene, process, registryVars, main, adder, closer, poolVars, flusher, walkVars, flowVars>>

(***************************************************************************)
(* The main loop: PrintMetrics, Refresh, and the ticker of a minute.       *)
(***************************************************************************)
MainGoto(at) == main' = [main EXCEPT !.at = at]

\* The ticker fires, unless the shutdown stopped it, or its tick is there
\* already; and PrintMetrics begins.
PrintMetrics ==
  /\ main.at = "tick" /\ (shutdown.at = "off" \/ main.due) /\ ~drains_mutex
  /\ drains_mutex' = TRUE
  /\ main' = [main EXCEPT !.at = "pools", !.next = 1, !.due = FALSE]
  /\ UNCHANGED <<process, storageVars, table, drain_keys, routes_mutex, adder, closer, poolVars, flusher,
                 walkVars, flowVars>>

\* PrintMetrics of the next pool: that of a syslog pool takes its mutex.
PrintPool ==
  /\ main.at = "pools" /\ main.next <= Len(drain_keys)
  /\ drain_keys[main.next] \in Syslog => ~mutex[drain_keys[main.next]]
  /\ main' = [main EXCEPT !.next = @ + 1]
  /\ UNCHANGED <<process, storageVars, registryVars, adder, closer, poolVars, flusher, walkVars, flowVars>>

\* drains_mutex is released, and storage read; an adder starts for each new route.
ReadRoutes ==
  /\ main.at = "pools" /\ main.next > Len(drain_keys)
  /\ drains_mutex' = FALSE
  /\ main' = [main EXCEPT !.at = "adding", !.pkg = stored]
  /\ adder' = [p \in Pools |-> IF p \in stored \ table /\ writer[p] = "none" THEN "dial" ELSE "none"]
  /\ UNCHANGED <<process, storageVars, table, drain_keys, routes_mutex, closer, poolVars, flusher,
                 walkVars, flowVars>>

\* Dial takes drains_mutex and connects.
AdderDial(p) ==
  /\ adder[p] = "dial" /\ ~drains_mutex
  /\ drains_mutex' = TRUE
  /\ adder' = [adder EXCEPT ![p] = "connect"]
  /\ UNCHANGED <<process, storageVars, table, drain_keys, routes_mutex, main, closer, poolVars, flusher,
                 walkVars, flowVars>>

\* The walkers see an append only by the array it may move to.
Detach(walk) == [walk EXCEPT !.shared = FALSE]

\* The pool is open and registered, and its writeLoop starts.
AdderDialed(p) ==
  /\ adder[p] = "connect"
  /\ drain_keys' = Append(drain_keys, p)
  /\ \/ UNCHANGED walkVars
     \/ ticker' = Detach(ticker) /\ shutdown' = Detach(shutdown)
  /\ drains_mutex' = FALSE
  /\ writer' = [writer EXCEPT ![p] = "select"]
  /\ adder' = [adder EXCEPT ![p] = "append"]
  /\ UNCHANGED <<process, storageVars, table, routes_mutex, main, closer, packets, mutex, queue, closed,
                 flusher, flowVars>>

\* Mutant: the error path lacks wg.Done().
AdderFails_undone(p) ==
  /\ adder[p] = "connect"
  /\ drains_mutex' = FALSE
  /\ adder' = [adder EXCEPT ![p] = "lost"]
  /\ UNCHANGED <<process, storageVars, table, drain_keys, routes_mutex, main, closer, poolVars, flusher,
                 walkVars, flowVars>>

\* The host refuses: a later refresh tries again.
AdderFails(p) ==
  /\ adder[p] = "connect"
  /\ drains_mutex' = FALSE
  /\ adder' = [adder EXCEPT ![p] = "none"]
  /\ UNCHANGED <<process, storageVars, table, drain_keys, routes_mutex, main, closer, poolVars, flusher,
                 walkVars, flowVars>>

AdderAppend(p) ==
  /\ adder[p] = "append" /\ ~routes_mutex
  /\ table' = table \cup {p}
  /\ adder' = [adder EXCEPT ![p] = "none"]
  /\ UNCHANGED <<process, storageVars, drain_keys, drains_mutex, routes_mutex, main, closer, poolVars, flusher,
                 walkVars, flowVars>>

\* wg.Wait() returned: the removal pass takes routes_mutex.
RemovalBegins ==
  /\ main.at = "adding" /\ ~routes_mutex
  /\ \A p \in Pools : adder[p] = "none"
  /\ routes_mutex' = TRUE
  /\ MainGoto("removing")
  /\ UNCHANGED <<process, storageVars, table, drain_keys, drains_mutex, adder, closer, poolVars, flusher,
                 walkVars, flowVars>>

\* The array of drain_keys was shifted in place.
Shifted(walk, keys) == IF walk.shared THEN [walk EXCEPT !.view = Seen(@, keys)] ELSE walk

\* Mutant: the pool is closed, but stays registered.
Undial_kept(p) ==
  /\ closer' = [closer EXCEPT ![p] = "stop"]
  /\ UNCHANGED <<drain_keys, walkVars>>

Undial(p) ==
  LET keys == Remove(drain_keys, p)
  IN /\ drain_keys' = keys
     /\ ticker' = Shifted(ticker, keys)
     /\ shutdown' = Shifted(shutdown, keys)
     /\ closer' = [closer EXCEPT ![p] = "stop"]

\* The removal pass drops a route that storage did not have.
RemoveRoute(p) ==
  /\ main.at = "removing" /\ ~drains_mutex
  /\ p \in table \ main.pkg
  /\ Undial(p)
  /\ table' = table \ {p}
  /\ UNCHANGED <<process, storageVars, drains_mutex, routes_mutex, main, adder, poolVars, flusher, flowVars>>

\* The pass is over; it can have missed a route, see Shuttle.
RemovalEnds ==
  /\ main.at = "removing"
  /\ routes_mutex' = FALSE
  /\ MainGoto("tick")
  /\ UNCHANGED <<process, storageVars, table, drain_keys, drains_mutex, adder, closer, poolVars, flusher,
                 walkVars, flowVars>>

\* GetRoutes failed: log.Fatalf.
RefreshFatal ==
  /\ main.at = "pools" /\ main.next > Len(drain_keys)
  /\ process' = "exited"
  /\ UNCHANGED <<storageVars, registryVars, main, adder, closer, poolVars, flusher, walkVars, flowVars>>

(***************************************************************************)
(* From Kafka to the channels of the pools.                                *)
(***************************************************************************)
\* A message of the topic of f is polled; with IsOpen unset the pooler ends.
Poll(f) ==
  /\ pooler = "poll"
  /\ pooler' = IF shutdown.at \in {"off", "consumer"} THEN f ELSE "ended"
  /\ UNCHANGED <<process, storageVars, registryVars, main, adder, closer, poolVars, flusher, walkVars, fwd>>

\* The unbuffered channel of the topic.
Give(f) ==
  /\ pooler = f /\ fwd[f].at = "wait"
  /\ pooler' = "poll"
  /\ fwd' = [fwd EXCEPT ![f].at = "lookup"]
  /\ UNCHANGED <<process, storageVars, registryVars, main, adder, closer, poolVars, flusher, walkVars>>

SendMessage(f) ==
  /\ fwd[f].at = "lookup" /\ ~routes_mutex
  /\ fwd' = [fwd EXCEPT ![f] = IF table = {} THEN Idle ELSE [at |-> "send", todo |-> table]]
  /\ UNCHANGED <<process, storageVars, registryVars, main, adder, closer, poolVars, flusher, walkVars, pooler>>

Sent(f, p) ==
  fwd' = [fwd EXCEPT ![f] = IF @.todo = {p} THEN Idle ELSE [@ EXCEPT !.todo = @ \ {p}]]

\* The buffered channel of a syslog pool has room, or writeLoop of an http pool
\* is at its range.
SendPacket(f, p) ==
  /\ fwd[f].at = "send" /\ p \in fwd[f].todo
  /\ IF p \in Syslog
       THEN /\ packets[p] < BufferSize
            /\ packets' = [packets EXCEPT ![p] = @ + 1]
            /\ UNCHANGED writer
       ELSE /\ writer[p] = "select"
            /\ writer' = [writer EXCEPT ![p] = IF p \in closed THEN "stopped" ELSE "lock"]
            /\ UNCHANGED packets
  /\ Sent(f, p)
  /\ UNCHANGED <<process, storageVars, registryVars, main, adder, closer, mutex, queue, closed, flusher,
                 walkVars, pooler>>

(***************************************************************************)
(* From the channel of a pool to its endpoint.                             *)
(***************************************************************************)
\* The packet is taken, and pushed to the connection with the mutex held (the
\* main loop, who takes it too, holds it for one step).
WriterTakes(p) ==
  /\ p \in Syslog /\ writer[p] = "select" /\ packets[p] > 0 /\ ~mutex[p]
  /\ packets' = [packets EXCEPT ![p] = @ - 1]
  /\ mutex' = [mutex EXCEPT ![p] = TRUE]
  /\ writer' = [writer EXCEPT ![p] = "push"]
  /\ UNCHANGED <<process, storageVars, registryVars, main, adder, closer, queue, closed, flusher, walkVars, flowVars>>

WriterPushes(p) ==
  /\ writer[p] = "push" /\ queue[p] < QueueSize
  /\ queue' = [queue EXCEPT ![p] = @ + 1]
  /\ mutex' = [mutex EXCEPT ![p] = FALSE]
  /\ writer' = [writer EXCEPT ![p] = "select"]
  /\ UNCHANGED <<process, storageVars, registryVars, main, adder, closer, packets, closed, flusher,
                 walkVars, flowVars>>

\* writeLoop of an http pool: the buffer is not bounded, and counts only as
\* empty or not; beyond 64 packets a flush is started.
WriterBuffers(p) ==
  /\ p \in Http /\ writer[p] = "lock" /\ ~mutex[p]
  /\ queue' = [queue EXCEPT ![p] = 1]
  /\ flusher' \in {flusher, [flusher EXCEPT ![p] = IF @ = "off" THEN "lock" ELSE @]}
  /\ writer' = [writer EXCEPT ![p] = "select"]
  /\ UNCHANGED <<process, storageVars, registryVars, main, adder, closer, packets, mutex, closed,
                 walkVars, flowVars>>

\* The endpoint of a syslog pool takes a packet.
Delivered(p) ==
  /\ p \in Syslog /\ queue[p] > 0
  /\ queue' = [queue EXCEPT ![p] = @ - 1]
  /\ UNCHANGED <<process, storageVars, registryVars, main, adder, closer, packets, writer, mutex, closed,
                 flusher, walkVars, flowVars>>

(***************************************************************************)
(* Flush of an http pool, by the ticker or on its own.                     *)
(***************************************************************************)
\* Mutant: the early return keeps the mutex.
FlushLocks_kept(p) ==
  /\ ~mutex[p]
  /\ mutex' = [mutex EXCEPT ![p] = TRUE]
  /\ queue' = [queue EXCEPT ![p] = 0]

\* With the mutex: nothing buffered, and Flush is over; or the POST begins.
FlushLocks(p) ==
  /\ ~mutex[p]
  /\ mutex' = [mutex EXCEPT ![p] = queue[p] > 0]
  /\ queue' = [queue EXCEPT ![p] = 0]

\* The endpoint answered.
FlushEnds(p) == mutex' = [mutex EXCEPT ![p] = FALSE] /\ UNCHANGED queue

FlusherLocks(p) ==
  /\ flusher[p] = "lock"
  /\ FlushLocks(p)
  /\ flusher' = [flusher EXCEPT ![p] = IF queue[p] > 0 THEN "post" ELSE "off"]
  /\ UNCHANGED <<process, storageVars, registryVars, main, adder, closer, packets, writer, closed,
                 walkVars, flowVars>>

FlusherEnds(p) ==
  /\ flusher[p] = "post"
  /\ FlushEnds(p)
  /\ flusher' = [flusher EXCEPT ![p] = "off"]
  /\ UNCHANGED <<process, storageVars, registryVars, main, adder, closer, packets, writer, closed,
                 walkVars, flowVars>>

\* The ticker of three seconds: the header of drain_keys is copied, with no lock.
TickerTick ==
  /\ ticker.at = "off" /\ drain_keys # <<>>
  /\ ticker' = Walk("walk", drain_keys)
  /\ UNCHANGED <<process, storageVars, registryVars, main, adder, closer, poolVars, flusher, shutdown,
                 flowVars>>

\* The pool a walk comes to, and the walk when it is done with it.
Here(walk) == walk.view[walk.next]
Beyond(walk) == [walk EXCEPT !.at = "walk", !.next = @ + 1, !.dest = {}]
Rests(walk) == IF walk.next > Len(walk.view) THEN Off ELSE walk

\* drains[drain] of a URL that was given back is nil.
Nil(p) == ~Contains(drain_keys, p)

\* Flush of a syslog pool does nothing; that of an http pool returns if the
\* pool is closed, or is draining already.
TickerPool ==
  LET p == Here(ticker)
  IN /\ ticker.at = "walk" 
     /\ IF Nil(p) THEN process' = "crashed" /\ UNCHANGED ticker
        ELSE /\ ticker' = IF p \in Syslog \cup closed \/ flusher[p] = "post" THEN Rests(Beyond(ticker))
                          ELSE [ticker EXCEPT !.at = "lock", !.dest = {p}]
             /\ UNCHANGED process
     /\ UNCHANGED <<storageVars, registryVars, main, adder, closer, poolVars, flusher, shutdown, flowVars>>

TickerLocks(p) ==
  /\ ticker.at = "lock" /\ ticker.dest = {p}
  /\ FlushLocks(p)
  /\ ticker' = IF queue[p] > 0 THEN [ticker EXCEPT !.at = "post"] ELSE Rests(Beyond(ticker))
  /\ UNCHANGED <<process, storageVars, registryVars, main, adder, closer, packets, writer, closed,
                 flusher, shutdown, flowVars>>

TickerEnds(p) ==
  /\ ticker.at = "post" /\ ticker.dest = {p}
  /\ FlushEnds(p)
  /\ ticker' = Rests(Beyond(ticker))
  /\ UNCHANGED <<process, storageVars, registryVars, main, adder, closer, packets, writer, closed,
                 flusher, shutdown, flowVars>>

(***************************************************************************)
(* Closing pools.                                                          *)
(***************************************************************************)
\* Close of an http pool sets its flag; that of a syslog pool needs writeLoop
\* at its select.
StopWriter(p) ==
  IF p \in Http THEN closed' = closed \cup {p} /\ UNCHANGED writer
  ELSE /\ writer[p] = "select"
       /\ writer' = [writer EXCEPT ![p] = "stopped"]
       /\ UNCHANGED closed

\* `go drain.Close()'.
CloserStops(p) ==
  /\ closer[p] = "stop"
  /\ StopWriter(p)
  /\ closer' = [closer EXCEPT ![p] = "conns"]
  /\ UNCHANGED <<process, storageVars, registryVars, main, adder, packets, mutex, queue, flusher,
                 walkVars, flowVars>>

\* The goroutine of a syslog connection is at its select, and stops.
CloserConns(p) ==
  /\ closer[p] = "conns"
  /\ closer' = [closer EXCEPT ![p] = "done"]
  /\ UNCHANGED <<process, storageVars, registryVars, main, adder, poolVars, flusher, walkVars, flowVars>>

(***************************************************************************)
(* Shutdown.                                                               *)
(***************************************************************************)
\* SIGINT or SIGTERM: the minute ticker is stopped, which leaves a tick that the
\* main loop has not received yet, and the producer closed.
Signal ==
  /\ shutdown.at = "off" /\ scene.signal
  /\ shutdown' = [shutdown EXCEPT !.at = "consumer"]
  /\ main' \in {main, [main EXCEPT !.due = main.at # "tick"]}
  /\ UNCHANGED <<process, storageVars, registryVars, adder, closer, poolVars, flusher, ticker,
                 flowVars>>

\* logShuttle.Close(), and the header of drain_keys is copied with no lock.
CloseConsumer ==
  /\ shutdown.at = "consumer"
  /\ shutdown' = Walk("walk", drain_keys)
  /\ UNCHANGED <<process, storageVars, registryVars, main, adder, closer, poolVars, flusher, ticker,
                 flowVars>>

\* CloseAll: Close of the next pool.
CloseAll ==
  LET p == Here(shutdown)
  IN /\ shutdown.at = "walk" /\ shutdown.next <= Len(shutdown.view)
     /\ IF Nil(p) THEN process' = "crashed" /\ UNCHANGED shutdown
        ELSE shutdown' = [shutdown EXCEPT !.at = "stop", !.dest = {p}] /\ UNCHANGED process
     /\ UNCHANGED <<storageVars, registryVars, main, adder, closer, poolVars, flusher, ticker, flowVars>>

CloseAllStops(p) ==
  /\ shutdown.at = "stop" /\ shutdown.dest = {p}
  /\ StopWriter(p)
  /\ shutdown' = [shutdown EXCEPT !.at = "conns"]
  /\ UNCHANGED <<process, storageVars, registryVars, main, adder, closer, packets, mutex, queue, flusher,
                 ticker, flowVars>>

CloseAllConns(p) ==
  /\ shutdown.at = "conns" /\ shutdown.dest = {p}
  /\ shutdown' = Beyond(shutdown)
  /\ UNCHANGED <<process, storageVars, registryVars, main, adder, closer, poolVars, flusher, ticker, flowVars>>

\* The Envoy adapter is closed, and os.Exit.
Exit ==
  /\ shutdown.at = "walk" /\ shutdown.next > Len(shutdown.view)
  /\ process' = "exited"
  /\ UNCHANGED <<storageVars, registryVars, main, adder, closer, poolVars, flusher, walkVars, flowVars>>

(***************************************************************************)
(* The specification.                                                      *)
(***************************************************************************)
MainStep ==
  \/ PrintMetrics \/ ReadRoutes
  \/ RemovalBegins \/ RemovalEnds \/ \E p \in Pools : RemoveRoute(p)

Adder(p) == AdderDial(p) \/ AdderDialed(p) \/ AdderFails(p) \/ AdderAppend(p)

Write(p) == WriterTakes(p) \/ WriterPushes(p) \/ WriterBuffers(p)

Ticker == TickerTick \/ TickerPool \/ \E p \in Pools : TickerLocks(p)

Shutdown == CloseConsumer \/ CloseAll \/ Exit

\* The steps that wait for the endpoint of p.
Endpoint(p) ==
  \/ Delivered(p) \/ FlusherEnds(p) \/ TickerEnds(p)
  \/ CloserConns(p) \/ CloseAllConns(p)

Step ==
  \/ MainStep \/ PrintPool \/ RefreshFatal \/ Ticker \/ Signal \/ Shutdown
  \/ \E p \in Pools : \/ DeleteLogDrain(p) \/ Adder(p) \/ Write(p) \/ FlusherLocks(p)
                      \/ CloserStops(p) \/ CloseAllStops(p) \/ Endpoint(p)
                      \/ \E f \in Forwarders : SendPacket(f, p)
  \/ \E f \in Forwarders : Poll(f) \/ Give(f) \/ SendMessage(f)

Next == process = "up" /\ Step

Spec == Init /\ [][Next]_vars

Up(A) == process = "up" /\ A

(***************************************************************************)
(* Goroutines run; the endpoints of healthy pools answer.  A mutex goes to *)
(* a waiter that starves, and a select does not pass over one of its       *)
(* channels for ever: the main loop gets the mutex of a pool that is busy, *)
(* a forwarder gets routes_mutex, and Close gets to writeLoop.  Nothing is *)
(* assumed of Kafka, the API, the signal and the flushes.                  *)
(***************************************************************************)
FairSpec ==
  /\ Spec
  /\ WF_vars(Up(MainStep)) /\ SF_vars(Up(PrintPool)) /\ WF_vars(Up(Shutdown))
  /\ \A p \in Pools : /\ WF_vars(Up(Adder(p))) /\ WF_vars(Up(Write(p)))
                     /\ SF_vars(Up(CloseAllStops(p)))
                     /\ \A f \in Forwarders : WF_vars(Up(SendPacket(f, p)))
  /\ \A f \in Forwarders : WF_vars(Up(Give(f))) /\ SF_vars(Up(SendMessage(f)))
  /\ \A p \in Healthy : WF_vars(Up(Endpoint(p)))

(***************************************************************************)
(* Properties.                                                             *)
(***************************************************************************)
\* The locks are held by those who are where the code holds them.
TypeOK ==
  /\ process \in {"up", "exited", "crashed"}
  /\ drains_mutex <=> main.at = "pools" \/ \E p \in Pools : adder[p] = "connect"
  /\ routes_mutex <=> main.at = "removing"
  /\ packets \in [Pools -> 0..BufferSize] /\ queue \in [Pools -> 0..QueueSize]
  /\ writer \in [Pools -> {"none", "select", "lock", "push", "stopped"}]
  /\ \A p \in Pools : mutex[p] <=> \/ writer[p] = "push" \/ flusher[p] = "post"
                                   \/ ticker.at = "post" /\ ticker.dest = {p}

\* As long as endpoints take what they are sent, the main loop comes around:
\* through drains_mutex, the mutex of every syslog pool, the adders it waits
\* for, and routes_mutex.
MainReturns == main.at # "tick" ~> main.at = "tick" \/ process # "up"

\* And the message that the pooler holds gets on, however full the channels
\* are, unless a pool was closed (a forwarder can be sending to it).
SomeClosed == \E p \in Pools : p \in closed \/ writer[p] = "stopped"
MessagesMove ==
  \A f \in Forwarders : pooler = f ~> pooler # f \/ SomeClosed \/ process # "up"

\* logshuttle-server.go:176 "we need to hear about interrupt signals to safely
\* close the kafka channel": after the signal the process ends, unless a pool
\* that it closes is given back meanwhile: two Closes wait for one writeLoop.
ClosedTwice == \E p \in shutdown.dest : closer[p] # "none" /\ Nil(p)
ShutdownEnds == shutdown.at # "off" ~> process # "up" \/ ClosedTwice

\* The same, whatever is given back.
ShutdownAlwaysEnds == shutdown.at # "off" ~> process # "up"

\* The goroutines that walk drain_keys find a drain at every key.
NoCrash == process # "crashed"

\* logshuttle-server.go:177 "flush syslogs": nothing is left in a pool when the
\* process exits after a signal.
ExitsFlushed ==
  process = "exited" /\ shutdown.at = "walk" => \A p \in Pools : packets[p] = 0 /\ queue[p] = 0
=============================================================================
