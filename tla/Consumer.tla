------------------------------ MODULE Consumer ------------------------------
(***************************************************************************)
(* The log consumer of events/consumer.go: the goroutine runPooler polls   *)
(* one Kafka client and hands each message to the forwarder of its topic   *)
(* over an unbuffered channel.  On an error it drains and replaces the     *)
(* client, while the refresh of the main goroutine and the Close of the    *)
(* signal handler use the same client and the same flag without a lock.    *)
(*                                                                         *)
(* A topic is an append-only log; Kafka gives the client its offsets in    *)
(* order.  A client that joins starts from the committed position, or from *)
(* the end of a topic that has none (Kafka's default, which the            *)
(* configuration keeps); the position of what was polled is committed      *)
(* every second and when the client is closed, unless that commit fails:   *)
(* the error that Close of the client returns is ignored.                  *)
(***************************************************************************)
EXTENDS Integers, Sequences

CONSTANTS
  Topics,       \* the Kafka topics
  Internal,     \* those whose name starts with "_"
  Channels,     \* AppLogs, BuildLogs, WebLogs, IstioWebLogs
  Channel,      \* the channel of each topic that is not internal
  MaxDrained,   \* what a recovery drains at most: 100 in the code
  MaxMessages,  \* bound: the messages of each topic
  MaxFaults     \* bound: MaxFaults[k] faults of each kind k of call

\* The calls on Kafka that may fail.
FaultKinds == {"poll", "subscribe", "commit"}

ASSUME ChannelOfTopic == Internal \subseteq Topics /\ Channel \in [Topics \ Internal -> Channels]
ASSUME LimitsNat == MaxDrained \in Nat /\ MaxMessages \in [Topics -> Nat]
ASSUME FaultsNat == MaxFaults \in [FaultKinds -> Nat]

VARIABLES
  log,        \* log[t]: how many messages topic t has
  committed,  \* committed[t]: the group's position in t, or None
  up,         \* the process runs
  is_open,    \* IsOpen
  client,     \* the state of the client in kafkaConsumer
  pos,        \* pos[t]: the last offset of t the client polled or skipped
  stored,     \* stored[t]: what the next commit writes, or None
  pooler,     \* where runPooler is, its count, and the topic of its message with
              \* how many last commits had failed when it was polled
  fwd,        \* fwd[c]: whether the forwarder of c is sending a message
  refresh,    \* where the main goroutine is in Refresh
  closer,     \* where the signal handler is in Close
  taken,      \* taken[t]: the messages the forwarder of t got in this process
  handed,     \* all <<t, offset>> that a forwarder ever got
  gone,       \* the <<t, offset>> that went by: drained, skipped, or lost at an exit
  faults       \* faults[k]: how many faults of each kind there were

groupVars == <<log, committed>>
clientVars == <<client, pos, stored>>
lcVars == <<up, is_open, clientVars>>
history == <<taken, handed, gone>>
vars == <<groupVars, lcVars, pooler, fwd, refresh, closer, history, faults>>

None == -1

\* runPooler at the head of its loop, where it holds no message.
AtLoop == [at |-> "loop", topic |-> "none", lost |-> 0, count |-> 0]

Goto(at) == pooler' = [pooler EXCEPT !.at = at]

\* The messages of t up to offset o.
Upto(t, o) == {t} \X (1..o)

\* The message runPooler holds, as a set.
InHand == IF pooler.at = "hand" THEN {<<pooler.topic, pos[pooler.topic]>>} ELSE {}

Init ==
  /\ log = [t \in Topics |-> 0] /\ committed = [t \in Topics |-> None]
  /\ up = FALSE /\ is_open = FALSE
  /\ client = "none" /\ pos = [t \in Topics |-> 0] /\ stored = [t \in Topics |-> None]
  /\ pooler = AtLoop
  /\ fwd = [c \in Channels |-> "idle"]
  /\ refresh = "idle" /\ closer = "idle"
  /\ taken = [t \in Topics |-> <<>>] /\ handed = {} /\ gone = {}
  /\ faults = [k \in FaultKinds |-> 0]

(***************************************************************************)
(* Kafka.                                                                  *)
(***************************************************************************)
Produce(t) ==
  /\ log[t] < MaxMessages[t]
  /\ log' = [log EXCEPT ![t] = @ + 1]
  /\ UNCHANGED <<committed, lcVars, pooler, fwd, refresh, closer, history, faults>>

\* enable.auto.commit, every auto.commit.interval.ms.
AutoCommit ==
  /\ up /\ client = "subscribed"
  /\ committed' = stored
  /\ UNCHANGED <<log, lcVars, pooler, fwd, refresh, closer, history, faults>>

\* The client joins the group.
Subscribed ==
  /\ client' = "subscribed"
  /\ pos' = [t \in Topics |-> IF committed[t] = None THEN log[t] ELSE committed[t]]
  /\ stored' = committed
  /\ gone' = gone \cup ((UNION {Upto(t, pos'[t]) : t \in Topics}) \ handed)

Fault(k) == faults[k] < MaxFaults[k] /\ faults' = [faults EXCEPT ![k] = @ + 1]

SubscribeFails == Fault("subscribe")

\* Polling advances the position, and with it what is committed.
Polled(t) ==
  /\ client = "subscribed" /\ pos[t] < log[t]
  /\ pos' = [pos EXCEPT ![t] = @ + 1]
  /\ stored' = [stored EXCEPT ![t] = pos[t] + 1]
  /\ UNCHANGED client

CommitFails == client = "subscribed" /\ Fault("commit")

\* Mutant: a client that is closed commits nothing.
ClientCloses_uncommitted ==
  /\ client # "closed"
  /\ client' = "closed"
  /\ UNCHANGED <<groupVars, pos, stored, faults>>

\* Close of the client: a last commit, which can fail, and the client is of no
\* more use, although Close fails before it destroys the handle.
ClientCloses ==
  /\ client # "closed"
  /\ client' = "closed"
  /\ \/ committed' = (IF client = "subscribed" THEN stored ELSE committed) /\ UNCHANGED faults
     \/ CommitFails /\ UNCHANGED committed
  /\ UNCHANGED <<log, pos, stored>>

(***************************************************************************)
(* The process.                                                            *)
(***************************************************************************)
\* Init and Open: a failed subscription is logged, and left to a refresh.
Open ==
  /\ ~up
  /\ up' = TRUE /\ is_open' = TRUE
  /\ \/ Subscribed /\ UNCHANGED faults
     \/ SubscribeFails /\ client' = "unsubscribed" /\ UNCHANGED <<pos, stored, gone>>
  /\ UNCHANGED <<groupVars, pooler, fwd, refresh, closer, taken, handed>>

\* The process ends: log.Fatalln, a fault in the closed client, or os.Exit.
Exits ==
  /\ up' = FALSE /\ is_open' = FALSE
  /\ client' = "none" /\ pos' = [t \in Topics |-> 0] /\ stored' = [t \in Topics |-> None]
  /\ pooler' = AtLoop
  /\ fwd' = [c \in Channels |-> "idle"]
  /\ refresh' = "idle" /\ closer' = "idle"
  /\ taken' = [t \in Topics |-> <<>>]
  /\ gone' = gone \cup InHand
  /\ UNCHANGED <<groupVars, handed>>

\* A call on a client that was closed: undefined, it may also just return.
UseClosed == up /\ client = "closed"

(***************************************************************************)
(* runPooler.                                                              *)
(***************************************************************************)
LoopCheck ==
  /\ up /\ pooler.at = "loop"
  /\ Goto(IF is_open THEN "poll" ELSE "done")
  /\ UNCHANGED <<groupVars, lcVars, fwd, refresh, closer, history, faults>>

\* Poll returns nil, or an event that is neither a message nor an error.
PollNothing ==
  /\ up /\ pooler.at = "poll"
  /\ Goto("loop")
  /\ UNCHANGED <<groupVars, lcVars, fwd, refresh, closer, history, faults>>

PollInternal(t) ==
  /\ up /\ pooler.at = "poll"
  /\ t \in Internal
  /\ Polled(t)
  /\ Goto("loop")
  /\ UNCHANGED <<groupVars, up, is_open, fwd, refresh, closer, history, faults>>

PollMessage(t) ==
  /\ up /\ pooler.at = "poll"
  /\ t \notin Internal
  /\ Polled(t)
  /\ pooler' = [pooler EXCEPT !.at = "hand", !.topic = t, !.lost = faults["commit"]]
  /\ UNCHANGED <<groupVars, up, is_open, fwd, refresh, closer, history, faults>>

\* The message as its forwarder gets it.
Receipt == [offset |-> pos[pooler.topic], lost |-> pooler.lost]

\* Mutant: a forwarder that is busy does not get the message.
Take_nonblocking(t) ==
  /\ up /\ pooler.at = "hand" /\ pooler.topic = t
  /\ IF fwd[Channel[t]] = "idle"
       THEN /\ fwd' = [fwd EXCEPT ![Channel[t]] = "busy"]
            /\ taken' = [taken EXCEPT ![t] = Append(@, Receipt)]
            /\ handed' = handed \cup InHand
       ELSE UNCHANGED <<fwd, taken, handed>>
  /\ pooler' = AtLoop
  /\ UNCHANGED <<groupVars, lcVars, refresh, closer, gone, faults>>

\* `lc.AppLogs <- msg', and the range loop of a forwarder that receives it.
Take(t) ==
  /\ up /\ pooler.at = "hand" /\ pooler.topic = t
  /\ fwd[Channel[t]] = "idle"
  /\ fwd' = [fwd EXCEPT ![Channel[t]] = "busy"]
  /\ taken' = [taken EXCEPT ![t] = Append(@, Receipt)]
  /\ handed' = handed \cup InHand
  /\ pooler' = AtLoop
  /\ UNCHANGED <<groupVars, lcVars, refresh, closer, gone, faults>>

\* The forwarder sent its message to every destination.
ForwarderReturns(c) ==
  /\ up /\ fwd[c] = "busy"
  /\ fwd' = [fwd EXCEPT ![c] = "idle"]
  /\ UNCHANGED <<groupVars, lcVars, pooler, refresh, closer, history, faults>>

\* Mutant: the consumer stays open while it is replaced.
PollError_open ==
  /\ up /\ pooler.at = "poll"
  /\ Fault("poll")
  /\ pooler' = [pooler EXCEPT !.at = "drain", !.count = 0]
  /\ UNCHANGED <<groupVars, lcVars, fwd, refresh, closer, history>>

\* Poll returns an error: the client will be replaced.
PollError ==
  /\ up /\ pooler.at = "poll"
  /\ Fault("poll")
  /\ is_open' = FALSE
  /\ pooler' = [pooler EXCEPT !.at = "drain", !.count = 0]
  /\ UNCHANGED <<groupVars, up, clientVars, fwd, refresh, closer, history>>

Full == pooler.count >= MaxDrained

DrainCounted ==
  pooler' = IF Full THEN [pooler EXCEPT !.at = "fatal"] ELSE [pooler EXCEPT !.count = @ + 1]

\* `for Poll(10) != nil && count < 100': one more message is dropped.
DrainMessage(t) ==
  /\ up /\ pooler.at = "drain"
  /\ Polled(t)
  /\ gone' = gone \cup {<<t, pos[t] + 1>>}
  /\ DrainCounted
  /\ UNCHANGED <<groupVars, up, is_open, fwd, refresh, closer, taken, handed, faults>>

\* ... or another event.
DrainEvent ==
  /\ up /\ pooler.at = "drain"
  /\ DrainCounted
  /\ UNCHANGED <<groupVars, lcVars, fwd, refresh, closer, history, faults>>

\* Poll returns nil: the client is drained, unless it took MaxDrained polls.
DrainEmpty ==
  /\ up /\ pooler.at = "drain"
  /\ Goto(IF Full THEN "fatal" ELSE "close")
  /\ UNCHANGED <<groupVars, lcVars, fwd, refresh, closer, history, faults>>

\* log.Fatalln when the limit was reached.
HardStop ==
  /\ up /\ pooler.at = "fatal"
  /\ Exits
  /\ UNCHANGED faults

RecoverClose ==
  /\ up /\ pooler.at = "close"
  /\ ClientCloses
  /\ Goto("create")
  /\ UNCHANGED <<up, is_open, fwd, refresh, closer, history>>

\* Another goroutine closed the client before.
RecoverCloseAgain ==
  /\ UseClosed /\ pooler.at = "close"
  /\ Goto("create")
  /\ UNCHANGED <<groupVars, lcVars, fwd, refresh, closer, history, faults>>

RecoverCreate ==
  /\ up /\ pooler.at = "create"
  /\ client' = "unsubscribed"
  /\ pos' = [t \in Topics |-> 0] /\ stored' = [t \in Topics |-> None]
  /\ Goto("subscribe")
  /\ UNCHANGED <<groupVars, up, is_open, fwd, refresh, closer, history, faults>>

\* Mutant: IsOpen is not set again.
RecoverSubscribe_closed ==
  /\ up /\ pooler.at = "subscribe"
  /\ Subscribed
  /\ pooler' = AtLoop
  /\ UNCHANGED <<groupVars, up, is_open, fwd, refresh, closer, taken, handed, faults>>

\* The new client subscribes and the consumer is open again.
RecoverSubscribe ==
  /\ up /\ pooler.at = "subscribe"
  /\ IF client = "unsubscribed" THEN Subscribed ELSE UNCHANGED <<clientVars, gone>>
  /\ is_open' = TRUE
  /\ pooler' = AtLoop
  /\ UNCHANGED <<groupVars, up, fwd, refresh, closer, taken, handed, faults>>

\* log.Fatalln when the new client cannot subscribe.
RecoverFatal ==
  /\ up /\ pooler.at = "subscribe"
  /\ SubscribeFails
  /\ Exits

PoolerFaults ==
  /\ UseClosed /\ pooler.at \in {"poll", "drain", "close", "subscribe"}
  /\ Exits
  /\ UNCHANGED faults

(***************************************************************************)
(* Refresh, from the main goroutine, once a minute.                        *)
(***************************************************************************)
RefreshCheck ==
  /\ up /\ refresh = "idle" /\ is_open
  /\ refresh' = "subscribe"
  /\ UNCHANGED <<groupVars, lcVars, pooler, fwd, closer, history, faults>>

\* Mutant: only a client that is subscribed subscribes.
RefreshSubscribe_ignored ==
  /\ up /\ refresh = "subscribe"
  /\ refresh' = "idle"
  /\ UNCHANGED <<groupVars, lcVars, pooler, fwd, closer, history, faults>>

\* Subscribing again changes nothing, nor does a failure that is logged, nor
\* a call on a closed client that returns.
RefreshSubscribe ==
  /\ up /\ refresh = "subscribe"
  /\ refresh' = "idle"
  /\ \/ client = "unsubscribed" /\ Subscribed /\ UNCHANGED faults
     \/ client # "unsubscribed" /\ UNCHANGED <<clientVars, gone, faults>>
     \/ SubscribeFails /\ UNCHANGED <<clientVars, gone>>
  /\ UNCHANGED <<groupVars, up, is_open, pooler, fwd, closer, taken, handed>>

RefreshFaults ==
  /\ UseClosed /\ refresh = "subscribe"
  /\ Exits
  /\ UNCHANGED faults

(***************************************************************************)
(* Close, from the signal handler.                                         *)
(***************************************************************************)
CloseCheck ==
  /\ up /\ closer = "idle"
  /\ closer' = IF is_open THEN "close" ELSE "done"
  /\ is_open' = FALSE
  /\ UNCHANGED <<groupVars, up, clientVars, pooler, fwd, refresh, history, faults>>

CloseClient ==
  /\ up /\ closer = "close"
  /\ ClientCloses
  /\ closer' = "done"
  /\ UNCHANGED <<up, is_open, pooler, fwd, refresh, history>>

CloseFaults ==
  /\ UseClosed /\ closer = "close"
  /\ Exits
  /\ UNCHANGED faults

\* The rest of the shutdown ends in os.Exit.
Exit ==
  /\ up /\ closer = "done"
  /\ Exits
  /\ UNCHANGED faults

(***************************************************************************)
(* The specification.                                                      *)
(***************************************************************************)
Recover == \/ \E t \in Topics : DrainMessage(t)
           \/ DrainEvent \/ DrainEmpty \/ HardStop
           \/ RecoverClose \/ RecoverCloseAgain \/ RecoverCreate
           \/ RecoverSubscribe \/ RecoverFatal

RunPooler == \/ LoopCheck \/ PollNothing \/ PollError \/ PoolerFaults
             \/ \E t \in Topics \ Internal : Take(t)
             \/ Recover

Refresh == RefreshCheck \/ RefreshSubscribe \/ RefreshFaults

Close == CloseCheck \/ CloseClient \/ CloseFaults \/ Exit

Next == \/ \E t \in Topics : Produce(t) \/ PollInternal(t) \/ PollMessage(t)
        \/ AutoCommit
        \/ Open
        \/ RunPooler
        \/ \E c \in Channels : ForwarderReturns(c)
        \/ Refresh
        \/ Close

Spec == Init /\ [][Next]_vars

(***************************************************************************)
(* The process is started again, goroutines run, forwarders come back (the *)
(* drains take packets), and a topic that is polled again and again gives  *)
(* its messages.  Nothing is assumed of signals, errors or producers.      *)
(***************************************************************************)
FairSpec ==
  /\ Spec
  /\ WF_vars(Open) /\ WF_vars(RunPooler) /\ WF_vars(Refresh)
  /\ \A t \in Topics \ Internal : SF_vars(PollMessage(t))
  /\ \A c \in Channels : WF_vars(ForwarderReturns(c))

(***************************************************************************)
(* Properties.                                                             *)
(***************************************************************************)
\* The variables have their types.
TypeOK ==
  /\ \A t \in Topics : /\ log[t] \in 0..MaxMessages[t]
                       /\ committed[t] \in None..log[t]
                       /\ pos[t] \in 0..log[t]
  /\ up \in BOOLEAN /\ is_open \in BOOLEAN
  /\ client \in {"none", "unsubscribed", "subscribed", "closed"}
  /\ pooler.at \in {"loop", "poll", "hand", "drain", "fatal",
                   "close", "create", "subscribe", "done"}
  /\ pooler.count \in 0..MaxDrained
  /\ refresh \in {"idle", "subscribe"} /\ closer \in {"idle", "close", "done"}

\* Within one process the forwarder of a topic gets its messages in order and
\* each once, although clients are replaced and positions are committed late: a
\* recovery reads messages again only when the last commit of a client failed,
\* and each such failure gives them again once at most.
TakenOnceInOrder ==
  \A t \in Topics : \A i, j \in DOMAIN taken[t] :
    i < j /\ taken[t][i].lost = taken[t][j].lost => taken[t][i].offset < taken[t][j].offset

\* A position is committed when a message is polled, not when it is sent: still,
\* what the group will not read again was handed to a forwarder or is in the
\* hand of runPooler, or it went by in a recovery, a start or an exit.
NothingSkipped ==
  \A t \in Topics \ Internal : Upto(t, committed[t]) \subseteq handed \cup gone \cup InHand

\* IsOpen says that the client can be used, until Close starts: a recovery
\* clears it before it closes the client and sets it after there is another.
OpenMeansAlive ==
  up /\ is_open /\ closer = "idle" => client \in {"subscribed", "unsubscribed"}

\* A recovery ends with an open consumer or with the end of the process.
RecoveryEnds ==
  pooler.at = "drain" /\ up ~> is_open \/ ~up \/ closer # "idle"

\* Every message goes to a forwarder, unless it went by in a recovery, a start
\* or an exit, or the process is told to stop.
EachMessageTaken ==
  \A t \in Topics \ Internal : \A o \in 1..MaxMessages[t] :
    log[t] >= o ~> <<t, o>> \in handed \cup gone \/ closer # "idle"

\* logshuttle-server.go:173 "we need to hear about interrupt signals to safely
\* close the kafka channel": runPooler does not poll a client that Close closed.
SafelyClosed ==
  up /\ pooler.at \in {"poll", "drain", "close"} => client # "closed"

\* The same for the subscription of a refresh.
RefreshUsesClient ==
  up /\ refresh = "subscribe" /\ closer = "idle" => client # "closed"

\* Close is final: once it returned, the consumer is not open.
CloseIsFinal ==
  up /\ closer = "done" => ~is_open
=============================================================================
