----------------------------- MODULE SyslogDrain ----------------------------
(***************************************************************************)
(* The pool of a syslog destination, drains/syslogdrain.go.  writeLoop     *)
(* takes packets from a buffered channel and pushes each to the queue of   *)
(* one connection, chosen by a hash of its tag.  Under back pressure it    *)
(* starts goroutines that add a connection to the pool, up to              *)
(* MaxConnections; they share the flag Attempting and the slice conns and  *)
(* take no lock.  A connection (syslog.Logger) writes its queue in order.  *)
(*                                                                         *)
(* Packets are the numbers 1, 2, ... in the order they enter the channel,  *)
(* connections the numbers 1, 2, ... in the order they are established.    *)
(***************************************************************************)
EXTENDS Naturals, FiniteSets, SequencesExt

CONSTANTS
  Tags,            \* the tags of packets: process type and pod
  Hash,            \* crc32.ChecksumIEEE of each tag
  Tag,             \* the tag of each packet
  MaxPackets,      \* bound: how many packets the forwarders send
  BufferSize,      \* capacity of the channel packets (512)
  QueueSize,       \* capacity of the channel of a Logger (100)
  MaxConnections,  \* MAX_SYSLOG_CONNECTIONS
  Connectors       \* the goroutines `go p.connect(true, ...)' can start

ASSUME PacketsTagged == Tag \in [1..MaxPackets -> Tags] /\ Hash \in [Tags -> Nat]
ASSUME SizesPositive == {MaxPackets, BufferSize, QueueSize, MaxConnections} \subseteq Nat \ {0}

\* The connections there can be: writeLoop asks for one at most per packet.
Connections == 1..(MaxPackets + 1)

VARIABLES
  sent,        \* how many packets entered the channel
  packets,     \* the channel
  writer,      \* where writeLoop is; it holds Mutex in "push" and "pressure"
  hand,        \* the packet writeLoop has in hand, 0 if none
  target,      \* the connection writeLoop chose for it
  conns,       \* the slice of connections
  dialed,      \* how many connections were established
  queue,       \* queue[n]: the packets in the channel of connection n
  dead,        \* the connections Close closed
  attempting,  \* the flag Attempting
  pressed,     \* Pressure > 0: the channel was seen non-empty once
  connector,   \* connector[c]: where the goroutine c is in connect
  base,        \* base[c]: the slice header append read
  closer,      \* where Close is
  index,       \* i of the loop in Close: how many connections it closed
  delivered,   \* the packets the service received, in order
  chosen_from  \* history: the pool each packet's connection was chosen from

poolVars == <<conns, dialed, attempting, connector, base>>
writeVars == <<writer, hand, target, pressed, chosen_from>>
closeVars == <<dead, closer, index>>
vars == <<sent, packets, writeVars, poolVars, queue, closeVars, delivered>>

Init ==
  /\ sent = 0 /\ packets = <<>>
  /\ writer = "select" /\ hand = 0 /\ target = 1
  /\ conns = <<1>> /\ dialed = 1
  /\ queue = [n \in Connections |-> <<>>]
  /\ dead = {}
  /\ attempting = FALSE /\ pressed = FALSE
  /\ connector = [c \in Connectors |-> "off"]
  /\ base = [c \in Connectors |-> <<>>]
  /\ closer = "none" /\ index = 0
  /\ delivered = <<>>
  /\ chosen_from = [p \in 1..MaxPackets |-> <<>>]

(***************************************************************************)
(* Sending and writeLoop.                                                  *)
(***************************************************************************)
\* A forwarder puts the next packet into the channel.
Send ==
  /\ sent < MaxPackets
  /\ Len(packets) < BufferSize
  /\ sent' = sent + 1
  /\ packets' = Append(packets, sent + 1)
  /\ UNCHANGED <<writeVars, poolVars, queue, closeVars, delivered>>

TakePacket ==
  /\ writer = "select"
  /\ packets # <<>>
  /\ hand' = Head(packets)
  /\ packets' = Tail(packets)
  /\ writer' = "choose"
  /\ UNCHANGED <<sent, target, pressed, chosen_from, poolVars, queue, closeVars, delivered>>

\* Mutant: the connection is chosen by round robin and not by the tag.
ChooseConnection_robin == conns[(hand % Len(conns)) + 1]

\* crc32(packet.Tag) % OpenConnections(), counted from 1.
ChooseConnection == conns[(Hash[Tag[hand]] % Len(conns)) + 1]

Choose ==
  /\ writer = "choose"
  /\ target' = ChooseConnection
  /\ chosen_from' = [chosen_from EXCEPT ![hand] = conns]
  /\ writer' = "push"
  /\ UNCHANGED <<sent, packets, hand, pressed, poolVars, queue, closeVars, delivered>>

\* Mutant: a packet is dropped when the queue of its connection is full.
Push_drop ==
  /\ writer = "push"
  /\ queue' = IF Len(queue[target]) < QueueSize
                THEN [queue EXCEPT ![target] = Append(@, hand)] ELSE queue
  /\ hand' = 0
  /\ writer' = "pressure"
  /\ UNCHANGED <<sent, packets, target, pressed, chosen_from, poolVars, closeVars, delivered>>

\* `p.conns[ndx].Packets <- packet' blocks while the queue is full.
Push ==
  /\ writer = "push"
  /\ Len(queue[target]) < QueueSize
  /\ queue' = [queue EXCEPT ![target] = Append(@, hand)]
  /\ hand' = 0
  /\ writer' = "pressure"
  /\ UNCHANGED <<sent, packets, target, pressed, chosen_from, poolVars, closeVars, delivered>>

\* The moving average of the fill of the channel may be above 0.1 only after
\* the channel was seen non-empty; then a connection is asked for.
Pressure ==
  /\ writer = "pressure"
  /\ pressed' = (pressed \/ packets # <<>>)
  /\ \/ UNCHANGED connector
     \/ /\ pressed' /\ Len(conns) < MaxConnections
        /\ \E c \in Connectors : /\ connector[c] = "off"
                                 /\ connector' = [connector EXCEPT ![c] = "load"]
  /\ writer' = "select"
  /\ UNCHANGED <<sent, packets, hand, target, chosen_from, conns, dialed, attempting, base,
                 queue, closeVars, delivered>>

(***************************************************************************)
(* connect.                                                                *)
(***************************************************************************)
\* atomic.LoadUint32(&p.Attempting) == 1: somebody else is at it.
ConnectNotAlone(c) ==
  /\ connector[c] = "load" /\ attempting
  /\ connector' = [connector EXCEPT ![c] = "off"]
  /\ UNCHANGED <<sent, packets, writeVars, conns, dialed, attempting, base,
                 queue, closeVars, delivered>>

ConnectAlone(c) ==
  /\ connector[c] = "load" /\ ~attempting
  /\ connector' = [connector EXCEPT ![c] = "store"]
  /\ UNCHANGED <<sent, packets, writeVars, conns, dialed, attempting, base,
                 queue, closeVars, delivered>>

ConnectStore(c) ==
  /\ connector[c] = "store"
  /\ attempting' = TRUE
  /\ connector' = [connector EXCEPT ![c] = "dial"]
  /\ UNCHANGED <<sent, packets, writeVars, conns, dialed, base, queue, closeVars, delivered>>

\* syslog.Dial succeeds: append reads the slice...
ConnectDialed(c) ==
  /\ connector[c] = "dial"
  /\ dialed' = dialed + 1
  /\ base' = [base EXCEPT ![c] = Append(conns, dialed + 1)]
  /\ connector' = [connector EXCEPT ![c] = "append"]
  /\ UNCHANGED <<sent, packets, writeVars, conns, attempting, queue, closeVars, delivered>>

\* ... and writes it back.
ConnectAppend(c) ==
  /\ connector[c] = "append"
  /\ conns' = base[c]
  /\ base' = [base EXCEPT ![c] = <<>>]
  /\ attempting' = FALSE
  /\ connector' = [connector EXCEPT ![c] = "off"]
  /\ UNCHANGED <<sent, packets, writeVars, dialed, queue, closeVars, delivered>>

ConnectFailed(c) ==
  /\ connector[c] = "dial"
  /\ attempting' = FALSE
  /\ connector' = [connector EXCEPT ![c] = "off"]
  /\ UNCHANGED <<sent, packets, writeVars, conns, dialed, base, queue, closeVars, delivered>>

(***************************************************************************)
(* Close, and the service.                                                 *)
(***************************************************************************)
\* Mutant: Close closes the connections before it stops writeLoop.
Close_first ==
  /\ closer = "none"
  /\ closer' = "stop"
  /\ dead' = ToSet(conns)
  /\ UNCHANGED <<sent, packets, writeVars, poolVars, queue, index, delivered>>

Close ==
  /\ closer = "none"
  /\ closer' = "stop"
  /\ UNCHANGED <<sent, packets, writeVars, poolVars, queue, dead, index, delivered>>

\* The unbuffered stopChan: writeLoop takes it at its select, and returns.
StopWriter ==
  /\ closer = "stop" /\ writer = "select"
  /\ writer' = "stopped"
  /\ closer' = "loop"
  /\ UNCHANGED <<sent, packets, hand, target, pressed, chosen_from, poolVars,
                 queue, dead, index, delivered>>

\* The loop of Close: one connection, and what its queue holds, is dropped.
CloseConnection ==
  /\ closer = "loop"
  /\ index < Len(conns)
  /\ dead' = dead \cup {conns[index + 1]}
  /\ index' = index + 1
  /\ UNCHANGED <<sent, packets, writeVars, poolVars, queue, closer, delivered>>

CloseDone ==
  /\ closer = "loop"
  /\ index >= Len(conns)
  /\ closer' = "done"
  /\ UNCHANGED <<sent, packets, writeVars, poolVars, queue, dead, index, delivered>>

\* A Logger writes the next packet of its queue (external: syslog/syslog.go).
Deliver(n) ==
  /\ n \notin dead
  /\ queue[n] # <<>>
  /\ delivered' = Append(delivered, Head(queue[n]))
  /\ queue' = [queue EXCEPT ![n] = Tail(@)]
  /\ UNCHANGED <<sent, packets, writeVars, poolVars, closeVars>>

(***************************************************************************)
(* The specification.                                                      *)
(***************************************************************************)
WriteStep == TakePacket \/ Choose \/ Push \/ Pressure

Connect(c) == \/ ConnectNotAlone(c) \/ ConnectAlone(c) \/ ConnectStore(c)
              \/ ConnectDialed(c) \/ ConnectAppend(c) \/ ConnectFailed(c)

CloseStep == CloseConnection \/ CloseDone

Next == \/ Send \/ WriteStep
        \/ \E c \in Connectors : Connect(c)
        \/ Close \/ StopWriter \/ CloseStep
        \/ \E n \in Connections : Deliver(n)

Spec == Init /\ [][Next]_vars

\* Goroutines run, connection attempts end (4 s timeout), and the service takes
\* what is written to it.  The select of writeLoop picks at random among ready
\* cases, so that stopChan is taken in the end.
FairSpec ==
  /\ Spec
  /\ WF_vars(WriteStep) /\ SF_vars(StopWriter) /\ WF_vars(CloseStep)
  /\ \A c \in Connectors : WF_vars(Connect(c))
  /\ \A n \in Connections : WF_vars(Deliver(n))

(***************************************************************************)
(* Properties.                                                             *)
(***************************************************************************)
\* The variables have their types; the pool always has a connection.
TypeOK ==
  /\ sent \in 0..MaxPackets /\ hand \in 0..MaxPackets
  /\ Len(packets) <= BufferSize
  /\ conns # <<>> /\ ToSet(conns) \subseteq 1..dialed
  /\ dialed \in Connections
  /\ \A n \in Connections : Len(queue[n]) <= QueueSize
  /\ writer = "stopped" <=> closer \in {"loop", "done"}

\* Every packet that entered the channel is in exactly one place, the channel,
\* the hand of writeLoop, the queue of one connection or the service, however
\* many connections were added or lost from the slice meanwhile.
EachPacketOnce ==
  LET InHand == IF hand = 0 THEN {} ELSE {hand}
      places == <<ToSet(packets), InHand, ToSet(delivered)>>
                \o [n \in DOMAIN queue |-> ToSet(queue[n])]
  IN /\ UNION ToSet(places) = 1..sent
     /\ \A i, j \in DOMAIN places : i # j => places[i] \cap places[j] = {}

\* syslogdrain.go:157 "Ensure the same host goes down the same connection so we
\* keep logs in order": two packets with the same tag are received in the order
\* they were sent.
SameTagInOrder ==
  \A i, j \in DOMAIN delivered :
    i < j /\ Tag[delivered[i]] = Tag[delivered[j]] => delivered[i] < delivered[j]

\* What is left of that promise: two packets with the same tag are received in
\* the order they were sent if writeLoop chose their connections from the same
\* pool, however many goroutines were in connect meanwhile.
SamePoolInOrder ==
  \A i, j \in DOMAIN delivered :
    i < j /\ Tag[delivered[i]] = Tag[delivered[j]]
          /\ chosen_from[delivered[i]] = chosen_from[delivered[j]]
      => delivered[i] < delivered[j]

\* README.md:44 "The maximum amount of syslog connections we can have to a
\* single service".
ConnectionsBounded == Len(conns) <= MaxConnections

\* drains.go:96 "we should erase the drains and close them out at this point.":
\* after Close, when no goroutine is in connect, no connection is open.
ClosedMeansNoConnection ==
  closer = "done" /\ (\A c \in Connectors : connector[c] = "off") => dead = 1..dialed

\* A packet in the channel is delivered in the end, if the drain is not closed.
SentIsDelivered ==
  \A p \in 1..MaxPackets : p \in ToSet(packets) ~> p \in ToSet(delivered) \/ closer # "none"

\* Close returns: writeLoop comes back to its select, if the service reads.
CloseReturns == closer = "stop" ~> closer = "done"
=============================================================================
