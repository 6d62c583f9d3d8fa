------------------------------- MODULE Logger -------------------------------
(***************************************************************************)
(* One connection of a syslog pool, syslog/syslog.go.  writeLoop takes     *)
(* packets from a channel and writes each to the network connection,       *)
(* dialing a new one when the old one failed.  A goroutine per connection  *)
(* (watch) reads from it only to notice that it ended, and reports this on *)
(* the unbuffered channel errors of the connection.  Close runs in another *)
(* goroutine; writeLoop reads conn and Errors without the lock of Close.   *)
(*                                                                         *)
(* Packets are the numbers 1, 2, ... in the order they enter the channel,  *)
(* network connections the numbers 1, 2, ... in the order of the dials.    *)
(***************************************************************************)
EXTENDS Naturals, SequencesExt

CONSTANTS
  MaxPackets,  \* bound: how many packets the drain pushes
  QueueSize,   \* capacity of the channel Packets (100)
  MaxFailing   \* bound: only the first connections, this many, fail

ASSUME SizesPositive == {MaxPackets, QueueSize} \subseteq Nat \ {0}
ASSUME MaxFailingNat == MaxFailing \in Nat

\* The network connections there can be: one for each that failed, one that does
\* not, and two that writePacket dials while Close takes the field conn away.
Conns == 1..(MaxFailing + 3)

VARIABLES
  sent,      \* how many packets entered the channel
  queue,     \* the channel Packets
  writer,    \* where writeLoop, writePacket or connect is
  hand,      \* the packet in writePacket, 0 if none
  conn,      \* the field conn: a connection, 0 if nil
  dialed,    \* how many connections were established
  net,       \* net[n]: network connection n
  watch,     \* watch[n]: where the goroutine watch of connection n is
  closer,    \* where Close is; "done" means that Errors is closed
  stop,      \* stopChan holds its one token
  crashed,   \* a goroutine panicked, which ends the process
  received,  \* the packets the service read, in order
  lost       \* the packets written to a connection the service had left

writeVars == <<writer, hand, received, lost>>
connVars == <<conn, dialed, net, watch>>
closeVars == <<closer, stop>>
vars == <<sent, queue, writeVars, connVars, closeVars, crashed>>

\* The state after Dial: one connection, and its watch.
Init ==
  /\ sent = 0 /\ queue = <<>>
  /\ writer = "select" /\ hand = 0
  /\ conn = 1 /\ dialed = 1
  /\ net = [n \in Conns |-> IF n = 1 THEN "open" ELSE "none"]
  /\ watch = [n \in Conns |-> IF n = 1 THEN "read" ELSE "off"]
  /\ closer = "none" /\ stop = FALSE
  /\ crashed = FALSE
  /\ received = <<>> /\ lost = {}

(***************************************************************************)
(* The drain and the network.                                              *)
(***************************************************************************)
\* writeLoop of the drain pushes the next packet; Close stopped it first.
Push ==
  /\ closer = "none"
  /\ sent < MaxPackets /\ Len(queue) < QueueSize
  /\ sent' = sent + 1
  /\ queue' = Append(queue, sent + 1)
  /\ UNCHANGED <<writeVars, connVars, closeVars, crashed>>

\* The service goes away.
Break(n) ==
  /\ net[n] = "open" /\ n <= MaxFailing
  /\ net' = [net EXCEPT ![n] = "broken"]
  /\ UNCHANGED <<sent, queue, writeVars, conn, dialed, watch, closeVars, crashed>>

\* Mutant: watch does not wait until its error is received.
Watch_nonblocking(n) ==
  /\ watch[n] = "read" /\ net[n] \in {"broken", "closed"}
  /\ net' = [net EXCEPT ![n] = "closed"]
  /\ watch' = [watch EXCEPT ![n] = "done"]
  /\ UNCHANGED <<sent, queue, writeVars, conn, dialed, closeVars, crashed>>

\* Read fails, because of the service or of a Close on this side: watch closes
\* the connection and waits for somebody to receive from errors.
Watch(n) ==
  /\ watch[n] = "read" /\ net[n] \in {"broken", "closed"}
  /\ net' = [net EXCEPT ![n] = "closed"]
  /\ watch' = [watch EXCEPT ![n] = "report"]
  /\ UNCHANGED <<sent, queue, writeVars, conn, dialed, closeVars, crashed>>

(***************************************************************************)
(* writeLoop and writePacket.                                              *)
(***************************************************************************)
\* Sending on a closed channel and using a nil pointer panic.
Panic ==
  /\ crashed' = TRUE
  /\ UNCHANGED <<sent, queue, writeVars, connVars, closeVars>>

TakePacket ==
  /\ writer = "select" /\ queue # <<>>
  /\ hand' = Head(queue)
  /\ queue' = Tail(queue)
  /\ writer' = "check"
  /\ UNCHANGED <<sent, received, lost, connVars, closeVars, crashed>>

\* reconnectNeeded: there is no connection, or its watch has an error to report,
\* which is received.  Otherwise go on with the connection as it is.
Check ==
  /\ writer = "check"
  /\ IF conn # 0 /\ watch[conn] = "report"
       THEN watch' = [watch EXCEPT ![conn] = "done"]
       ELSE UNCHANGED watch
  /\ writer' = IF conn = 0 \/ watch[conn] = "report" THEN "connect" ELSE "write"
  /\ UNCHANGED <<sent, queue, hand, received, lost, conn, dialed, net, closeVars, crashed>>

\* dial succeeds.  (When it fails, connect sleeps and tries again.)
Dialed ==
  /\ writer = "connect" /\ dialed + 1 \in Conns
  /\ dialed' = dialed + 1
  /\ conn' = dialed + 1
  /\ net' = [net EXCEPT ![dialed + 1] = "open"]
  /\ watch' = [watch EXCEPT ![dialed + 1] = "read"]
  /\ writer' = "write"
  /\ UNCHANGED <<sent, queue, hand, received, lost, closeVars, crashed>>

\* dial fails, and handleError sends on Errors, which Close closed.
DialFailedPanics == writer = "connect" /\ closer = "done" /\ Panic

\* l.conn.netConn with l.conn nil, in the writing or in the error path.
NilConnPanics == writer \in {"write", "failed"} /\ conn = 0 /\ Panic

\* handleError after a failed write.
ReportPanics == writer = "report" /\ closer = "done" /\ Panic

\* io.WriteString returned no error, and the service reads the packet.
WriteReceived ==
  /\ writer = "write" /\ conn # 0 /\ net[conn] = "open"
  /\ received' = Append(received, hand)
  /\ hand' = 0
  /\ writer' = "select"
  /\ UNCHANGED <<sent, queue, lost, connVars, closeVars, crashed>>

\* No error either, but the service is gone: the kernel took the bytes.
WriteLost ==
  /\ writer = "write" /\ conn # 0 /\ net[conn] = "broken"
  /\ lost' = lost \cup {hand}
  /\ hand' = 0
  /\ writer' = "select"
  /\ UNCHANGED <<sent, queue, received, connVars, closeVars, crashed>>

\* The write fails, or misses its deadline on a connection that still is open.
WriteFails ==
  /\ writer = "write" /\ conn # 0
  /\ net[conn] = "open" => conn <= MaxFailing
  /\ writer' = "failed"
  /\ UNCHANGED <<sent, queue, hand, received, lost, connVars, closeVars, crashed>>

CloseFailed ==
  /\ writer = "failed" /\ conn # 0
  /\ net' = [net EXCEPT ![conn] = "closed"]
  /\ writer' = "report"
  /\ UNCHANGED <<sent, queue, hand, received, lost, conn, dialed, watch, closeVars, crashed>>

\* Mutants: the packet goes back to the end of the queue; a new connection is
\* dialed at once and not when watch reported the old one.
Retry_requeue ==
  /\ writer = "report" /\ closer # "done"
  /\ queue' = Append(queue, hand)
  /\ hand' = 0
  /\ writer' = "select"
  /\ UNCHANGED <<sent, received, lost, connVars, closeVars, crashed>>
Retry_connect ==
  /\ writer = "report" /\ closer # "done"
  /\ writer' = "connect"
  /\ UNCHANGED <<sent, queue, hand, received, lost, connVars, closeVars, crashed>>

\* handleError finds nobody listening; the same packet is tried again.
Retry ==
  /\ writer = "report" /\ closer # "done"
  /\ writer' = "check"
  /\ UNCHANGED <<sent, queue, hand, received, lost, connVars, closeVars, crashed>>

Stop ==
  /\ writer = "select" /\ stop
  /\ stop' = FALSE
  /\ writer' = "stopped"
  /\ UNCHANGED <<sent, queue, hand, received, lost, connVars, closer, crashed>>

(***************************************************************************)
(* Close.  The drain calls it once.                                        *)
(***************************************************************************)
\* Mutant: the token for writeLoop is not sent.
CloseBegin_nostop ==
  /\ closer = "none"
  /\ closer' = "conn"
  /\ UNCHANGED <<sent, queue, writeVars, connVars, stop, crashed>>

\* stopChan has room for the token, whatever writeLoop does.
CloseBegin ==
  /\ closer = "none"
  /\ closer' = "conn" /\ stop' = TRUE
  /\ UNCHANGED <<sent, queue, writeVars, connVars, crashed>>

CloseConn ==
  /\ closer = "conn"
  /\ net' = [net EXCEPT ![conn] = "closed"]
  /\ closer' = "forget"
  /\ UNCHANGED <<sent, queue, writeVars, conn, dialed, watch, stop, crashed>>

CloseForget ==
  /\ closer = "forget"
  /\ conn' = 0
  /\ closer' = "errors"
  /\ UNCHANGED <<sent, queue, writeVars, dialed, net, watch, stop, crashed>>

CloseErrors ==
  /\ closer = "errors"
  /\ closer' = "done"
  /\ UNCHANGED <<sent, queue, writeVars, connVars, stop, crashed>>

(***************************************************************************)
(* The specification.                                                      *)
(***************************************************************************)
WriteStep == \/ TakePacket \/ Check \/ NilConnPanics \/ ReportPanics
             \/ WriteLost \/ WriteFails \/ CloseFailed \/ Retry

Close == CloseConn \/ CloseForget \/ CloseErrors

Next ==
  /\ ~crashed
  /\ \/ Push
     \/ \E n \in Conns : Break(n) \/ Watch(n)
     \/ WriteStep \/ Dialed \/ DialFailedPanics \/ WriteReceived \/ Stop
     \/ CloseBegin \/ Close

Spec == Init /\ [][Next]_vars

\* Goroutines run.  A host that is dialed again and again is reached, and a
\* service that stays takes a packet in the end; the select of writeLoop takes
\* each of its cases in the end.
FairSpec ==
  /\ Spec
  /\ WF_vars(~crashed /\ WriteStep) /\ WF_vars(~crashed /\ Close)
  /\ \A n \in Conns : WF_vars(~crashed /\ Watch(n))
  /\ SF_vars(~crashed /\ Dialed) /\ SF_vars(~crashed /\ WriteReceived)
  /\ SF_vars(~crashed /\ Stop)

(***************************************************************************)
(* Properties.                                                             *)
(***************************************************************************)
\* The variables have their types; a packet is in hand exactly in writePacket.
TypeOK ==
  /\ sent \in 0..MaxPackets /\ Len(queue) <= QueueSize
  /\ writer \in {"select", "check", "connect", "write", "failed", "report", "stopped"}
  /\ hand \in 0..MaxPackets /\ (hand = 0 <=> writer \in {"select", "stopped"})
  /\ conn \in {0} \cup Conns /\ dialed \in Conns
  /\ net \in [Conns -> {"none", "open", "broken", "closed"}]
  /\ watch \in [Conns -> {"off", "read", "report", "done"}]
  /\ closer \in {"none", "conn", "forget", "errors", "done"}
  /\ stop \in BOOLEAN /\ crashed \in BOOLEAN
  /\ ToSet(received) \cup lost \subseteq 1..MaxPackets

\* A reconnect neither drops, doubles nor reorders packets: what was received,
\* what is in hand and what waits are, in this order, the packets sent without
\* those the kernel took for a service that was gone.
OrderKept ==
  LET line == received \o (IF hand = 0 THEN <<>> ELSE <<hand>>) \o queue
  IN /\ \A i, j \in DOMAIN line : i < j => line[i] < line[j]
     /\ ToSet(line) = (1..sent) \ lost

(***************************************************************************)
(* The connection is an ordered line: packets wait in writePacket and in   *)
(* the channel.                                                            *)
(***************************************************************************)
Line == (IF hand = 0 THEN <<>> ELSE <<hand>>) \o queue

OL == INSTANCE OrderedLine
        WITH accepted <- sent, line <- Line, arrived <- received, gone <- lost

\* Refinement: through any reconnects, retries and Close, packets leave one by
\* one, each once, and only the one that is written can be lost.
ImplementsOrderedLine == OL!Spec

\* While the Logger is not closed, a connection that was replaced is closed and
\* its watch has ended: reconnecting leaks neither sockets nor goroutines.
OldConnectionsEnd ==
  closer = "none" => \A n \in 1..dialed : n # conn => net[n] = "closed" /\ watch[n] = "done"

\* syslog.go:5 "reliably reconnects on failure": a packet that waits is written
\* in the end, whichever way the connection fails meanwhile.
QueuedIsWritten ==
  \A p \in 1..MaxPackets :
    p \in ToSet(queue) ~> p \in ToSet(received) \cup lost \/ closer # "none"

\* After Close writeLoop ends, wherever it was, unless the process died.
CloseStopsWriter == closer # "none" ~> writer = "stopped" \/ crashed

\* README.md:228 "Disconnects a log drain from forwarding.": closing a drain
\* does not end the process.
CloseKeepsProcess == ~crashed

\* drains.go:96 "we should erase the drains and close them out at this point.":
\* when Close and writeLoop are over, no connection is open.
ClosedLeavesNoConnection ==
  closer = "done" /\ writer = "stopped" => \A n \in 1..dialed : net[n] = "closed"

\* syslog.go:26 "watch watches the connection for error, sends detected error to
\* c.errors": somebody receives it, and the goroutine ends.
DetectedErrorIsSent ==
  \A n \in Conns : watch[n] = "report" ~> watch[n] = "done" \/ crashed
=============================================================================
