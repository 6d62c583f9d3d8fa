------------------------------ MODULE HttpDrain -----------------------------
(***************************************************************************)
(* The pool of an http(s) destination, drains/httpdrain.go.  writeLoop     *)
(* takes packets from an unbuffered channel into a buffer; Flush posts the *)
(* whole buffer as one Logplex frame.  Flush is run by the three-second    *)
(* ticker of drains.Init and by goroutines that writeLoop starts when the  *)
(* buffer is long.  The mutex is held during the POST; the flags draining  *)
(* and closed are read without it.                                         *)
(*                                                                         *)
(* Packets are the numbers 1, 2, ... in the order the forwarders hand them *)
(* to the channel.                                                         *)
(***************************************************************************)
EXTENDS Naturals, FiniteSets, SequencesExt

CONSTANTS
  Threshold,   \* more buffered packets than this start a flush (64)
  Ticker,      \* the flush ticker
  Spawned,     \* the goroutines `go l.Flush()' can start
  MaxPackets   \* bound: how many packets the forwarders send

ASSUME ThresholdNat == Threshold \in Nat
ASSUME TickerNotSpawned == Ticker \notin Spawned
ASSUME MaxPacketsNat == MaxPackets \in Nat

\* One goroutine for each packet beyond the threshold: the bound never binds.
ASSUME EnoughFlushers ==
  IsFiniteSet(Spawned) /\ Cardinality(Spawned) + Threshold >= MaxPackets

Flushers == Spawned \cup {Ticker}

VARIABLES
  sent,       \* how many packets the channel took
  writer,     \* where writeLoop is
  buffered,   \* the packets to post
  closed,     \* Close was called
  draining,   \* a Flush is at work
  mutex,      \* locked across steps, by the Flush that is in it
  flusher,    \* flusher[f]: where the Flush of f is
  batch,      \* batch[f]: the packets of the POST of f
  delivered,  \* the packets of the POSTs that succeeded, in order
  failed,     \* the packets of the POSTs that did not
  discarded   \* the packet that writeLoop dropped when it saw closed

senderVars == <<sent, writer, discarded>>
flushVars == <<draining, mutex, flusher, batch, delivered, failed>>
vars == <<senderVars, flushVars, buffered, closed>>

Init ==
  /\ sent = 0
  /\ writer = "recv"
  /\ buffered = <<>>
  /\ closed = FALSE
  /\ draining = FALSE
  /\ mutex = FALSE
  /\ flusher = [f \in Flushers |-> "off"]
  /\ batch = [f \in Flushers |-> <<>>]
  /\ delivered = <<>>
  /\ failed = {}
  /\ discarded = {}

(***************************************************************************)
(* writeLoop.                                                              *)
(***************************************************************************)
\* A forwarder hands packet sent + 1 over; the channel has no buffer.
Receive ==
  /\ writer = "recv"
  /\ sent < MaxPackets
  /\ sent' = sent + 1
  /\ writer' = "check"
  /\ UNCHANGED <<discarded, flushVars, buffered, closed>>

\* The drain was closed: the packet is dropped and nobody receives any more.
WriterStops ==
  /\ writer = "check"
  /\ closed
  /\ writer' = "stopped"
  /\ discarded' = {sent}
  /\ UNCHANGED <<sent, flushVars, buffered, closed>>

WriterGoesOn ==
  /\ writer = "check"
  /\ ~closed
  /\ writer' = "append"
  /\ UNCHANGED <<sent, discarded, flushVars, buffered, closed>>

AppendPacket ==
  /\ writer = "append"
  /\ ~mutex
  /\ buffered' = Append(buffered, sent)
  /\ writer' = "len"
  /\ UNCHANGED <<sent, discarded, flushVars, closed>>

\* The length is read after the mutex was released.
StartFlush ==
  /\ writer = "len"
  /\ Len(buffered) > Threshold
  /\ \E f \in Spawned : /\ flusher[f] = "off"
                        /\ flusher' = [flusher EXCEPT ![f] = "enter"]
  /\ writer' = "recv"
  /\ UNCHANGED <<sent, discarded, buffered, closed, draining, mutex, batch, delivered, failed>>

NoFlush ==
  /\ writer = "len"
  /\ Len(buffered) <= Threshold
  /\ writer' = "recv"
  /\ UNCHANGED <<sent, discarded, flushVars, buffered, closed>>

(***************************************************************************)
(* Flush.                                                                  *)
(***************************************************************************)
Goto(f, place) == flusher' = [flusher EXCEPT ![f] = place]

Tick ==
  /\ flusher[Ticker] = "off"
  /\ Goto(Ticker, "enter")
  /\ UNCHANGED <<senderVars, buffered, closed, draining, mutex, batch, delivered, failed>>

FlushSkipped(f) ==
  /\ flusher[f] = "enter"
  /\ draining \/ closed
  /\ Goto(f, "off")
  /\ UNCHANGED <<senderVars, buffered, closed, draining, mutex, batch, delivered, failed>>

FlushWaits(f) ==
  /\ flusher[f] = "enter"
  /\ ~draining /\ ~closed
  /\ Goto(f, "lock")
  /\ UNCHANGED <<senderVars, buffered, closed, draining, mutex, batch, delivered, failed>>

\* Mutant: a Flush does not wait for the one that is posting.
FlushLocks_unlocked(f) ==
  /\ flusher[f] = "lock"
  /\ mutex' = TRUE
  /\ draining' = TRUE
  /\ Goto(f, "locked")
  /\ UNCHANGED <<senderVars, buffered, closed, batch, delivered, failed>>

FlushLocks(f) ==
  /\ flusher[f] = "lock"
  /\ ~mutex
  /\ mutex' = TRUE
  /\ draining' = TRUE
  /\ Goto(f, "locked")
  /\ UNCHANGED <<senderVars, buffered, closed, batch, delivered, failed>>

\* Mutant: the early return of an empty buffer leaves draining set.
FlushEmpty_draining(f) ==
  /\ flusher[f] = "locked"
  /\ buffered = <<>>
  /\ mutex' = FALSE
  /\ Goto(f, "off")
  /\ UNCHANGED <<senderVars, buffered, closed, draining, batch, delivered, failed>>

FlushEmpty(f) ==
  /\ flusher[f] = "locked"
  /\ buffered = <<>>
  /\ draining' = FALSE
  /\ mutex' = FALSE
  /\ Goto(f, "off")
  /\ UNCHANGED <<senderVars, buffered, closed, batch, delivered, failed>>

\* Mutant: the buffer is posted and not emptied.
FlushPosts_keep(f) ==
  /\ flusher[f] = "locked"
  /\ buffered # <<>>
  /\ batch' = [batch EXCEPT ![f] = buffered]
  /\ Goto(f, "post")
  /\ UNCHANGED <<senderVars, buffered, closed, draining, mutex, delivered, failed>>

\* The frame is built, the buffer emptied, and the request sent.
FlushPosts(f) ==
  /\ flusher[f] = "locked"
  /\ buffered # <<>>
  /\ batch' = [batch EXCEPT ![f] = buffered]
  /\ buffered' = <<>>
  /\ Goto(f, "post")
  /\ UNCHANGED <<senderVars, closed, draining, mutex, delivered, failed>>

\* Mutant: any error of a POST puts its packets back in the buffer, and the
\* endpoint may have them: it is the answer that was lost.
FlushReturns_retried(f) ==
  /\ flusher[f] = "post"
  /\ delivered' = delivered \o batch[f]
  /\ \/ UNCHANGED buffered
     \/ buffered' = batch[f] \o buffered
  /\ batch' = [batch EXCEPT ![f] = <<>>]
  /\ draining' = FALSE
  /\ mutex' = FALSE
  /\ Goto(f, "off")
  /\ UNCHANGED <<senderVars, failed, closed>>

\* The endpoint answers, or the request fails: either way the batch is gone.
FlushReturns(f) ==
  /\ flusher[f] = "post"
  /\ \/ delivered' = delivered \o batch[f] /\ UNCHANGED failed
     \/ failed' = failed \cup ToSet(batch[f]) /\ UNCHANGED delivered
  /\ batch' = [batch EXCEPT ![f] = <<>>]
  /\ draining' = FALSE
  /\ mutex' = FALSE
  /\ Goto(f, "off")
  /\ UNCHANGED <<senderVars, buffered, closed>>

\* The last route of the destination was removed, or the process shuts down.
Close ==
  /\ ~closed
  /\ closed' = TRUE
  /\ UNCHANGED <<senderVars, flushVars, buffered>>

(***************************************************************************)
(* The specification.                                                      *)
(***************************************************************************)
Writer == WriterStops \/ WriterGoesOn \/ StartFlush \/ NoFlush

Flush(f) == FlushSkipped(f) \/ FlushWaits(f) \/ FlushEmpty(f) \/ FlushPosts(f)

Next == \/ Receive \/ Writer \/ AppendPacket
        \/ Tick
        \/ \E f \in Flushers : Flush(f) \/ FlushLocks(f) \/ FlushReturns(f)
        \/ Close

Spec == Init /\ [][Next]_vars

\* Goroutines run, the ticker ticks, and the mutex is handed to a starving
\* waiter.  Nothing is assumed of the endpoint: the client has no timeout.
LocalFairness ==
  /\ WF_vars(Writer) /\ SF_vars(AppendPacket) /\ WF_vars(Tick)
  /\ \A f \in Flushers : WF_vars(Flush(f)) /\ SF_vars(FlushLocks(f))

SilentSpec == Spec /\ LocalFairness

\* Here the endpoint answers each request or the connection breaks.
FairSpec == SilentSpec /\ \A f \in Flushers : WF_vars(FlushReturns(f))

(***************************************************************************)
(* Properties.                                                             *)
(***************************************************************************)
\* The variables have their types, and a flusher past Lock holds the mutex.
TypeOK ==
  /\ sent \in 0..MaxPackets
  /\ writer \in {"recv", "check", "append", "len", "stopped"}
  /\ closed \in BOOLEAN /\ draining \in BOOLEAN /\ mutex \in BOOLEAN
  /\ flusher \in [Flushers -> {"off", "enter", "lock", "locked", "post"}]
  /\ mutex <=> \E f \in Flushers : flusher[f] \in {"locked", "post"}
  /\ batch \in [Flushers -> Seq(1..MaxPackets)]
  /\ buffered \in Seq(1..MaxPackets) /\ delivered \in Seq(1..MaxPackets)
  /\ failed \subseteq 1..MaxPackets /\ discarded \subseteq 1..MaxPackets

\* The packet writeLoop has in hand.
InHand == IF writer \in {"check", "append"} THEN {sent} ELSE {}

\* Every packet the channel took is in exactly one place, whoever flushes: in
\* hand, in the buffer, in the POST under way, delivered, or lost with a failed
\* POST (the mutex around the append and around the hand-over of the buffer).
EachPacketOnce ==
  LET places == <<InHand, ToSet(buffered), UNION {ToSet(batch[f]) : f \in Flushers},
                  ToSet(delivered), failed, discarded>>
  IN /\ UNION ToSet(places) = 1..sent
     /\ \A i, j \in DOMAIN places : i # j => places[i] \cap places[j] = {}

\* shuttle_test.go "(and in order)": frames reach the endpoint, and packets sit
\* in them, in the order the channel took them, with any number of Flush calls.
DeliveredInOrder ==
  \A f \in Flushers :
    LET line == delivered \o batch[f] \o buffered
    IN \A i, j \in DOMAIN line : i < j => line[i] < line[j]

(***************************************************************************)
(* The pool is an ordered line: accepted are the packets for which         *)
(* writeLoop did not find the pool closed; they wait in the POST, in the   *)
(* buffer, or in the hand of writeLoop.                                    *)
(***************************************************************************)
Accepted == IF writer = "check" \/ discarded # {} THEN sent - 1 ELSE sent

Posting ==
  IF \E f \in Flushers : flusher[f] = "post"
    THEN batch[CHOOSE f \in Flushers : flusher[f] = "post"]
    ELSE <<>>

Line == Posting \o buffered \o (IF writer = "append" THEN <<sent>> ELSE <<>>)

OL == INSTANCE OrderedLine
        WITH accepted <- Accepted, line <- Line, arrived <- delivered, gone <- failed

\* Refinement: however many flushes run, a POST takes the packets that have
\* waited longest, all of them, and they go once; a failed POST loses just its own.
ImplementsOrderedLine == OL!Spec

\* draining is set exactly while a Flush holds the mutex: it is never left set,
\* which would turn every later Flush into an early return.
DrainingMeansFlushing == draining <=> mutex

\* A packet the drain took is posted in the end, unless the drain is closed:
\* a Flush that returns early because of draining does not lose the wakeup.
TakenIsPosted ==
  \A p \in 1..MaxPackets :
    p \in ToSet(buffered) ~> p \in ToSet(delivered) \cup failed \/ closed

\* logshuttle-server.go:176 "we need to hear about interrupt signals to safely
\* close the kafka channel, flush syslogs, etc..": what was buffered when the
\* drain was closed is posted.
ClosedIsFlushed == closed ~> buffered = <<>>

\* shuttle_test.go:197 "Ensure failure of bad routes did not prevent messages
\* from routing": writeLoop comes back for the next packet while it is not
\* closed, so that forwarders go on to the other destinations.
WriterComesBack == writer = "append" ~> writer = "recv"
=============================================================================
