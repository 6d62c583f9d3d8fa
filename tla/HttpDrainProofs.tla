--------------------------- MODULE HttpDrainProofs --------------------------
(***************************************************************************)
(* Proofs about the pool of an http(s) destination: for any threshold, any *)
(* number of flushes at once and any number of packets, each packet is in  *)
(* one place, and they reach the endpoint in order.                        *)
(***************************************************************************)
EXTENDS HttpDrain, PacketLines

(***************************************************************************)
(* The inductive invariant.                                                *)
(***************************************************************************)
Inside(f) == flusher[f] \in {"locked", "post"}

\* The mutex keeps the flushes apart.
OneInside == \A f, g \in Flushers : Inside(f) /\ Inside(g) => f = g

BatchesPosted == \A f \in Flushers : flusher[f] # "post" => batch[f] = <<>>

Buffered == ToSet(buffered)
Posted == UNION {ToSet(batch[f]) : f \in Flushers}
Arrived == ToSet(delivered)

\* EachPacketOnce, place by place.
Covered == InHand \cup Buffered \cup Posted \cup Arrived \cup failed \cup discarded = 1..sent

Apart ==
  /\ \A A \in {Buffered, Posted, Arrived, failed, discarded} : InHand \cap A = {}
  /\ \A A \in {Posted, Arrived, failed, discarded} : Buffered \cap A = {}
  /\ \A A \in {Arrived, failed, discarded} : Posted \cap A = {}
  /\ \A A \in {failed, discarded} : Arrived \cap A = {}
  /\ failed \cap discarded = {}

Discards == writer # "stopped" => discarded = {}

\* DeliveredInOrder, place by place.
InOrder ==
  /\ Sorted(buffered) /\ Sorted(delivered) /\ \A f \in Flushers : Sorted(batch[f])
  /\ Precede(Arrived, Posted) /\ Precede(Arrived, Buffered) /\ Precede(Posted, Buffered)

(***************************************************************************)
(* Types and locks: only a Flush that holds the mutex is past Lock, and it *)
(* is alone.                                                               *)
(***************************************************************************)
Outside == {"off", "enter", "lock"}

LockVarsTyped ==
  /\ draining \in BOOLEAN /\ mutex \in BOOLEAN
  /\ flusher \in [Flushers -> {"off", "enter", "lock", "locked", "post"}]
  /\ batch \in [Flushers -> Seq(1..MaxPackets)]

Locks ==
  /\ LockVarsTyped
  /\ mutex <=> \E f \in Flushers : Inside(f)
  /\ OneInside /\ DrainingMeansFlushing /\ BatchesPosted

LEMMA LocksUnchanged ==
  ASSUME Locks, UNCHANGED <<draining, mutex, flusher, batch>>
  PROVE  Locks'
BY DEF Locks, LockVarsTyped, OneInside, Inside, DrainingMeansFlushing, BatchesPosted

LEMMA LocksOutside ==
  ASSUME Locks, NEW f \in Flushers, NEW place \in Outside, flusher[f] \in Outside, Goto(f, place),
         UNCHANGED <<draining, mutex, batch>>
  PROVE  Locks'
<1>1. LockVarsTyped'  BY DEF Locks, LockVarsTyped, Goto, Outside
<1>2. \A g \in Flushers : Inside(g)' <=> Inside(g)
  BY DEF Locks, LockVarsTyped, Goto, Outside, Inside
<1>3. BatchesPosted'
  BY DEF Locks, LockVarsTyped, Goto, Outside, BatchesPosted
<1> QED  BY <1>1, <1>2, <1>3 DEF Locks, OneInside, DrainingMeansFlushing

LEMMA LocksFlush ==
  ASSUME Locks, buffered \in Seq(1..MaxPackets), NEW f \in Flushers,
         FlushLocks(f) \/ FlushEmpty(f) \/ FlushPosts(f) \/ FlushReturns(f)
  PROVE  Locks'
<1> USE DEF Locks, LockVarsTyped, Goto
<1>1. CASE FlushLocks(f)
  <2>1. LockVarsTyped'  BY <1>1 DEF FlushLocks
  <2>2. \A g \in Flushers : ~Inside(g)  BY <1>1 DEF FlushLocks
  <2>3. \A g \in Flushers : Inside(g)' <=> g = f
    BY <1>1, <2>2 DEF FlushLocks, Inside
  <2>4. BatchesPosted'  BY <1>1 DEF FlushLocks, BatchesPosted
  <2>5. mutex' /\ draining'  BY <1>1 DEF FlushLocks
  <2> QED  BY <2>1, <2>3, <2>4, <2>5 DEF OneInside, DrainingMeansFlushing
<1>2. CASE FlushPosts(f)
  <2>1. LockVarsTyped'  BY <1>2 DEF FlushPosts
  <2>2. \A g \in Flushers : Inside(g)' <=> Inside(g)
    BY <1>2 DEF FlushPosts, Inside
  <2>3. BatchesPosted'  BY <1>2 DEF FlushPosts, BatchesPosted
  <2>4. UNCHANGED <<mutex, draining>>  BY <1>2 DEF FlushPosts
  <2> QED  BY <2>1, <2>2, <2>3, <2>4 DEF OneInside, DrainingMeansFlushing
<1>3. CASE FlushEmpty(f) \/ FlushReturns(f)
  <2>1. LockVarsTyped'
    <3>1. <<>> \in Seq(1..MaxPackets)  OBVIOUS
    <3> QED  BY <1>3, <3>1 DEF FlushEmpty, FlushReturns
  <2>2. Inside(f)  BY <1>3 DEF FlushEmpty, FlushReturns, Inside
  <2>3. \A g \in Flushers : ~Inside(g)'
    BY <1>3, <2>2 DEF FlushEmpty, FlushReturns, Inside, OneInside
  <2>4. BatchesPosted'  BY <1>3 DEF FlushEmpty, FlushReturns, BatchesPosted
  <2>5. ~mutex' /\ ~draining'  BY <1>3 DEF FlushEmpty, FlushReturns
  <2> QED  BY <2>1, <2>3, <2>4, <2>5 DEF OneInside, DrainingMeansFlushing
<1> QED  BY <1>1, <1>2, <1>3

LEMMA LocksNext ==
  ASSUME Locks, buffered \in Seq(1..MaxPackets), [Next]_vars
  PROVE  Locks'
<1>1. CASE Receive \/ WriterStops \/ WriterGoesOn \/ AppendPacket \/ NoFlush \/ Close
  BY <1>1, LocksUnchanged
  DEF Receive, WriterStops, WriterGoesOn, AppendPacket, NoFlush, Close, flushVars
<1>2. CASE StartFlush
  BY <1>2, LocksOutside DEF StartFlush, Goto, Outside, Flushers
<1>3. CASE Tick
  BY <1>3, LocksOutside DEF Tick, Outside, Flushers
<1>4. ASSUME NEW f \in Flushers, FlushSkipped(f) \/ FlushWaits(f)  PROVE Locks'
  BY <1>4, LocksOutside DEF FlushSkipped, FlushWaits, Outside
<1>5. ASSUME NEW f \in Flushers, FlushLocks(f) \/ FlushEmpty(f) \/ FlushPosts(f) \/ FlushReturns(f)
      PROVE  Locks'
  BY <1>5, LocksFlush
<1>6. CASE UNCHANGED vars
  BY <1>6, LocksUnchanged DEF vars, flushVars
<1> QED  BY <1>1, <1>2, <1>3, <1>4, <1>5, <1>6 DEF Next, Writer, Flush

(***************************************************************************)
(* Places: where the packets are.                                          *)
(***************************************************************************)
ValuesTyped ==
  /\ sent \in 0..MaxPackets
  /\ writer \in {"recv", "check", "append", "len", "stopped"}
  /\ closed \in BOOLEAN
  /\ buffered \in Seq(1..MaxPackets) /\ delivered \in Seq(1..MaxPackets)
  /\ failed \subseteq 1..MaxPackets /\ discarded \subseteq 1..MaxPackets
  /\ InHand \subseteq 1..MaxPackets

Places == ValuesTyped /\ Covered /\ Apart /\ Discards /\ InOrder

IInv == Locks /\ Places

\* The pool after Dial.
LEMMA InitIInv == Init => IInv
<1> SUFFICES ASSUME Init  PROVE IInv  OBVIOUS
<1> USE DEF Init
<1>1. Buffered = {} /\ Arrived = {} /\ Posted = {} /\ InHand = {}
  BY ToSetEmpty DEF Buffered, Arrived, Posted, InHand
<1>2. <<>> \in Seq(1..MaxPackets) /\ sent \in 0..MaxPackets  BY MaxPacketsNat
<1>3. Locks
  BY <1>2 DEF Locks, LockVarsTyped, OneInside, Inside, DrainingMeansFlushing, BatchesPosted
<1>4. ValuesTyped  BY <1>1, <1>2, Zenon DEF ValuesTyped
<1>5. Covered /\ Apart /\ Discards  BY <1>1 DEF Covered, Apart, Discards
<1>6. InOrder  BY <1>1 DEF InOrder, Sorted, Precede
<1> QED  BY <1>3, <1>4, <1>5, <1>6 DEF IInv, Places

\* The packets being posted are those of the one Flush that is posting.
LEMMA PostedByOne ==
  ASSUME Locks, NEW f \in Flushers, Inside(f)
  PROVE  /\ Posted = ToSet(batch[f])
         /\ flusher[f] = "locked" => Posted = {}
<1>1. \A g \in Flushers \ {f} : batch[g] = <<>>
  BY DEF Locks, OneInside, BatchesPosted, Inside
<1>2. Posted = ToSet(batch[f])
  BY <1>1, ToSetEmpty, Zenon DEF Posted
<1>3. flusher[f] = "locked" => batch[f] = <<>>  BY DEF Locks, BatchesPosted
<1> QED  BY <1>2, <1>3, ToSetEmpty, Zenon

\* A step that moves no packet keeps all of them where they are.
LEMMA PlacesUnchanged ==
  ASSUME Places, UNCHANGED <<sent, buffered, batch, delivered, failed, discarded, InHand>>,
         writer' \in {"recv", "check", "append", "len", "stopped"}, closed' \in BOOLEAN,
         writer = "stopped" => writer' = "stopped"
  PROVE  Places'
BY DEF Places, ValuesTyped, Covered, Apart, Discards, InOrder, Buffered, Posted, Arrived

\* The channel takes the next packet.
LEMMA PlacesReceive ==
  ASSUME Places, Receive
  PROVE  Places'
<1>1. InHand = {} /\ InHand' = {sent + 1} /\ sent' = sent + 1
  BY DEF Receive, InHand
<1>2. UNCHANGED <<buffered, batch, delivered, failed, discarded, closed, Buffered, Posted, Arrived>>
  BY DEF Receive, flushVars, Buffered, Posted, Arrived
<1>3. ValuesTyped'
  BY <1>1, <1>2, MaxPacketsNat DEF Receive, Places, ValuesTyped
<1>4. Covered'
  BY <1>1, <1>2 DEF Places, Covered, ValuesTyped
<1>5. Apart'
  BY <1>1, <1>2 DEF Places, Covered, Apart, ValuesTyped
<1>6. Discards' /\ InOrder'
  BY <1>2 DEF Places, Discards, InOrder, Receive
<1> QED  BY <1>3, <1>4, <1>5, <1>6 DEF Places

LEMMA PlacesStops ==
  ASSUME Places, WriterStops
  PROVE  Places'
<1>1. InHand = {sent} /\ InHand' = {} /\ discarded = {} /\ discarded' = {sent}
  BY DEF WriterStops, InHand, Places, Discards
<1>2. UNCHANGED <<sent, buffered, batch, delivered, failed, closed, Buffered, Posted, Arrived>>
  BY DEF WriterStops, flushVars, Buffered, Posted, Arrived
<1>3. ValuesTyped'
  BY <1>1, <1>2 DEF WriterStops, Places, ValuesTyped
<1>4. Covered' /\ Apart'
  BY <1>1, <1>2 DEF Places, Covered, Apart
<1>5. Discards' /\ InOrder'
  BY <1>2 DEF Places, Discards, InOrder, WriterStops
<1> QED  BY <1>3, <1>4, <1>5 DEF Places

\* The packet in hand goes behind those that are buffered.
LEMMA PlacesAppend ==
  ASSUME Places, AppendPacket
  PROVE  Places'
<1>1. InHand = {sent} /\ InHand' = {}
  BY DEF AppendPacket, InHand
<1>2. UNCHANGED <<sent, batch, delivered, failed, discarded, closed, Posted, Arrived>>
  BY DEF AppendPacket, flushVars, Posted, Arrived
<1>3. sent \in 1..MaxPackets /\ sent \in Nat /\ buffered \in Seq(Nat)
  BY <1>1, MaxPacketsNat DEF Places, ValuesTyped
<1>4. buffered' = Append(buffered, sent)  BY DEF AppendPacket
<1>5. Buffered' = Buffered \cup {sent}
  BY <1>3, <1>4, ToSetAppend DEF Buffered
<1>6. ValuesTyped'
  BY <1>1, <1>2, <1>3, <1>4 DEF AppendPacket, Places, ValuesTyped
<1>7. Covered' /\ Apart'
  BY <1>1, <1>2, <1>5 DEF Places, Covered, Apart
<1>8. \A x \in Buffered \cup Posted \cup Arrived : x < sent
  BY <1>1, <1>3 DEF Places, Covered, Apart
<1>9. Sorted(buffered')
  BY <1>3, <1>4, <1>8, SortedAppend DEF Places, InOrder, Buffered
<1>10. InOrder'
  BY <1>2, <1>5, <1>8, <1>9 DEF Places, InOrder, Precede
<1>11. Discards'  BY DEF AppendPacket, Places, Discards
<1> QED  BY <1>6, <1>7, <1>10, <1>11 DEF Places
\* The buffer becomes the batch of f: no other batch is under way.
LEMMA PlacesPosts ==
  ASSUME Places, Locks, NEW f \in Flushers, FlushPosts(f)
  PROVE  Places'
<1>1. /\ UNCHANGED <<sent, writer, delivered, failed, discarded, closed, Arrived, InHand>>
      /\ buffered' = <<>> /\ batch' = [batch EXCEPT ![f] = buffered]
  BY DEF FlushPosts, senderVars, Arrived, InHand
<1>2. Posted = {}  BY PostedByOne DEF FlushPosts, Inside
<1>3. Locks'  BY LocksFlush DEF Places, ValuesTyped
<1>4. Inside(f)'  BY DEF FlushPosts, Goto, Inside, Locks, LockVarsTyped
<1>5. Posted' = ToSet(batch'[f])
  <2>1. \A g \in Flushers \ {f} : batch'[g] = <<>>
    BY <1>3, <1>4 DEF Locks, OneInside, BatchesPosted, Inside
  <2> QED  BY <2>1, ToSetEmpty, Zenon DEF Posted
<1>6. batch'[f] = buffered  BY <1>1 DEF Locks, LockVarsTyped
<1>7. Posted' = Buffered /\ Buffered' = {}
  BY <1>1, <1>5, <1>6, ToSetEmpty DEF Buffered
<1>8. ValuesTyped'
  <2>1. <<>> \in Seq(1..MaxPackets)  OBVIOUS
  <2> QED  BY <1>1, <2>1, Zenon DEF Places, ValuesTyped
<1>9. Covered' /\ Apart' /\ Discards'
  BY <1>1, <1>2, <1>7 DEF Places, Covered, Apart, Discards
<1>10. Sorted(buffered') /\ \A g \in Flushers : Sorted(batch'[g])
  BY <1>1 DEF Places, InOrder, Sorted, Locks, LockVarsTyped
<1>11. InOrder'
  BY <1>1, <1>2, <1>7, <1>10 DEF Places, InOrder, Precede
<1> QED  BY <1>8, <1>9, <1>11 DEF Places

\* The batch of f arrived behind all that did before, or failed.
LEMMA PlacesReturns ==
  ASSUME Places, Locks, NEW f \in Flushers, FlushReturns(f)
  PROVE  Places'
<1>1. /\ UNCHANGED <<sent, writer, buffered, discarded, closed, Buffered, InHand>>
      /\ batch' = [batch EXCEPT ![f] = <<>>]
  BY DEF FlushReturns, senderVars, Buffered, InHand
<1>2. Posted = ToSet(batch[f])  BY PostedByOne DEF FlushReturns, Inside
<1>3. Locks'  BY LocksFlush DEF Places, ValuesTyped
<1>4. Posted' = {}
  <2>1. \A g \in Flushers : flusher'[g] # "post"
    BY DEF FlushReturns, Goto, Inside, Locks, LockVarsTyped, OneInside
  <2>2. \A g \in Flushers : batch'[g] = <<>>
    BY <1>3, <2>1 DEF Locks, BatchesPosted
  <2> QED  BY <2>2, ToSetEmpty, Zenon DEF Posted
<1>5. /\ batch[f] \in Seq(1..MaxPackets) /\ delivered \in Seq(1..MaxPackets)
      /\ batch[f] \in Seq(Nat) /\ delivered \in Seq(Nat)
  BY MaxPacketsNat DEF Places, ValuesTyped, Locks, LockVarsTyped
<1>6. \A g \in Flushers : Sorted(batch'[g])
  BY <1>1 DEF Places, InOrder, Sorted, Locks, LockVarsTyped
<1>7. CASE delivered' = delivered \o batch[f] /\ UNCHANGED failed
  <2>1. Arrived' = Arrived \cup Posted
    BY <1>2, <1>5, <1>7, ToSetConcat DEF Arrived
  <2>2. delivered' \in Seq(1..MaxPackets)  BY <1>5, <1>7
  <2>3. ValuesTyped'  BY <1>1, <1>7, <2>2 DEF Places, ValuesTyped
  <2>4. Covered' /\ Apart' /\ Discards'
    BY <1>1, <1>4, <1>7, <2>1 DEF Places, Covered, Apart, Discards
  <2>5. Sorted(delivered')
    BY <1>2, <1>5, <1>7, SortedConcat DEF Places, InOrder, Arrived
  <2>6. InOrder'
    BY <1>1, <1>4, <1>6, <2>1, <2>5 DEF Places, InOrder, Precede
  <2> QED  BY <2>3, <2>4, <2>6 DEF Places
<1>8. CASE failed' = failed \cup ToSet(batch[f]) /\ UNCHANGED delivered
  <2>1. failed' = failed \cup Posted /\ Arrived' = Arrived  BY <1>2, <1>8 DEF Arrived
  <2>2. Posted \subseteq 1..MaxPackets  BY <1>2, <1>5, ToSetTyped, Zenon
  <2>3. ValuesTyped'  BY <1>1, <1>8, <2>1, <2>2 DEF Places, ValuesTyped
  <2>4. Covered' /\ Apart' /\ Discards'
    BY <1>1, <1>4, <2>1 DEF Places, Covered, Apart, Discards
  <2>5. InOrder'
    BY <1>1, <1>4, <1>6, <1>8, <2>1 DEF Places, InOrder, Precede
  <2> QED  BY <2>3, <2>4, <2>5 DEF Places
<1> QED  BY <1>7, <1>8 DEF FlushReturns

LEMMA NextIInv == IInv /\ [Next]_vars => IInv'
<1> SUFFICES ASSUME Locks, Places, [Next]_vars  PROVE Locks' /\ Places'
  BY DEF IInv
<1> USE DEF flushVars, senderVars, Goto
<1>1. Locks'  BY LocksNext DEF Places, ValuesTyped
<1> SUFFICES Places'  BY <1>1
<1>2. CASE Receive  BY <1>2, PlacesReceive
<1>3. CASE WriterStops  BY <1>3, PlacesStops
<1>4. CASE AppendPacket  BY <1>4, PlacesAppend
<1>5. CASE WriterGoesOn \/ NoFlush \/ StartFlush
  <2>1. /\ UNCHANGED <<sent, buffered, batch, delivered, failed, discarded, closed, InHand>>
        /\ writer' \in {"append", "recv"} /\ writer # "stopped"
    BY <1>5 DEF WriterGoesOn, NoFlush, StartFlush, InHand
  <2> QED  BY <2>1, PlacesUnchanged DEF Places, ValuesTyped
<1>6. CASE Tick \/ \E f \in Flushers : FlushSkipped(f) \/ FlushWaits(f) \/ FlushLocks(f) \/ FlushEmpty(f)
  <2>1. UNCHANGED <<sent, writer, buffered, batch, delivered, failed, discarded, closed, InHand>>
    BY <1>6 DEF Tick, FlushSkipped, FlushWaits, FlushLocks, FlushEmpty, InHand
  <2> QED  BY <2>1, PlacesUnchanged DEF Places, ValuesTyped
<1>7. ASSUME NEW f \in Flushers, FlushPosts(f)  PROVE Places'
  BY <1>7, PlacesPosts
<1>8. ASSUME NEW f \in Flushers, FlushReturns(f)  PROVE Places'
  BY <1>8, PlacesReturns
<1>9. CASE Close \/ UNCHANGED vars
  <2>1. /\ UNCHANGED <<sent, writer, buffered, batch, delivered, failed, discarded, InHand>>
        /\ closed' \in {TRUE, closed}
    BY <1>9 DEF Close, vars, InHand
  <2> QED  BY <2>1, PlacesUnchanged DEF Places, ValuesTyped
<1> QED
  BY <1>2, <1>3, <1>4, <1>5, <1>6, <1>7, <1>8, <1>9 DEF Next, Writer, Flush

\* The inductive invariant holds, whatever flushes run at once and whether their
\* POSTs succeed (httpdrain.go, Flush and writeLoop).
THEOREM Invariance == Spec => []IInv
BY InitIInv, NextIInv, PTL DEF Spec

(***************************************************************************)
(* What follows.                                                           *)
(***************************************************************************)
\* The variables have their types, and a Flush past Lock holds the mutex.
THEOREM TypeCorrect == Spec => []TypeOK
<1>1. IInv => TypeOK
  BY DEF IInv, Locks, LockVarsTyped, Places, ValuesTyped, TypeOK, Inside
<1> QED  BY <1>1, Invariance, PTL

\* The flag is set exactly while a Flush holds the mutex, with any number of
\* flushes at once.
THEOREM DrainingCorrect == Spec => []DrainingMeansFlushing
<1>1. IInv => DrainingMeansFlushing  BY DEF IInv, Locks
<1> QED  BY <1>1, Invariance, PTL

\* Every packet the channel took is in exactly one place.
THEOREM NoPacketLostOrDoubled == Spec => []EachPacketOnce
<1>1. IInv => EachPacketOnce
  <2> SUFFICES ASSUME IInv  PROVE EachPacketOnce  OBVIOUS
  <2> DEFINE places == <<InHand, Buffered, Posted, Arrived, failed, discarded>>
  <2>1. Covered /\ Apart  BY DEF IInv, Places
  <2>2. /\ DOMAIN places = {1, 2, 3, 4, 5, 6}
        /\ places[1] = InHand /\ places[2] = Buffered /\ places[3] = Posted
        /\ places[4] = Arrived /\ places[5] = failed /\ places[6] = discarded
    OBVIOUS
  <2> HIDE DEF places
  <2>3. UNION ToSet(places) = InHand \cup Buffered \cup Posted \cup Arrived \cup failed \cup discarded
    BY <2>2, Zenon DEF ToSet
  <2> DEFINE indices == {1, 2, 3, 4, 5, 6}
  <2>4. \A i, j \in indices : i # j => places[i] \cap places[j] = {}
    BY <2>1, <2>2 DEF Apart
  <2>5. UNION ToSet(places) = 1..sent  BY <2>1, <2>3 DEF Covered
  <2>6. \A i, j \in DOMAIN places : i # j => places[i] \cap places[j] = {}
    <3>1. DOMAIN places = indices  BY <2>2
    <3> HIDE DEF indices
    <3> QED  BY <2>4, <3>1, Zenon
  <2> QED  BY <2>5, <2>6, Zenon DEF EachPacketOnce, places, Buffered, Posted, Arrived
<1> QED  BY <1>1, Invariance, PTL

\* Packets arrive, and sit in the batch and in the buffer, in the order the
\* channel took them.
THEOREM OrderOfPackets == Spec => []DeliveredInOrder
<1>1. IInv => DeliveredInOrder
  <2> SUFFICES ASSUME IInv, NEW f \in Flushers
               PROVE  Sorted(delivered \o batch[f] \o buffered)
    BY Zenon DEF DeliveredInOrder, Sorted
  <2>1. /\ delivered \in Seq(Nat) /\ batch[f] \in Seq(Nat) /\ buffered \in Seq(Nat)
    BY MaxPacketsNat DEF IInv, Places, ValuesTyped, Locks, LockVarsTyped
  <2>2. InOrder /\ ToSet(batch[f]) \subseteq Posted  BY DEF IInv, Places, Posted
  <2>3. Precede(ToSet(delivered), ToSet(batch[f]))
    BY <2>2 DEF InOrder, Precede, Arrived
  <2>4. delivered \o batch[f] \in Seq(Nat) /\ Sorted(delivered \o batch[f])
    BY <2>1, <2>2, <2>3, SortedConcat DEF InOrder
  <2>5. Precede(ToSet(delivered \o batch[f]), ToSet(buffered))
    <3>1. ToSet(delivered \o batch[f]) = ToSet(delivered) \cup ToSet(batch[f])
      BY <2>1, ToSetConcat
    <3> QED  BY <2>2, <3>1 DEF InOrder, Precede, Arrived, Buffered
  <2> QED  BY <2>1, <2>2, <2>4, <2>5, SortedConcat DEF InOrder
<1> QED  BY <1>1, Invariance, PTL

(***************************************************************************)
(* The refinement of OrderedLine.                                          *)
(***************************************************************************)
Hand == IF writer = "append" THEN <<sent>> ELSE <<>>

\* The POST under way is that of the one Flush that is at it.
PostingFits ==
  /\ \A f \in Flushers : flusher[f] = "post" => Posting = batch[f]
  /\ (\A f \in Flushers : flusher[f] # "post") => Posting = <<>>

LEMMA PostingIs == IInv => PostingFits
<1> SUFFICES ASSUME IInv
             PROVE  \A f \in Flushers : flusher[f] = "post" => Posting = batch[f]
  BY DEF Posting, PostingFits
<1> TAKE f \in Flushers
<1> HAVE flusher[f] = "post"
<1> DEFINE poster == CHOOSE g \in Flushers : flusher[g] = "post"
<1>1. poster \in Flushers /\ flusher[poster] = "post"  BY Zenon
<1>2. poster = f  BY <1>1 DEF IInv, Locks, OneInside, Inside
<1> QED  BY <1>2 DEF Posting

LEMMA PostingIsNext == IInv' => PostingFits'
BY PostingIs, PTL

LEMMA PostingTyped ==
  ASSUME IInv
  PROVE  /\ Posting \in Seq(Nat) /\ buffered \in Seq(Nat) /\ Hand \in Seq(Nat)
         /\ delivered \in Seq(Nat) /\ sent \in Nat
<1>1. /\ buffered \in Seq(Nat) /\ delivered \in Seq(Nat) /\ sent \in Nat
      /\ \A f \in Flushers : batch[f] \in Seq(Nat)
  BY MaxPacketsNat DEF IInv, Places, ValuesTyped, Locks, LockVarsTyped
<1>2. Hand \in Seq(Nat)  BY <1>1 DEF Hand
<1>3. Posting \in Seq(Nat)
  <2>1. CASE \E f \in Flushers : flusher[f] = "post"  BY <2>1, <1>1, PostingIs, Zenon DEF PostingFits
  <2>2. CASE ~\E f \in Flushers : flusher[f] = "post"
    <3>1. Posting = <<>>  BY <2>2, PostingIs DEF PostingFits
    <3> QED  BY <3>1
  <2> QED  BY <2>1, <2>2
<1> QED  BY <1>1, <1>2, <1>3

LEMMA IsLine == Line = (Posting \o buffered) \o Hand
BY DEF Line, Hand

\* A step of a Flush that is not about to post, or was not.
LEMMA PostingStays ==
  ASSUME IInv, IInv', UNCHANGED batch,
         \A f \in Flushers : flusher'[f] = "post" <=> flusher[f] = "post"
  PROVE  UNCHANGED Posting
<1>1. CASE \E f \in Flushers : flusher[f] = "post"  BY <1>1, PostingIs, PostingIsNext, Zenon DEF PostingFits
<1>2. CASE ~\E f \in Flushers : flusher[f] = "post"  BY <1>2, PostingIs, PostingIsNext, Zenon DEF PostingFits
<1> QED  BY <1>1, <1>2

\* The line stays when it is only looked at.
LEMMA LineStays ==
  ASSUME IInv, IInv', UNCHANGED <<sent, batch, buffered, delivered, failed, Accepted, Hand>>,
         \A f \in Flushers : flusher'[f] = "post" <=> flusher[f] = "post"
  PROVE  UNCHANGED OL!lineVars
<1>1. UNCHANGED Posting  BY PostingStays
<1>2. Line' = (Posting' \o buffered') \o Hand'  BY DEF Line, Hand
<1>3. UNCHANGED Line  BY <1>1, <1>2, IsLine
<1> QED  BY <1>3 DEF OL!lineVars

\* writeLoop found the pool open: the packet is accepted.
LEMMA GoesOnAccepts ==
  ASSUME IInv, IInv', WriterGoesOn
  PROVE  OL!Accept
<1>1. /\ writer = "check" /\ writer' = "append" /\ discarded = {}
      /\ UNCHANGED <<sent, discarded, flusher, batch, buffered, delivered, failed>>
  BY DEF WriterGoesOn, flushVars, IInv, Places, Discards
<1>2. Accepted = sent - 1 /\ Accepted' = sent  BY <1>1 DEF Accepted
<1>3. UNCHANGED Posting  BY <1>1, PostingStays
<1>4. Hand = <<>> /\ Hand' = <<sent>>  BY <1>1 DEF Hand
<1>5. sent \in Nat /\ Posting \o buffered \in Seq(Nat)  BY PostingTyped, ConcatProperties
<1>6. Line = Posting \o buffered  BY <1>4, <1>5, IsLine, ConcatEmptySeq
<1>7. Line' = (Posting \o buffered) \o <<sent>>  BY <1>1, <1>3, <1>4 DEF Line, Hand
<1>8. Line' = Append(Line, sent)  BY <1>5, <1>6, <1>7, AppendIsConcat
<1>9. Accepted + 1 = sent /\ Accepted' = Accepted + 1  BY <1>2, <1>5
<1> QED  BY <1>1, <1>8, <1>9 DEF OL!Accept

\* The packet moves from the hand of writeLoop to the buffer.
LEMMA AppendStays ==
  ASSUME IInv, IInv', AppendPacket
  PROVE  UNCHANGED OL!lineVars
<1>1. /\ writer = "append" /\ writer' = "len" /\ buffered' = Append(buffered, sent)
      /\ UNCHANGED <<sent, discarded, flusher, batch, delivered, failed>>
  BY DEF AppendPacket, flushVars
<1>2. UNCHANGED <<Accepted, Posting>>  BY <1>1, PostingStays DEF Accepted
<1>3. Hand = <<sent>> /\ Hand' = <<>>  BY <1>1 DEF Hand
<1>4. /\ Posting \in Seq(Nat) /\ buffered \in Seq(Nat) /\ sent \in Nat /\ <<sent>> \in Seq(Nat)
  BY <1>3, PostingTyped
<1>5. buffered' = buffered \o <<sent>>  BY <1>1, <1>4, AppendIsConcat
<1>6. Posting \o buffered' = (Posting \o buffered) \o <<sent>>
  BY <1>4, <1>5, ConcatAssociative
<1>7. Posting \o buffered' \in Seq(Nat)
  <2>1. buffered' \in Seq(Nat)  BY <1>1, <1>4
  <2> QED  BY <1>4, <2>1, ConcatProperties
<1>8. Line' = (Posting \o buffered') \o <<>>  BY <1>2, <1>3 DEF Line, Hand
<1>9. Line' = Posting \o buffered'  BY <1>7, <1>8, ConcatEmptySeq
<1>10. UNCHANGED Line  BY <1>3, <1>6, <1>9, IsLine
<1> QED  BY <1>1, <1>2, <1>10 DEF OL!lineVars

\* Flush moves the whole buffer to its POST.
LEMMA PostsStays ==
  ASSUME IInv, IInv', NEW f \in Flushers, FlushPosts(f)
  PROVE  UNCHANGED OL!lineVars
<1>1. /\ flusher[f] = "locked" /\ flusher'[f] = "post"
      /\ batch'[f] = buffered /\ buffered' = <<>>
      /\ UNCHANGED <<sent, writer, discarded, delivered, failed>>
  BY DEF FlushPosts, Goto, senderVars, IInv, Locks, LockVarsTyped
<1>2. UNCHANGED <<Accepted, Hand>>  BY <1>1 DEF Accepted, Hand
<1>3. Posting = <<>>
  <2>1. \A g \in Flushers : flusher[g] # "post"
    BY <1>1 DEF IInv, Locks, OneInside, Inside
  <2> QED  BY <2>1, PostingIs DEF PostingFits
<1>4. Posting' = buffered  BY <1>1, PostingIsNext DEF PostingFits
<1>5. <<>> \o buffered = buffered /\ buffered \o <<>> = buffered
  BY PostingTyped, ConcatEmptySeq
<1>6. Line' = (Posting' \o buffered') \o Hand'  BY DEF Line, Hand
<1>7. UNCHANGED Line  BY <1>1, <1>2, <1>3, <1>4, <1>5, <1>6, IsLine
<1> QED  BY <1>1, <1>2, <1>7 DEF OL!lineVars

\* A POST that is over takes the packets of its batch, the first of the line.
LEMMA ReturnsDelivers ==
  ASSUME IInv, IInv', NEW f \in Flushers, FlushReturns(f)
  PROVE  OL!Next \/ UNCHANGED OL!lineVars
<1> DEFINE rest == buffered \o Hand
           n == Len(batch[f])
<1>1. /\ flusher[f] = "post" /\ flusher'[f] = "off"
      /\ \A g \in Flushers \ {f} : flusher'[g] = flusher[g]
      /\ UNCHANGED <<sent, writer, discarded, buffered>>
  BY DEF FlushReturns, Goto, senderVars, IInv, Locks, LockVarsTyped
<1>2. UNCHANGED <<Accepted, Hand>>  BY <1>1 DEF Accepted, Hand
<1>3. Posting = batch[f]  BY <1>1, PostingIs DEF PostingFits
<1>4. Posting' = <<>>
  <2>1. \A g \in Flushers : flusher'[g] # "post"
    BY <1>1 DEF IInv, Locks, OneInside, Inside
  <2> QED  BY <2>1, PostingIsNext DEF PostingFits
<1>5. /\ batch[f] \in Seq(Nat) /\ buffered \in Seq(Nat) /\ Hand \in Seq(Nat)
      /\ rest \in Seq(Nat) /\ delivered \in Seq(Nat)
  BY <1>3, PostingTyped, ConcatProperties
<1>6. Line = batch[f] \o rest
  <2>1. (batch[f] \o buffered) \o Hand = batch[f] \o (buffered \o Hand)
    BY <1>5, Regrouped, Zenon
  <2> QED  BY <2>1, <1>3, IsLine, Zenon
<1>7. Line' = rest
  <2>1. Line' = (<<>> \o buffered) \o Hand  BY <1>1, <1>2, <1>4 DEF Line, Hand
  <2> QED  BY <2>1, <1>5, ConcatEmptySeq
<1> HIDE DEF rest
<1>8. /\ OL!First(n) = batch[f] /\ OL!Behind(n) = rest
  BY <1>5, <1>6, Parted DEF OL!First, OL!Behind
<1>9. CASE n = 0
  <2>1. batch[f] = <<>>  BY <1>5, <1>9
  <2>2. UNCHANGED Line  BY <2>1, <1>5, <1>6, <1>7, ConcatEmptySeq
  <2>3. UNCHANGED <<delivered, failed>>
    BY <2>1, <1>5, ToSetEmpty, ConcatEmptySeq DEF FlushReturns
  <2> QED  BY <1>2, <2>2, <2>3 DEF OL!lineVars
<1>10. CASE n # 0
  <2>1. n \in DOMAIN Line
    <3>1. Len(Line) = n + Len(rest) /\ n \in Nat /\ Len(rest) \in Nat /\ Line \in Seq(Nat)
      BY <1>5, <1>6, ConcatProperties
    <3>2. DOMAIN Line = 1..Len(Line)  BY <3>1
    <3> QED  BY <1>10, <3>1, <3>2
  <2>2. CASE delivered' = delivered \o batch[f] /\ UNCHANGED failed
    <3>1. OL!Deliver(n)  BY <1>2, <1>7, <1>8, <2>2 DEF OL!Deliver
    <3> QED  BY <2>1, <3>1 DEF OL!Next
  <2>3. CASE failed' = failed \cup ToSet(batch[f]) /\ UNCHANGED delivered
    <3>1. OL!ToSet(batch[f]) = ToSet(batch[f])  BY DEF OL!ToSet, ToSet
    <3>2. OL!Lose(n)  BY <1>2, <1>7, <1>8, <2>3, <3>1 DEF OL!Lose
    <3> QED  BY <2>1, <3>2 DEF OL!Next
  <2> QED  BY <2>2, <2>3 DEF FlushReturns
<1> QED  BY <1>9, <1>10

LEMMA LineNext ==
  ASSUME IInv, IInv', [Next]_vars
  PROVE  [OL!Next]_(OL!lineVars)
<1> USE DEF flushVars, senderVars, Goto
<1>1. CASE Receive
  <2>1. discarded = {} /\ sent \in Nat
    BY <1>1, PostingTyped DEF Receive, IInv, Places, Discards
  <2>2. UNCHANGED Hand /\ UNCHANGED discarded  BY <1>1 DEF Receive, Hand
  <2>3. Accepted = sent /\ Accepted' = sent + 1 - 1
    BY <1>1, <2>1, <2>2 DEF Receive, Accepted
  <2>4. UNCHANGED <<flusher, batch, buffered, delivered, failed>>  BY <1>1 DEF Receive
  <2>5. UNCHANGED Posting  BY <2>4, PostingStays
  <2>6. Line' = (Posting' \o buffered') \o Hand'  BY DEF Line, Hand
  <2>7. UNCHANGED Line  BY <2>2, <2>4, <2>5, <2>6, IsLine
  <2>8. UNCHANGED Accepted  BY <2>1, <2>3
  <2> QED  BY <2>4, <2>7, <2>8 DEF OL!lineVars
<1>2. CASE WriterStops
  <2>1. UNCHANGED <<Accepted, Hand>>  BY <1>2 DEF WriterStops, Accepted, Hand
  <2> QED  BY <1>2, <2>1, LineStays DEF WriterStops
<1>3. CASE WriterGoesOn  BY <1>3, GoesOnAccepts DEF OL!Next
<1>4. CASE AppendPacket  BY <1>4, AppendStays
<1>5. CASE StartFlush \/ NoFlush
  <2>1. UNCHANGED <<sent, batch, buffered, delivered, failed, Accepted, Hand>>
    BY <1>5 DEF StartFlush, NoFlush, Accepted, Hand
  <2>2. \A f \in Flushers : flusher'[f] = "post" <=> flusher[f] = "post"
    BY <1>5 DEF StartFlush, NoFlush, IInv, Locks, LockVarsTyped
  <2> QED  BY <2>1, <2>2, LineStays
<1>6. CASE Tick \/ \E f \in Flushers : FlushSkipped(f) \/ FlushWaits(f) \/ FlushLocks(f) \/ FlushEmpty(f)
  <2>1. UNCHANGED <<sent, batch, buffered, delivered, failed, Accepted, Hand>>
    BY <1>6 DEF Tick, FlushSkipped, FlushWaits, FlushLocks, FlushEmpty, Accepted, Hand
  <2>2. \A f \in Flushers : flusher'[f] = "post" <=> flusher[f] = "post"
    BY <1>6 DEF Tick, FlushSkipped, FlushWaits, FlushLocks, FlushEmpty, IInv, Locks, LockVarsTyped
  <2> QED  BY <2>1, <2>2, LineStays
<1>7. ASSUME NEW f \in Flushers, FlushPosts(f)  PROVE UNCHANGED OL!lineVars
  BY <1>7, PostsStays
<1>8. ASSUME NEW f \in Flushers, FlushReturns(f)  PROVE OL!Next \/ UNCHANGED OL!lineVars
  BY <1>8, ReturnsDelivers
<1>9. CASE Close \/ UNCHANGED vars
  <2>1. UNCHANGED <<sent, batch, buffered, delivered, failed, flusher, Accepted, Hand>>
    BY <1>9 DEF Close, vars, Accepted, Hand
  <2> QED  BY <2>1, LineStays
<1> QED
  BY <1>1, <1>2, <1>3, <1>4, <1>5, <1>6, <1>7, <1>8, <1>9 DEF Next, Writer, Flush

\* writeLoop and any number of Flush calls, of the ticker or started, do to packets
\* only what OrderedLine allows, through failed POSTs and Close.
THEOREM Refinement == Spec => ImplementsOrderedLine
<1>1. Init => OL!Init
  <2> SUFFICES ASSUME Init  PROVE OL!Init  OBVIOUS
  <2>1. Posting = <<>>  BY DEF Init, Posting
  <2>2. Line = (<<>> \o <<>>) \o <<>>  BY <2>1 DEF Init, Line
  <2>3. (<<>> \o <<>>) \o <<>> = <<>>  OBVIOUS
  <2> QED  BY <2>2, <2>3 DEF Init, OL!Init, Accepted
<1>2. IInv /\ IInv' /\ [Next]_vars => [OL!Next]_(OL!lineVars)  BY LineNext
<1> QED  BY <1>1, <1>2, Invariance, PTL DEF Spec, ImplementsOrderedLine, OL!Spec
=============================================================================
