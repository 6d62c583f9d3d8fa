-------------------------- MODULE SyslogDrainProofs -------------------------
(***************************************************************************)
(* Proofs about the pool of a syslog destination: for any tags, any hash,  *)
(* any sizes of the channels and any number of goroutines in connect, each *)
(* packet is in one place, and packets of a tag stay in order while the    *)
(* pool their connections are chosen from is the same.                     *)
(***************************************************************************)
EXTENDS SyslogDrain, PacketLines, FiniteSetTheorems

Entered == ToSet(packets)
InHand == IF hand = 0 THEN {} ELSE {hand}
Queued(n) == ToSet(queue[n])
Arrived == ToSet(delivered)

\* The connection of a packet, and two packets whose order is kept.
Home(p) == chosen_from[p][(Hash[Tag[p]] % Len(chosen_from[p])) + 1]
Alike(p, q) == Tag[p] = Tag[q] /\ chosen_from[p] = chosen_from[q]

Asking == {c \in Connectors : connector[c] \in {"load", "store", "dial"}}
Busy == IF writer \in {"choose", "push", "pressure"} THEN 1 ELSE 0

(***************************************************************************)
(* The inductive invariant.                                                *)
(***************************************************************************)
PoolTyped ==
  /\ dialed \in Nat \ {0}
  /\ conns \in Seq(1..dialed) /\ conns # <<>>
  /\ base \in [Connectors -> Seq(1..dialed)]
  /\ connector \in [Connectors -> {"off", "load", "store", "dial", "append"}]
  /\ \A c \in Connectors : connector[c] = "append" => base[c] # <<>>

WriterTyped ==
  /\ writer \in {"select", "choose", "push", "pressure", "stopped"}
  /\ writer = "stopped" <=> closer \in {"loop", "done"}
  /\ hand \in 0..MaxPackets /\ (hand # 0 <=> writer \in {"choose", "push"})
  /\ target \in Connections
  /\ DOMAIN chosen_from = 1..MaxPackets

LinesTyped ==
  /\ sent \in 0..MaxPackets
  /\ packets \in Seq(Nat) /\ Len(packets) <= BufferSize
  /\ delivered \in Seq(Nat)
  /\ queue \in [Connections -> Seq(Nat)]
  /\ \A n \in Connections : Len(queue[n]) <= QueueSize

\* A connection is asked for at most once for a packet that left the channel.
Counted ==
  /\ IsFiniteSet(Asking)
  /\ Cardinality(Asking) + dialed + Len(packets) + Busy <= sent + 1

Typed == PoolTyped /\ WriterTyped /\ LinesTyped /\ Counted

Covered == Entered \cup InHand \cup Arrived \cup (UNION {Queued(n) : n \in Connections}) = 1..sent

\* Packets leave the channel in the order they entered it, and join the queue
\* of their connection in this order.
InOrder ==
  /\ Sorted(packets) /\ Precede(InHand, Entered) /\ Precede(Arrived, Entered \cup InHand)
  /\ \A n \in Connections : Sorted(queue[n]) /\ Precede(Queued(n), Entered \cup InHand)

AtHome ==
  /\ writer = "push" => target = Home(hand)
  /\ \A n \in Connections : \A p \in Queued(n) : Home(p) = n

\* No packet arrives before another like it that is still in a queue.
AlikeInOrder ==
  /\ SamePoolInOrder
  /\ \A n \in Connections : \A p \in Arrived, q \in Queued(n) : Alike(p, q) => p < q

Places == Covered /\ InOrder /\ AtHome /\ AlikeInOrder

IInv == Typed /\ Places

\* The pool after its first connection, and an empty channel.
LEMMA InitIInv == Init => IInv
<1> SUFFICES ASSUME Init  PROVE IInv  OBVIOUS
<1> USE DEF Init
<1>1. /\ MaxPackets \in Nat /\ 1 \in Connections
      /\ BufferSize \in Nat /\ QueueSize \in Nat
  BY SizesPositive DEF Connections
<1>2. PoolTyped
  <2>1. <<1>> \in Seq(1..1) /\ <<1>> # <<>> /\ <<>> \in Seq(1..1)  OBVIOUS
  <2>2. conns \in Seq(1..dialed) /\ conns # <<>>  BY <2>1, Zenon
  <2>3. base \in [Connectors -> Seq(1..dialed)]  BY <2>1, Zenon
  <2>4. connector \in [Connectors -> {"off", "load", "store", "dial", "append"}]  OBVIOUS
  <2>5. \A c \in Connectors : connector[c] # "append"  OBVIOUS
  <2> QED  BY <2>2, <2>3, <2>4, <2>5 DEF PoolTyped
<1>3. WriterTyped  BY <1>1 DEF WriterTyped
<1>4. LinesTyped  BY <1>1 DEF LinesTyped
<1>5. Counted
  <2>1. Asking = {}  BY DEF Asking
  <2>2. IsFiniteSet({}) /\ Cardinality({}) = 0  BY FS_EmptySet
  <2> QED  BY <2>1, <2>2 DEF Counted, Busy
<1>6. Entered = {} /\ InHand = {} /\ Arrived = {} /\ \A n \in Connections : Queued(n) = {}
  BY ToSetEmpty DEF Entered, InHand, Arrived, Queued
<1>7. Covered
  <2>1. UNION {Queued(n) : n \in Connections} = {}  BY <1>6, Zenon
  <2> QED  BY <1>6, <2>1 DEF Covered
<1>8. InOrder  BY <1>6 DEF InOrder, Sorted, Precede
<1>9. AtHome /\ AlikeInOrder  BY <1>6 DEF AtHome, AlikeInOrder, SamePoolInOrder
<1> QED  BY <1>2, <1>3, <1>4, <1>5, <1>7, <1>8, <1>9 DEF IInv, Typed, Places

(***************************************************************************)
(* Types.                                                                  *)
(***************************************************************************)
\* A list of connections, one of them newly dialed, is a list of dialed ones.
LEMMA OneMoreDialed ==
  ASSUME NEW n \in Nat, NEW s \in Seq(1..n), NEW m, m = n + 1
  PROVE  /\ s \in Seq(1..m)
         /\ Append(s, m) \in Seq(1..m)
         /\ Append(s, m) # <<>>
<1>1. \A t \in Seq(1..n) : t \in Seq(1..m)
  <2>1. 1..n \subseteq 1..m  OBVIOUS
  <2> QED  BY <2>1
<1>2. s \in Seq(1..m) /\ m \in 1..m  BY <1>1
<1>3. Append(s, m) \in Seq(1..m)  BY <1>2
<1>4. Append(s, m) # <<>>  BY <1>2
<1> QED  BY <1>2, <1>3, <1>4

LEMMA PoolTypedNext ==
  ASSUME PoolTyped, [Next]_vars
  PROVE  PoolTyped'
<1> USE DEF PoolTyped
<1>1. CASE UNCHANGED poolVars  BY <1>1 DEF poolVars
<1>2. CASE Pressure  BY <1>2 DEF Pressure
<1>3. ASSUME NEW c \in Connectors, ConnectNotAlone(c) \/ ConnectAlone(c) \/ ConnectStore(c) \/ ConnectFailed(c)
      PROVE  PoolTyped'
  BY <1>3 DEF ConnectNotAlone, ConnectAlone, ConnectStore, ConnectFailed
<1>4. ASSUME NEW c \in Connectors, ConnectDialed(c)  PROVE PoolTyped'
  <2> USE <1>4 DEF ConnectDialed
  <2>1. dialed' \in Nat \ {0} /\ dialed \in Nat /\ dialed' = dialed + 1  OBVIOUS
  <2>2. \A s \in Seq(1..dialed) : s \in Seq(1..dialed')  BY <2>1, OneMoreDialed, Zenon
  <2>3. conns' \in Seq(1..dialed') /\ conns' # <<>>  BY <2>2
  <2>4. Append(conns, dialed + 1) \in Seq(1..dialed') /\ Append(conns, dialed + 1) # <<>>
    BY <2>1, OneMoreDialed, Zenon
  <2>5. base' \in [Connectors -> Seq(1..dialed')]  BY <2>2, <2>4, Zenon
  <2>6. connector' \in [Connectors -> {"off", "load", "store", "dial", "append"}]  OBVIOUS
  <2>7. \A d \in Connectors : connector'[d] = "append" => base'[d] # <<>>  BY <2>4, Zenon
  <2> QED  BY <2>1, <2>3, <2>5, <2>6, <2>7
<1>5. ASSUME NEW c \in Connectors, ConnectAppend(c)  PROVE PoolTyped'
  <2>1. <<>> \in Seq(1..dialed)  OBVIOUS
  <2> QED  BY <1>5, <2>1, Zenon DEF ConnectAppend
<1>6. CASE Send \/ TakePacket \/ Choose \/ Push \/ Close \/ StopWriter \/ CloseStep
           \/ (\E n \in Connections : Deliver(n)) \/ UNCHANGED vars
  BY <1>6, <1>1 DEF Send, TakePacket, Choose, Push, Close, StopWriter, CloseStep,
     CloseConnection, CloseDone, Deliver, vars
<1> QED  BY <1>2, <1>3, <1>4, <1>5, <1>6 DEF Next, WriteStep, Connect

\* The connections a packet of the channel can be pushed to have a queue.
LEMMA PoolHasQueues ==
  ASSUME Typed, writer = "choose"
  PROVE  1..dialed \subseteq Connections /\ ChooseConnection \in 1..dialed
<1> USE DEF Typed, PoolTyped
<1>1. Cardinality(Asking) \in Nat  BY FS_CardinalityType DEF Counted
<1>2. dialed <= MaxPackets + 1  BY <1>1, SizesPositive DEF Counted, LinesTyped, Busy
<1>3. hand \in 1..MaxPackets  BY SizesPositive DEF WriterTyped
<1>4. Tag[hand] \in Tags /\ Hash \in [Tags -> Nat]  BY <1>3, PacketsTagged
<1>5. Hash[Tag[hand]] \in Nat  BY <1>4
<1>6. Len(conns) \in Nat \ {0}  OBVIOUS
<1>7. ASSUME NEW h \in Nat, NEW n \in Nat \ {0}  PROVE (h % n) + 1 \in 1..n
  OBVIOUS
<1>8. (Hash[Tag[hand]] % Len(conns)) + 1 \in 1..Len(conns)  BY <1>5, <1>6, <1>7
<1> QED  BY <1>2, <1>8, SizesPositive DEF ChooseConnection, Connections

\* writeLoop has a packet in hand exactly where it needs one.
LEMMA WriterTypedNext ==
  ASSUME Typed, Covered, [Next]_vars
  PROVE  WriterTyped'
<1> USE DEF WriterTyped
<1>1. WriterTyped  BY DEF Typed
<1>2. 0 \in 0..MaxPackets /\ closeVars = <<dead, closer, index>>
  BY SizesPositive DEF closeVars
<1>3. CASE TakePacket
  <2>1. hand' \in Entered  BY <1>3, HeadAndTail DEF TakePacket, Entered, LinesTyped, Typed
  <2>2. hand' \in 1..MaxPackets  BY <2>1, SizesPositive DEF Covered, LinesTyped, Typed
  <2>3. hand' \in 0..MaxPackets /\ hand' # 0  BY <2>2
  <2> QED  BY <1>1, <1>3, <2>3, Zenon DEF TakePacket, closeVars
<1>4. CASE Choose
  <2>1. target' \in Connections  BY <1>4, PoolHasQueues DEF Choose
  <2> QED  BY <1>1, <1>4, <2>1 DEF Choose, closeVars
<1>5. CASE Push  BY <1>1, <1>2, <1>5 DEF Push, closeVars
<1>6. CASE Pressure  BY <1>1, <1>6 DEF Pressure, closeVars
<1>7. CASE StopWriter  BY <1>1, <1>7 DEF StopWriter
<1>8. CASE Close  BY <1>1, <1>8 DEF Close, writeVars
<1>9. CASE CloseStep  BY <1>1, <1>9 DEF CloseStep, CloseConnection, CloseDone, writeVars
<1>10. CASE Send \/ (\E c \in Connectors : Connect(c)) \/ (\E n \in Connections : Deliver(n))
            \/ UNCHANGED vars
  <2>1. UNCHANGED <<writer, closer, hand, target, chosen_from>>
    BY <1>10 DEF Send, Connect, ConnectNotAlone, ConnectAlone, ConnectStore, ConnectDialed,
       ConnectAppend, ConnectFailed, Deliver, vars, writeVars, closeVars
  <2> QED  BY <1>1, <2>1
<1> QED
  BY <1>3, <1>4, <1>5, <1>6, <1>7, <1>8, <1>9, <1>10 DEF Next, WriteStep

\* The channels keep to their capacity.
LEMMA LinesTypedNext ==
  ASSUME Typed, [Next]_vars
  PROVE  LinesTyped'
<1> USE DEF Typed, LinesTyped
<1>1. CASE Send
  <2>1. sent' \in 0..MaxPackets /\ packets' \in Seq(Nat) /\ Len(packets') <= BufferSize
    BY <1>1, SizesPositive DEF Send
  <2> QED  BY <1>1, <2>1 DEF Send
<1>2. CASE TakePacket
  <2>1. packets' \in Seq(Nat) /\ Len(packets') <= BufferSize
    BY <1>2, HeadAndTail, SizesPositive DEF TakePacket
  <2> QED  BY <1>2, <2>1 DEF TakePacket
<1>3. CASE Push
  <2>1. target \in Connections /\ hand \in Nat  BY SizesPositive DEF WriterTyped
  <2>2. queue[target] \in Seq(Nat)  BY <2>1
  <2>3. Append(queue[target], hand) \in Seq(Nat) /\ Len(Append(queue[target], hand)) <= QueueSize
    BY <1>3, <2>1, <2>2, SizesPositive DEF Push
  <2> QED  BY <1>3, <2>1, <2>3, Zenon DEF Push
<1>4. ASSUME NEW n \in Connections, Deliver(n)  PROVE LinesTyped'
  <2>1. queue[n] \in Seq(Nat) /\ queue[n] # <<>> /\ Len(queue[n]) <= QueueSize
    BY <1>4 DEF Deliver
  <2>2. /\ Head(queue[n]) \in Nat /\ Tail(queue[n]) \in Seq(Nat) /\ Len(Tail(queue[n])) <= QueueSize
    BY <2>1, HeadAndTail, SizesPositive
  <2>3. delivered' \in Seq(Nat)  BY <1>4, <2>2 DEF Deliver
  <2>4. queue' = [queue EXCEPT ![n] = Tail(queue[n])]  BY <1>4 DEF Deliver
  <2> QED  BY <1>4, <2>2, <2>3, <2>4, Zenon DEF Deliver
<1>5. CASE Choose \/ Pressure \/ (\E c \in Connectors : Connect(c)) \/ Close \/ StopWriter
           \/ CloseStep \/ UNCHANGED vars
  BY <1>5 DEF Choose, Pressure, Connect, ConnectNotAlone, ConnectAlone, ConnectStore, ConnectDialed,
     ConnectAppend, ConnectFailed, Close, StopWriter, CloseStep, CloseConnection, CloseDone, vars
<1> QED  BY <1>1, <1>2, <1>3, <1>4, <1>5 DEF Next, WriteStep

\* Each connection asked for has its packet.
LEMMA CountedNext ==
  ASSUME Typed, [Next]_vars
  PROVE  Counted'
<1> USE DEF Typed, Counted
<1>1. Cardinality(Asking) \in Nat /\ IsFiniteSet(Asking)  BY FS_CardinalityType
<1>2. dialed \in Nat /\ sent \in Nat /\ packets \in Seq(Nat)
  BY SizesPositive DEF PoolTyped, LinesTyped
<1>3. CASE UNCHANGED <<connector, dialed, packets, writer, sent>>
  BY <1>3 DEF Asking, Busy
<1>4. CASE Send
  <2>1. UNCHANGED <<connector, dialed, writer>> /\ sent' = sent + 1 /\ Len(packets') = Len(packets) + 1
    BY <1>4, <1>2 DEF Send, poolVars, writeVars
  <2>2. Asking' = Asking /\ Busy' = Busy  BY <2>1 DEF Asking, Busy
  <2> QED  BY <1>1, <1>2, <2>1, <2>2 DEF Busy
<1>5. CASE TakePacket
  <2>1. UNCHANGED <<connector, dialed, sent>> /\ Len(packets') = Len(packets) - 1
    BY <1>5, <1>2, HeadAndTail DEF TakePacket, poolVars
  <2>2. Asking' = Asking /\ Busy = 0 /\ Busy' = 1  BY <1>5, <2>1 DEF Asking, Busy, TakePacket
  <2> QED  BY <1>1, <1>2, <2>1, <2>2
<1>6. CASE Choose \/ Push
  <2>1. UNCHANGED <<connector, dialed, sent, packets>>  BY <1>6 DEF Choose, Push, poolVars
  <2>2. Asking' = Asking /\ Busy' = Busy  BY <1>6, <2>1 DEF Asking, Busy, Choose, Push
  <2> QED  BY <2>1, <2>2
<1>7. CASE Pressure
  <2>1. UNCHANGED <<dialed, sent, packets>> /\ Busy = 1 /\ Busy' = 0
    BY <1>7 DEF Pressure, Busy
  <2>2. CASE UNCHANGED connector
    <3>1. Asking' = Asking  BY <2>2 DEF Asking
    <3> QED  BY <1>1, <1>2, <2>1, <3>1
  <2>3. ASSUME NEW c \in Connectors, connector[c] = "off",
               connector' = [connector EXCEPT ![c] = "load"]
        PROVE  Counted'
    <3>1. Asking' = Asking \cup {c} /\ c \notin Asking  BY <2>3 DEF Asking, PoolTyped
    <3>2. IsFiniteSet(Asking') /\ Cardinality(Asking') = Cardinality(Asking) + 1
      BY <3>1, <1>1, FS_AddElement
    <3> QED  BY <1>1, <1>2, <2>1, <3>2
  <2> QED  BY <1>7, <2>2, <2>3 DEF Pressure
<1>8. ASSUME NEW c \in Connectors, ConnectAlone(c) \/ ConnectStore(c)  PROVE Counted'
  <2>1. UNCHANGED <<dialed, sent, packets, writer>>
    BY <1>8 DEF ConnectAlone, ConnectStore, writeVars
  <2>2. Asking' = Asking  BY <1>8 DEF ConnectAlone, ConnectStore, Asking, PoolTyped
  <2> QED  BY <2>1, <2>2 DEF Busy
<1>9. ASSUME NEW c \in Connectors, ConnectNotAlone(c) \/ ConnectFailed(c) \/ ConnectDialed(c)
      PROVE  Counted'
  <2>1. UNCHANGED <<sent, packets, writer>> /\ dialed' \in {dialed, dialed + 1} 
    BY <1>9 DEF ConnectNotAlone, ConnectFailed, ConnectDialed, writeVars
  <2>2. Asking' = Asking \ {c} /\ c \in Asking
    BY <1>9 DEF ConnectNotAlone, ConnectFailed, ConnectDialed, Asking, PoolTyped
  <2>3. IsFiniteSet(Asking') /\ Cardinality(Asking') = Cardinality(Asking) - 1
    BY <2>2, <1>1, FS_RemoveElement
  <2> QED  BY <1>1, <1>2, <2>1, <2>3 DEF Busy
<1>10. ASSUME NEW c \in Connectors, ConnectAppend(c)  PROVE Counted'
  <2>1. UNCHANGED <<dialed, sent, packets, writer>>  BY <1>10 DEF ConnectAppend, writeVars
  <2>2. Asking' = Asking  BY <1>10 DEF ConnectAppend, Asking, PoolTyped
  <2> QED  BY <2>1, <2>2 DEF Busy
<1>11. CASE StopWriter
  <2>1. UNCHANGED <<connector, dialed, sent, packets>> /\ Busy' = 0
    BY <1>11 DEF StopWriter, poolVars, Busy
  <2>2. Asking' = Asking  BY <2>1 DEF Asking
  <2> QED  BY <1>1, <1>2, <2>1, <2>2 DEF Busy
<1>12. CASE Close \/ CloseStep \/ (\E n \in Connections : Deliver(n)) \/ UNCHANGED vars
  BY <1>12, <1>3 DEF Close, CloseStep, CloseConnection, CloseDone, Deliver, vars, poolVars, writeVars
<1> QED  BY <1>4, <1>5, <1>6, <1>7, <1>8, <1>9, <1>10, <1>11, <1>12 DEF Next, WriteStep, Connect

LEMMA TypedNext ==
  ASSUME Typed, Covered, [Next]_vars
  PROVE  Typed'
BY PoolTypedNext, WriterTypedNext, LinesTypedNext, CountedNext DEF Typed

(***************************************************************************)
(* Where packets are, and their order.                                     *)
(***************************************************************************)
\* Packets are numbers up to sent, wherever they are.
LEMMA PacketsNumbered ==
  ASSUME Typed, Covered
  PROVE  /\ Entered \subseteq 1..sent /\ InHand \subseteq 1..sent /\ Arrived \subseteq 1..sent
         /\ \A n \in Connections : Queued(n) \subseteq 1..sent
         /\ 1..sent \subseteq 1..MaxPackets /\ sent \in Nat
<1>1. \A n \in Connections : Queued(n) \subseteq 1..sent  BY Zenon DEF Covered
<1>2. sent \in 0..MaxPackets /\ MaxPackets \in Nat  BY SizesPositive DEF Typed, LinesTyped
<1> QED  BY <1>1, <1>2 DEF Covered

\* Steps that move no packet.
LEMMA PlacesUnmoved ==
  ASSUME Places, UNCHANGED <<sent, packets, hand, queue, delivered, chosen_from>>,
         writer' = "push" => writer = "push" /\ target' = target
  PROVE  Places'
<1>1. /\ Entered' = Entered /\ InHand' = InHand /\ Arrived' = Arrived
      /\ \A n \in Connections : Queued(n)' = Queued(n)
      /\ \A p : Home(p)' = Home(p)
      /\ \A p, q : Alike(p, q)' = Alike(p, q)
  BY DEF Entered, InHand, Arrived, Queued, Home, Alike
<1>2. Covered'  BY <1>1, Zenon DEF Places, Covered
<1>3. InOrder'  BY <1>1 DEF Places, InOrder
<1>4. AtHome'  BY <1>1 DEF Places, AtHome
<1>5. AlikeInOrder'  BY <1>1 DEF Places, AlikeInOrder, SamePoolInOrder
<1> QED  BY <1>2, <1>3, <1>4, <1>5 DEF Places

\* A packet enters the channel, after all others.
LEMMA PlacesSend ==
  ASSUME IInv, Send
  PROVE  Places'
<1> USE DEF IInv, Places
<1>1. sent \in Nat /\ packets \in Seq(Nat)  BY PacketsNumbered DEF Typed, LinesTyped
<1>2. Entered' = Entered \cup {sent + 1} /\ sent' = sent + 1
  BY <1>1, ToSetAppend DEF Send, Entered
<1>3. /\ InHand' = InHand /\ Arrived' = Arrived /\ \A n \in Connections : Queued(n)' = Queued(n)
      /\ UNCHANGED <<writer, hand, target, chosen_from, queue, delivered>>
      /\ \A p : Home(p)' = Home(p)
      /\ \A p, q : Alike(p, q)' = Alike(p, q)
  BY DEF Send, InHand, Arrived, Queued, writeVars, Home, Alike
<1>4. 1..sent' = 1..sent \cup {sent + 1}  BY <1>1, <1>2
<1>5. Covered'
  <2>1. UNION {Queued(n)' : n \in Connections} = UNION {Queued(n) : n \in Connections}
    BY <1>3, Zenon
  <2> QED  BY <1>2, <1>3, <1>4, <2>1, Zenon DEF Covered
<1>6. InOrder'
  <2>1. Sorted(packets')
    BY <1>1, PacketsNumbered, SortedAppend DEF Send, InOrder, Entered
  <2>2. \A x \in 1..sent : x < sent + 1  BY <1>1
  <2>3. Precede(InHand', Entered') /\ Precede(Arrived', Entered' \cup InHand')
    BY <1>2, <1>3, <2>2, PacketsNumbered DEF InOrder, Precede
  <2>4. \A n \in Connections : Precede(Queued(n)', Entered' \cup InHand')
    BY <1>2, <1>3, <2>2, PacketsNumbered DEF InOrder, Precede
  <2> QED  BY <1>3, <2>1, <2>3, <2>4 DEF InOrder
<1>7. AtHome'  BY <1>3 DEF AtHome
<1>8. AlikeInOrder'  BY <1>3 DEF AlikeInOrder, SamePoolInOrder
<1> QED  BY <1>5, <1>6, <1>7, <1>8

\* The first packet of the channel is taken in hand.
LEMMA PlacesTakePacket ==
  ASSUME IInv, TakePacket
  PROVE  Places'
<1> USE DEF IInv, Places
<1>1. /\ Entered = {hand'} \cup Entered' /\ hand' \in Nat
      /\ Sorted(packets') /\ \A y \in Entered' : hand' < y
  BY HeadAndTail DEF TakePacket, Entered, InOrder, Typed, LinesTyped
<1>2. hand' # 0 /\ hand = 0
  BY <1>1, PacketsNumbered DEF TakePacket, Typed, WriterTyped
<1>3. InHand = {} /\ InHand' = {hand'}  BY <1>2 DEF InHand
<1>4. /\ Arrived' = Arrived /\ \A n \in Connections : Queued(n)' = Queued(n)
      /\ UNCHANGED <<sent, target, chosen_from, queue, delivered>> /\ writer' # "push"
      /\ \A p : Home(p)' = Home(p)
      /\ \A p, q : Alike(p, q)' = Alike(p, q)
  BY DEF TakePacket, Arrived, Queued, Home, Alike
<1>5. Covered'  BY <1>1, <1>3, <1>4, Zenon DEF Covered
<1>6. InOrder'
  <2>1. Precede(InHand', Entered')  BY <1>1, <1>3 DEF Precede
  <2>2. Entered' \cup InHand' = Entered \cup InHand  BY <1>1, <1>3
  <2> QED  BY <1>1, <1>4, <2>1, <2>2 DEF InOrder
<1>7. AtHome'  BY <1>4 DEF AtHome
<1>8. AlikeInOrder'  BY <1>4 DEF AlikeInOrder, SamePoolInOrder
<1> QED  BY <1>5, <1>6, <1>7, <1>8

\* The pool of the packet in hand is recorded, and it is like no other yet.
LEMMA PlacesChoose ==
  ASSUME IInv, Choose
  PROVE  Places'
<1> USE DEF IInv, Places
<1>1. /\ Entered' = Entered /\ InHand' = InHand /\ Arrived' = Arrived
      /\ \A n \in Connections : Queued(n)' = Queued(n)
      /\ UNCHANGED <<sent, packets, hand, queue, delivered>>
  BY DEF Choose, Entered, InHand, Arrived, Queued
<1>2. hand \in 1..MaxPackets /\ InHand = {hand}
  BY SizesPositive DEF Choose, InHand, Typed, WriterTyped
<1>3. hand \in Nat /\ \A p \in Nat : p < hand => p # hand  BY <1>2
<1>4. hand \notin Arrived /\ \A n \in Connections : hand \notin Queued(n)
  BY <1>2, <1>3 DEF InOrder, Precede
<1>5. /\ chosen_from'[hand] = conns /\ target' = ChooseConnection
      /\ \A p \in 1..MaxPackets \ {hand} : chosen_from'[p] = chosen_from[p]
  BY <1>2 DEF Choose, Typed, WriterTyped
<1>6. /\ \A p \in 1..MaxPackets \ {hand} : Home(p)' = Home(p)
      /\ \A p, q \in 1..MaxPackets \ {hand} : Alike(p, q)' = Alike(p, q)
      /\ target' = Home(hand)'
  BY <1>1, <1>5 DEF Home, Alike, ChooseConnection
<1>7. /\ Arrived \subseteq 1..MaxPackets \ {hand}
      /\ \A n \in Connections : Queued(n) \subseteq 1..MaxPackets \ {hand}
  BY <1>4, PacketsNumbered
<1>8. Covered'  BY <1>1, Zenon DEF Covered
<1>9. InOrder'  BY <1>1 DEF InOrder
<1>10. AtHome'  BY <1>1, <1>6, <1>7 DEF AtHome
<1>11. AlikeInOrder'
  <2>1. SamePoolInOrder'
    <3> SUFFICES ASSUME NEW i \in DOMAIN delivered, NEW j \in DOMAIN delivered, i < j,
                        Tag[delivered[i]] = Tag[delivered[j]],
                        chosen_from'[delivered[i]] = chosen_from'[delivered[j]]
                 PROVE  delivered[i] < delivered[j]
      BY <1>1 DEF SamePoolInOrder
    <3>1. delivered[i] \in Arrived /\ delivered[j] \in Arrived  BY Zenon DEF Arrived, ToSet
    <3>2. chosen_from[delivered[i]] = chosen_from[delivered[j]]
      BY <1>5, <1>7, <3>1, Zenon
    <3> QED  BY <3>2, Zenon DEF AlikeInOrder, SamePoolInOrder
  <2>2. ASSUME NEW n \in Connections, NEW p \in Arrived, NEW q \in Queued(n), Alike(p, q)'
        PROVE  p < q
    <3>1. p \in 1..MaxPackets \ {hand} /\ q \in 1..MaxPackets \ {hand}  BY <1>7, Zenon
    <3>2. Alike(p, q)  BY <2>2, <1>6, <3>1, Zenon
    <3> QED  BY <3>2, Zenon DEF AlikeInOrder
  <2> QED  BY <1>1, <2>1, <2>2 DEF AlikeInOrder
<1> QED  BY <1>8, <1>9, <1>10, <1>11

\* The packet in hand joins the queue of its connection, after the others there.
LEMMA PlacesPush ==
  ASSUME IInv, Push
  PROVE  Places'
<1> USE DEF IInv, Places
<1>1. /\ Entered' = Entered /\ Arrived' = Arrived /\ InHand' = {}
      /\ UNCHANGED <<sent, packets, target, chosen_from, delivered>> /\ writer' # "push"
      /\ \A p : Home(p)' = Home(p)
      /\ \A p, q : Alike(p, q)' = Alike(p, q)
  BY DEF Push, Entered, InHand, Arrived, Home, Alike
<1>2. hand \in Nat /\ InHand = {hand} /\ target \in Connections /\ target = Home(hand)
  BY SizesPositive DEF Push, InHand, Typed, WriterTyped, AtHome
<1>3. queue[target] \in Seq(Nat)  BY <1>2 DEF Typed, LinesTyped
<1>4. /\ queue'[target] = Append(queue[target], hand)
      /\ \A n \in Connections \ {target} : queue'[n] = queue[n]
  BY <1>2 DEF Push, Typed, LinesTyped
<1>5. /\ Queued(target)' = Queued(target) \cup InHand
      /\ \A n \in Connections \ {target} : Queued(n)' = Queued(n)
  BY <1>1, <1>2, <1>3, <1>4, ToSetAppend DEF Queued
<1>6. \A n \in Connections : Queued(n) \subseteq Queued(n)' /\ Queued(n)' \subseteq Queued(n) \cup InHand
  BY <1>1, <1>5
<1>7. Covered'
  <2>1. UNION {Queued(n)' : n \in Connections} = (UNION {Queued(n) : n \in Connections}) \cup InHand
    <3>1. \A x : x \in UNION {Queued(n)' : n \in Connections} => x \in InHand \/ \E n \in Connections : x \in Queued(n)
      BY <1>6
    <3>2. \A n \in Connections : Queued(n) \subseteq UNION {Queued(m)' : m \in Connections}
      BY <1>6, Zenon
    <3>3. InHand \subseteq UNION {Queued(n)' : n \in Connections}  BY <1>1, <1>2, <1>5
    <3> QED  BY <3>1, <3>2, <3>3, Zenon
  <2> QED  BY <1>1, <2>1, Zenon DEF Covered
<1>8. InOrder'
  <2>1. \A y \in Queued(target) : y < hand  BY <1>2 DEF InOrder, Precede
  <2>2. Sorted(queue'[target])
    BY <1>2, <1>3, <1>4, <2>1, SortedAppend DEF InOrder, Queued
  <2>3. \A n \in Connections : Sorted(queue'[n])
    BY <1>4, <2>2, Zenon DEF InOrder
  <2>4. \A n \in Connections : Precede(Queued(n)', Entered')
    BY <1>1, <1>6 DEF InOrder, Precede
  <2>5. Precede(Arrived', Entered')  BY <1>1 DEF InOrder, Precede
  <2> QED  BY <1>1, <2>3, <2>4, <2>5 DEF InOrder, Precede
<1>9. AtHome'  BY <1>1, <1>2, <1>5 DEF AtHome
<1>10. AlikeInOrder'
  <2>1. \A p \in Arrived : p < hand  BY <1>2 DEF InOrder, Precede
  <2>2. \A n \in Connections : \A p \in Arrived, q \in Queued(n)' : Alike(p, q) => p < q
    BY <1>1, <1>2, <1>6, <2>1 DEF AlikeInOrder
  <2> QED  BY <1>1, <2>2 DEF AlikeInOrder, SamePoolInOrder
<1> QED  BY <1>8, <1>9, <1>7, <1>10

\* Of two packets alike, which are in one queue, the first leaves it first.
LEMMA PlacesDeliver ==
  ASSUME IInv, NEW n \in Connections, Deliver(n)
  PROVE  Places'
<1> DEFINE p == Head(queue[n])
<1> USE DEF IInv, Places
<1>1. queue[n] \in Seq(Nat) /\ delivered \in Seq(Nat)  BY DEF Typed, LinesTyped
<1>2. /\ p \in Nat /\ Queued(n) = {p} \cup ToSet(Tail(queue[n]))
      /\ Sorted(Tail(queue[n])) /\ \A y \in ToSet(Tail(queue[n])) : p < y
  BY <1>1, HeadAndTail DEF Deliver, Queued, InOrder
<1>3. /\ queue'[n] = Tail(queue[n]) /\ delivered' = Append(delivered, p)
      /\ \A m \in Connections \ {n} : queue'[m] = queue[m]
  BY DEF Deliver, Typed, LinesTyped
<1> HIDE DEF p
<1>4. /\ Queued(n) = {p} \cup Queued(n)' /\ \A y \in Queued(n)' : p < y
      /\ \A m \in Connections \ {n} : Queued(m)' = Queued(m)
      /\ Arrived' = Arrived \cup {p}
  BY <1>1, <1>2, <1>3, ToSetAppend DEF Queued, Arrived
<1>5. /\ Entered' = Entered /\ InHand' = InHand
      /\ UNCHANGED <<sent, packets, hand, target, chosen_from, writer>>
      /\ \A q : Home(q)' = Home(q)
      /\ \A q, r : Alike(q, r)' = Alike(q, r)
  BY DEF Deliver, Entered, InHand, writeVars, Home, Alike
<1>6. Covered'
  <2>1. UNION {Queued(m) : m \in Connections} = (UNION {Queued(m)' : m \in Connections}) \cup {p}
    BY <1>4, Zenon
  <2> QED  BY <1>4, <1>5, <2>1, Zenon DEF Covered
<1>7. InOrder'
  <2>1. \A m \in Connections : Sorted(queue'[m])  BY <1>2, <1>3, Zenon DEF InOrder
  <2>2. Precede(Arrived', Entered \cup InHand)  BY <1>4 DEF InOrder, Precede
  <2>3. \A m \in Connections : Precede(Queued(m)', Entered \cup InHand)
    BY <1>4 DEF InOrder, Precede
  <2> QED  BY <1>5, <2>1, <2>2, <2>3 DEF InOrder
<1>8. AtHome'  BY <1>4, <1>5 DEF AtHome
<1>9. AlikeInOrder'
  <2>1. ASSUME NEW m \in Connections, NEW q \in Queued(m)', Alike(p, q)  PROVE p < q
    <3>1. q \in Queued(m) /\ p \in Queued(n)  BY <1>4
    <3>2. Home(q) = m /\ Home(p) = n  BY <3>1 DEF AtHome
    <3>3. m = n  BY <2>1, <3>2 DEF Alike, Home
    <3> QED  BY <1>4, <3>3
  <2>2. \A m \in Connections : \A r \in Arrived', q \in Queued(m)' : Alike(r, q) => r < q
    BY <1>4, <2>1 DEF AlikeInOrder
  <2>3. SamePoolInOrder'
    <3> SUFFICES ASSUME NEW i \in DOMAIN delivered', NEW j \in DOMAIN delivered', i < j,
                        Alike(delivered'[i], delivered'[j])
                 PROVE  delivered'[i] < delivered'[j]
      BY <1>5 DEF SamePoolInOrder, Alike
    <3>1. i \in DOMAIN delivered /\ delivered'[i] = delivered[i]  BY <1>1, <1>2, <1>3
    <3>2. CASE j \in DOMAIN delivered
      <4>1. delivered'[j] = delivered[j]  BY <1>1, <1>2, <1>3, <3>2
      <4> QED  BY <3>1, <3>2, <4>1 DEF AlikeInOrder, SamePoolInOrder, Alike
    <3>3. CASE j \notin DOMAIN delivered
      <4>1. delivered'[j] = p  BY <1>1, <1>2, <1>3, <3>3
      <4>2. delivered[i] \in Arrived  BY <3>1, Zenon DEF Arrived, ToSet
      <4> QED  BY <1>2, <1>4, <3>1, <4>1, <4>2 DEF AlikeInOrder
    <3> QED  BY <3>2, <3>3
  <2> QED  BY <1>5, <2>2, <2>3 DEF AlikeInOrder
<1> QED  BY <1>6, <1>7, <1>8, <1>9

LEMMA PlacesNext ==
  ASSUME IInv, [Next]_vars
  PROVE  Places'
<1>1. CASE Pressure \/ (\E c \in Connectors : Connect(c)) \/ Close \/ StopWriter \/ CloseStep
           \/ UNCHANGED vars
  <2>1. /\ UNCHANGED <<sent, packets, hand, queue, delivered, chosen_from>>
        /\ writer' = "push" => writer = "push" /\ target' = target
    BY <1>1 DEF Pressure, Connect, ConnectNotAlone, ConnectAlone, ConnectStore, ConnectDialed,
       ConnectAppend, ConnectFailed, Close, StopWriter, CloseStep, CloseConnection, CloseDone,
       vars, writeVars
  <2> QED  BY <2>1, PlacesUnmoved DEF IInv
<1> QED
  BY <1>1, PlacesSend, PlacesTakePacket, PlacesChoose, PlacesPush, PlacesDeliver DEF Next, WriteStep

(***************************************************************************)
(* The theorems.                                                           *)
(***************************************************************************)
\* The inductive invariant holds: nothing is assumed of the hash, the tags or
\* the number of goroutines in connect (syslogdrain.go).
THEOREM Invariance == Spec => []IInv
<1>1. IInv /\ [Next]_vars => IInv'
  BY TypedNext, PlacesNext DEF IInv, Places
<1> QED  BY InitIInv, <1>1, PTL DEF Spec

\* The variables of syslogdrain.go have their types: the pool is never empty, and
\* at most one connection is dialed for each packet.
THEOREM TypeCorrect == Spec => []TypeOK
<1>1. IInv => TypeOK
  <2> SUFFICES ASSUME IInv  PROVE TypeOK  OBVIOUS
  <2> USE DEF IInv, Typed
  <2>1. conns # <<>> /\ ToSet(conns) \subseteq 1..dialed /\ dialed \in Nat \ {0}
    BY ToSetTyped DEF PoolTyped
  <2>2. dialed \in Connections
    <3>1. Cardinality(Asking) \in Nat /\ Len(packets) \in Nat
      BY FS_CardinalityType DEF Counted, LinesTyped
    <3>2. dialed <= MaxPackets + 1
      BY <2>1, <3>1, SizesPositive DEF Counted, LinesTyped, Busy
    <3> QED  BY <2>1, <3>2, SizesPositive DEF Connections
  <2> QED  BY <2>1, <2>2 DEF TypeOK, WriterTyped, LinesTyped
<1> QED  BY Invariance, <1>1, PTL

\* Each packet that entered the channel is in one place, however many goroutines
\* add connections to the pool at once or lose them from the slice.
THEOREM NoPacketLostOrDoubled == Spec => []EachPacketOnce
<1>1. IInv => EachPacketOnce
  <2> SUFFICES ASSUME IInv  PROVE EachPacketOnce  OBVIOUS
  <2> DEFINE few == <<Entered, InHand, Arrived>>
             queues == [n \in DOMAIN queue |-> Queued(n)]
             N == MaxPackets + 1
             places == few \o queues
  <2>1. N \in Nat /\ Connections = 1..N /\ DOMAIN queue = Connections
    BY SizesPositive DEF Connections, IInv, Typed, LinesTyped
  <2>2. /\ DOMAIN places = 1..(N + 3)
        /\ places[1] = Entered /\ places[2] = InHand /\ places[3] = Arrived
        /\ \A n \in 1..N : places[n + 3] = Queued(n)
    <3>1. /\ few \in Seq(SUBSET Nat) /\ Len(few) = 3
          /\ few[1] = Entered /\ few[2] = InHand /\ few[3] = Arrived
      <4>1. Entered \in SUBSET Nat /\ InHand \in SUBSET Nat /\ Arrived \in SUBSET Nat
        BY PacketsNumbered DEF IInv, Places
      <4> QED  BY <4>1
    <3>2. queues \in Seq(SUBSET Nat) /\ Len(queues) = N /\ \A n \in 1..N : queues[n] = Queued(n)
      <4>1. \A n \in 1..N : Queued(n) \in SUBSET Nat
        BY <2>1, PacketsNumbered DEF IInv, Places
      <4>2. queues \in [1..N -> SUBSET Nat]  BY <2>1, <4>1
      <4> QED  BY <2>1, <4>2
    <3> HIDE DEF few, queues
    <3>3. /\ DOMAIN (few \o queues) = 1..(3 + N)
          /\ \A i \in 1..3 : (few \o queues)[i] = few[i]
          /\ \A n \in 1..N : (few \o queues)[n + 3] = queues[n]
      <4> DEFINE Joined(s, u) == /\ DOMAIN (s \o u) = 1..(Len(s) + Len(u))
                                 /\ \A i \in 1..Len(s) : (s \o u)[i] = s[i]
                                 /\ \A i \in 1..Len(u) : (s \o u)[Len(s) + i] = u[i]
      <4>1. \A s, u \in Seq(SUBSET Nat) : Joined(s, u)  BY ConcatAt
      <4>2. few \in Seq(SUBSET Nat) /\ queues \in Seq(SUBSET Nat)  BY <3>1, <3>2
      <4> HIDE DEF Joined
      <4>3. Joined(few, queues)  BY <4>1, <4>2
      <4>4. /\ DOMAIN (few \o queues) = 1..(Len(few) + Len(queues))
            /\ \A i \in 1..Len(few) : (few \o queues)[i] = few[i]
            /\ \A n \in 1..Len(queues) : (few \o queues)[Len(few) + n] = queues[n]
        BY <4>3 DEF Joined
      <4>5. \A n \in 1..N : 3 + n = n + 3  BY <2>1
      <4> QED  BY <3>1, <3>2, <4>4, <4>5, Zenon
    <3>4. 1..(3 + N) = 1..(N + 3) /\ 1 \in 1..3 /\ 2 \in 1..3 /\ 3 \in 1..3  BY <2>1
    <3> QED  BY <3>1, <3>2, <3>3, <3>4, Zenon
  <2> HIDE DEF places
  <2>3. \A i \in DOMAIN places : i \in {1, 2, 3} \/ \E n \in 1..N : i = n + 3
    <3> SUFFICES ASSUME NEW i \in 1..(N + 3), i \notin {1, 2, 3}  PROVE \E n \in 1..N : i = n + 3
      BY <2>2
    <3>1. i - 3 \in 1..N /\ i = (i - 3) + 3  BY <2>1
    <3> QED  BY <3>1
  <2>4. {1, 2, 3} \cup {n + 3 : n \in 1..N} \subseteq DOMAIN places  BY <2>1, <2>2
  <2>5. UNION ToSet(places) = 1..sent
    <3>1. ASSUME NEW i \in DOMAIN places  PROVE places[i] \subseteq 1..sent
      BY <2>1, <2>2, <2>3, PacketsNumbered DEF IInv, Places
    <3>2. ASSUME NEW x \in 1..sent  PROVE \E i \in DOMAIN places : x \in places[i]
      <4>1. CASE x \in Entered \cup InHand \cup Arrived  BY <4>1, <2>2, <2>4, Zenon
      <4>2. CASE \E n \in Connections : x \in Queued(n)
        <5>1. PICK n \in 1..N : x \in Queued(n)  BY <4>2, <2>1
        <5>2. n + 3 \in DOMAIN places /\ x \in places[n + 3]  BY <5>1, <2>2, <2>4, Zenon
        <5> QED  BY <5>2
      <4> QED  BY <4>1, <4>2 DEF IInv, Places, Covered
    <3> QED  BY <3>1, <3>2, Zenon DEF ToSet
  <2>6. /\ Entered \cap InHand = {} /\ Entered \cap Arrived = {} /\ InHand \cap Arrived = {}
        /\ \A n \in Connections : /\ Queued(n) \cap Entered = {} /\ Queued(n) \cap InHand = {}
                                  /\ Queued(n) \cap Arrived = {}
        /\ \A m, n \in Connections : m # n => Queued(m) \cap Queued(n) = {}
    <3>1. \A x \in 1..sent : ~(x < x)  OBVIOUS
    <3>2. \A n \in Connections : Queued(n) \cap Arrived = {}
      BY <3>1, PacketsNumbered DEF IInv, Places, AlikeInOrder, Alike
    <3>3. \A m, n \in Connections : m # n => Queued(m) \cap Queued(n) = {}
      BY Zenon DEF IInv, Places, AtHome
    <3> QED  BY <3>1, <3>2, <3>3, PacketsNumbered DEF IInv, Places, InOrder, Precede
  <2>7. \A i, j \in DOMAIN places : i # j => places[i] \cap places[j] = {}
    <3> SUFFICES ASSUME NEW i \in DOMAIN places, NEW j \in DOMAIN places, i # j
                 PROVE  places[i] \cap places[j] = {}
      OBVIOUS
    <3>1. CASE i \in {1, 2, 3} /\ j \in {1, 2, 3}  BY <2>2, <2>6, <3>1
    <3>2. CASE \E m \in 1..N : i = m + 3
      <4> PICK m \in 1..N : i = m + 3  BY <3>2
      <4>1. CASE j \in {1, 2, 3}  BY <2>1, <2>2, <2>6, <4>1
      <4>2. CASE \E n \in 1..N : j = n + 3  BY <2>1, <2>2, <2>6, <4>2
      <4> QED  BY <2>3, <4>1, <4>2
    <3>3. CASE i \in {1, 2, 3} /\ \E n \in 1..N : j = n + 3
      BY <2>1, <2>2, <2>6, <3>3
    <3> QED  BY <2>3, <3>1, <3>2, <3>3
  <2> QED  BY <2>5, <2>7 DEF EachPacketOnce, places, few, queues, Entered, InHand, Arrived, Queued
<1> QED  BY Invariance, <1>1, PTL

\* What is left of syslogdrain.go:157: packets of a tag whose connections were
\* chosen from one pool arrive in the order they were sent.
THEOREM OrderWithinAPool == Spec => []SamePoolInOrder
<1>1. IInv => SamePoolInOrder  BY DEF IInv, Places, AlikeInOrder
<1> QED  BY Invariance, <1>1, PTL
=============================================================================
