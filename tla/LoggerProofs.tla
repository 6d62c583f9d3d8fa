----------------------------- MODULE LoggerProofs -----------------------------
(***************************************************************************)
(* Proofs about one syslog connection: for any queue and any number of     *)
(* packets and of failures, reconnecting neither drops, doubles nor        *)
(* reorders packets, and leaves no connection behind.                      *)
(***************************************************************************)
EXTENDS Logger, PacketLines

Received == ToSet(received)
InHand == IF hand = 0 THEN {} ELSE {hand}
Waiting == ToSet(queue)

(***************************************************************************)
(* The inductive invariants: types, the order of packets, and connections. *)
(***************************************************************************)
Typed ==
  /\ TypeOK
  /\ queue \in Seq(Nat) /\ received \in Seq(Nat)

\* OrderKept, place by place.
Order ==
  /\ Sorted(received) /\ Sorted(queue)
  /\ Precede(Received, InHand) /\ Precede(InHand, Waiting) /\ Precede(Received, Waiting)
  /\ Received \cup InHand \cup Waiting = (1..sent) \ lost
  /\ lost \subseteq 1..sent

\* A connection whose end was seen is closed; before Close there is a current
\* one, its end was reported when a new one is dialed, and the others ended.
Connected ==
  /\ \A n \in Conns : watch[n] \in {"report", "done"} => net[n] = "closed"
  /\ closer = "none" =>
       /\ conn = dialed
       /\ writer = "connect" => watch[conn] = "done"
       /\ \A n \in 1..dialed : n # conn => net[n] = "closed" /\ watch[n] = "done"

IInv == Typed /\ Order /\ Connected

LEMMA ConnsNat == Conns \subseteq Nat \ {0} /\ 1 \in Conns /\ \A n \in Conns : 1..n \subseteq Conns
BY MaxFailingNat DEF Conns

\* The connection after Dial.
LEMMA InitIInv == Init => IInv
<1> SUFFICES ASSUME Init  PROVE IInv  OBVIOUS
<1> USE DEF Init
<1>1. Typed
  <2>1. <<>> \in Seq(Nat) /\ 0 \in 0..MaxPackets /\ Len(<<>>) <= QueueSize
    BY SizesPositive
  <2>2. ToSet(received) \cup lost = {}  BY ToSetEmpty
  <2>3. ToSet(received) \cup lost \subseteq 1..MaxPackets  BY <2>2
  <2>4. conn \in Conns /\ dialed \in Conns  BY ConnsNat
  <2>5. /\ net \in [Conns -> {"none", "open", "broken", "closed"}]
        /\ watch \in [Conns -> {"off", "read", "report", "done"}]
    OBVIOUS
  <2> QED  BY <2>1, <2>3, <2>4, <2>5, Zenon DEF Typed, TypeOK
<1>2. Received = {} /\ InHand = {} /\ Waiting = {}
  BY ToSetEmpty DEF Received, InHand, Waiting
<1>3. Order  BY <1>2 DEF Order, Sorted, Precede
<1>4. Connected  BY DEF Connected
<1> QED  BY <1>1, <1>3, <1>4 DEF IInv

(***************************************************************************)
(* Types.                                                                  *)
(***************************************************************************)
LEMMA TypedNext ==
  ASSUME Typed, Order, Next
  PROVE  Typed'
<1> USE DEF Typed, TypeOK, writeVars, connVars, closeVars
<1>1. CASE Push
  <2>1. sent' \in 0..MaxPackets /\ queue' \in Seq(Nat) /\ Len(queue') <= QueueSize
    BY <1>1, SizesPositive DEF Push
  <2> QED  BY <1>1, <2>1 DEF Push
<1>2. CASE TakePacket
  <2>1. queue' \in Seq(Nat) /\ Len(queue') <= QueueSize /\ hand' \in Waiting
    BY <1>2, HeadAndTail, SizesPositive DEF TakePacket, Waiting
  <2>2. Waiting \subseteq 1..sent  BY DEF Order
  <2>3. hand' \in 1..MaxPackets  BY <2>1, <2>2, SizesPositive
  <2>4. hand' \in 0..MaxPackets /\ hand' # 0  BY <2>3
  <2> QED  BY <1>2, <2>1, <2>4 DEF TakePacket
<1>3. CASE WriteReceived
  <2>1. hand \in 1..MaxPackets /\ received' = Append(received, hand)
    BY <1>3, SizesPositive DEF WriteReceived
  <2>2. received' \in Seq(Nat)  BY <2>1
  <2>3. ToSet(received') = ToSet(received) \cup {hand}
    BY <2>1, ToSetAppend
  <2>4. hand' = 0 /\ hand' \in 0..MaxPackets  BY <1>3, SizesPositive DEF WriteReceived
  <2> QED  BY <1>3, <2>1, <2>2, <2>3, <2>4 DEF WriteReceived
<1>4. CASE WriteLost
  <2>1. hand \in 1..MaxPackets /\ hand' = 0 /\ hand' \in 0..MaxPackets
    BY <1>4, SizesPositive DEF WriteLost
  <2> QED  BY <1>4, <2>1 DEF WriteLost
<1>5. CASE Check
  BY <1>5 DEF Check
<1>6. CASE WriteFails \/ CloseFailed \/ Retry
  BY <1>6 DEF WriteFails, CloseFailed, Retry
<1>7. CASE Dialed
  BY <1>7 DEF Dialed
<1>8. CASE Stop
  BY <1>8 DEF Stop
<1>9. CASE CloseBegin \/ CloseConn
  BY <1>9 DEF CloseBegin, CloseConn
<1>10. CASE CloseForget \/ CloseErrors
  BY <1>10 DEF CloseForget, CloseErrors
<1>11. CASE DialFailedPanics \/ NilConnPanics \/ ReportPanics
  BY <1>11 DEF DialFailedPanics, NilConnPanics, ReportPanics, Panic
<1>12. ASSUME NEW n \in Conns, Break(n) \/ Watch(n)  PROVE Typed'
  BY <1>12 DEF Break, Watch
<1> QED
  BY <1>1, <1>2, <1>3, <1>4, <1>5, <1>6, <1>7, <1>8, <1>9, <1>10, <1>11, <1>12
  DEF Next, WriteStep, Close

(***************************************************************************)
(* The order of packets.                                                   *)
(***************************************************************************)
LEMMA OrderNext ==
  ASSUME Typed, Order, Next
  PROVE  Order'
<1> USE DEF Typed, TypeOK
<1>0. ASSUME UNCHANGED <<sent, queue, received, lost, hand>>  PROVE Order'
  BY <1>0 DEF Order, Received, InHand, Waiting
<1>1. CASE Push
  <2>1. /\ sent' = sent + 1 /\ sent \in Nat /\ queue' = Append(queue, sent + 1)
        /\ UNCHANGED <<lost, received, Received, InHand>>
    BY <1>1, SizesPositive DEF Push, writeVars, Received, InHand
  <2>2. Waiting' = Waiting \cup {sent + 1}  BY <2>1, ToSetAppend DEF Waiting
  <2>3. \A x \in Received \cup InHand \cup Waiting : x < sent + 1  BY <2>1 DEF Order
  <2>4. Sorted(queue')  BY <2>1, <2>3, SortedAppend DEF Order, Waiting
  <2>5. sent + 1 \notin lost  BY <2>1 DEF Order
  <2>6. 1..(sent + 1) = (1..sent) \cup {sent + 1}  BY <2>1
  <2> QED  BY <2>1, <2>2, <2>3, <2>4, <2>5, <2>6 DEF Order, Precede
<1>2. CASE TakePacket
  <2>1. /\ queue # <<>> /\ hand' = Head(queue) /\ queue' = Tail(queue) /\ InHand = {}
        /\ UNCHANGED <<sent, lost, received, Received>>
    BY <1>2 DEF TakePacket, Received, InHand
  <2>2. /\ Waiting = {hand'} \cup Waiting' /\ Sorted(queue')
        /\ \A y \in Waiting' : hand' < y
    BY <2>1, HeadAndTail DEF Waiting, Order
  <2>3. hand' # 0
    <3>1. hand' \in 1..sent  BY <2>2 DEF Order
    <3> QED  BY <3>1
  <2>4. InHand' = {hand'}  BY <2>3 DEF InHand
  <2> QED  BY <2>1, <2>2, <2>4 DEF Order, Precede
<1>3. CASE WriteReceived
  <2>1. /\ hand # 0 /\ hand \in Nat /\ hand' = 0 /\ received' = Append(received, hand)
        /\ UNCHANGED <<sent, lost, queue, Waiting>>
    BY <1>3, SizesPositive DEF WriteReceived, Waiting
  <2>2. InHand = {hand} /\ InHand' = {}  BY <2>1 DEF InHand
  <2>3. Received' = Received \cup {hand}  BY <2>1, ToSetAppend DEF Received
  <2>4. Sorted(received')  BY <2>1, <2>2, SortedAppend DEF Order, Precede, Received
  <2> QED  BY <2>1, <2>2, <2>3, <2>4 DEF Order, Precede
<1>4. CASE WriteLost
  <2>1. /\ hand # 0 /\ hand \in Nat /\ hand' = 0 /\ lost' = lost \cup {hand}
        /\ UNCHANGED <<sent, received, queue, Received, Waiting>>
    BY <1>4, SizesPositive DEF WriteLost, Received, Waiting
  <2>2. InHand = {hand} /\ InHand' = {}  BY <2>1 DEF InHand
  <2>3. hand \notin Received \cup Waiting  BY <2>1, <2>2 DEF Order, Precede
  <2> QED  BY <2>1, <2>2, <2>3 DEF Order, Precede
<1>5. CASE Check \/ WriteFails \/ CloseFailed \/ Retry \/ Dialed \/ Stop
  BY <1>5, <1>0 DEF Check, WriteFails, CloseFailed, Retry, Dialed, Stop
<1>6. CASE CloseBegin \/ Close
  BY <1>6, <1>0 DEF CloseBegin, Close, CloseConn, CloseForget, CloseErrors, writeVars
<1>7. CASE DialFailedPanics \/ NilConnPanics \/ ReportPanics
  BY <1>7, <1>0 DEF DialFailedPanics, NilConnPanics, ReportPanics, Panic, writeVars
<1>8. ASSUME NEW n \in Conns, Break(n) \/ Watch(n)  PROVE Order'
  BY <1>8, <1>0 DEF Break, Watch, writeVars
<1> QED
  BY <1>1, <1>2, <1>3, <1>4, <1>5, <1>6, <1>7, <1>8 DEF Next, WriteStep

(***************************************************************************)
(* Connections.                                                            *)
(***************************************************************************)
LEMMA ConnectedNext ==
  ASSUME Typed, Connected, Next
  PROVE  Connected'
<1> USE DEF Typed, TypeOK
<1>0. ASSUME UNCHANGED <<connVars, closer>>, writer' = "connect" => writer = "connect"
      PROVE  Connected'
  BY <1>0 DEF Connected, connVars
<1>1. CASE Push \/ TakePacket \/ WriteReceived \/ WriteLost
  BY <1>1, <1>0 DEF Push, TakePacket, WriteReceived, WriteLost, closeVars, writeVars
<1>2. CASE WriteFails \/ Retry \/ Stop
  BY <1>2, <1>0 DEF WriteFails, Retry, Stop, closeVars
<1>3. CASE Check
  <2>1. CASE conn # 0 /\ watch[conn] = "report"
    BY <1>3, <2>1, ConnsNat DEF Check, Connected, closeVars
  <2>2. CASE ~(conn # 0 /\ watch[conn] = "report")
    <3>1. UNCHANGED <<connVars, closer>>  BY <1>3, <2>2 DEF Check, connVars, closeVars
    <3>2. closer = "none" => conn # 0  BY ConnsNat DEF Connected
    <3>3. writer' = "connect" => conn = 0  BY <1>3, <2>2 DEF Check
    <3> QED  BY <3>1, <3>2, <3>3 DEF Connected, connVars
  <2> QED  BY <2>1, <2>2
<1>4. CASE CloseFailed
  BY <1>4, ConnsNat DEF CloseFailed, Connected, closeVars
<1>5. CASE Dialed
  <2>1. /\ dialed' = dialed + 1 /\ conn' = dialed + 1 /\ writer' = "write" /\ closer' = closer
        /\ \A n \in 1..dialed : net'[n] = net[n] /\ watch'[n] = watch[n]
        /\ \A n \in Conns : n # dialed + 1 => net'[n] = net[n] /\ watch'[n] = watch[n]
        /\ watch'[dialed + 1] = "read"
    BY <1>5, ConnsNat DEF Dialed, closeVars
  <2>2. \A n \in 1..(dialed + 1) : n # dialed + 1 => n \in 1..dialed /\ n \in Conns  BY ConnsNat
  <2> QED  BY <1>5, <2>1, <2>2 DEF Connected, Dialed
<1>6. CASE CloseBegin
  BY <1>6 DEF CloseBegin, Connected, connVars
<1>7. CASE CloseConn
  BY <1>7 DEF CloseConn, Connected
<1>8. CASE CloseForget \/ CloseErrors
  BY <1>8 DEF CloseForget, CloseErrors, Connected, connVars
<1>9. CASE DialFailedPanics \/ NilConnPanics \/ ReportPanics
  BY <1>9, <1>0 DEF DialFailedPanics, NilConnPanics, ReportPanics, Panic, writeVars, closeVars
<1>10. ASSUME NEW n \in Conns, Break(n)  PROVE Connected'
  BY <1>10, ConnsNat DEF Break, Connected, writeVars, closeVars
<1>11. ASSUME NEW n \in Conns, Watch(n)  PROVE Connected'
  BY <1>11, ConnsNat DEF Watch, Connected, writeVars, closeVars
<1> QED
  BY <1>1, <1>2, <1>3, <1>4, <1>5, <1>6, <1>7, <1>8, <1>9, <1>10, <1>11
  DEF Next, WriteStep, Close

\* The inductive invariant holds, however often connections break and whenever
\* Close runs (syslog.go, writePacket and Close).
THEOREM Invariance == Spec => []IInv
<1>1. IInv /\ [Next]_vars => IInv'
  <2>1. IInv /\ Next => IInv'  BY TypedNext, OrderNext, ConnectedNext DEF IInv
  <2>2. IInv /\ UNCHANGED vars => IInv'
    BY DEF IInv, Typed, TypeOK, Order, Connected, vars, writeVars, connVars, closeVars,
           Received, InHand, Waiting
  <2> QED  BY <2>1, <2>2
<1> QED  BY InitIInv, <1>1, PTL DEF Spec

(***************************************************************************)
(* What follows.                                                           *)
(***************************************************************************)
\* The variables have their types, and a packet is in hand just in writePacket.
THEOREM TypeCorrect == Spec => []TypeOK
BY Invariance, PTL DEF IInv, Typed

\* Before Close no reconnect leaves a socket or a goroutine behind.
THEOREM NothingLeaks == Spec => []OldConnectionsEnd
<1>1. IInv => OldConnectionsEnd  BY DEF IInv, Connected, OldConnectionsEnd
<1> QED  BY <1>1, Invariance, PTL

\* The packets received, in hand and waiting are those sent without the lost
\* ones, in their order, whenever connections break and whatever Close does.
THEOREM ReconnectKeepsOrder == Spec => []OrderKept
<1>1. IInv => OrderKept
  <2> SUFFICES ASSUME IInv  PROVE OrderKept  OBVIOUS
  <2> DEFINE inHand == IF hand = 0 THEN <<>> ELSE <<hand>>
             line == received \o inHand \o queue
  <2>1. received \in Seq(Nat) /\ queue \in Seq(Nat) /\ inHand \in Seq(Nat)
    BY SizesPositive DEF IInv, Typed, TypeOK
  <2>2. ToSet(inHand) = InHand /\ Sorted(inHand)
    BY ToSetEmpty DEF InHand, ToSet, Sorted
  <2> HIDE DEF inHand
  <2>3. /\ received \o inHand \in Seq(Nat)
        /\ ToSet(received \o inHand) = Received \cup InHand
        /\ Sorted(received \o inHand)
    BY <2>1, <2>2, ToSetConcat, SortedConcat DEF IInv, Order, Received
  <2>4. Precede(ToSet(received \o inHand), Waiting)
    BY <2>3 DEF IInv, Order, Precede
  <2>5. ToSet(line) = Received \cup InHand \cup Waiting /\ Sorted(line)
    BY <2>1, <2>3, <2>4, ToSetConcat, SortedConcat DEF IInv, Order, Waiting
  <2> QED  BY <2>5, Zenon DEF IInv, Order, OrderKept, Sorted, line, inHand
<1> QED  BY <1>1, Invariance, PTL

(***************************************************************************)
(* The refinement of OrderedLine.                                          *)
(***************************************************************************)
Hand == IF hand = 0 THEN <<>> ELSE <<hand>>

LEMMA LineTyped ==
  ASSUME IInv
  PROVE  /\ Line = Hand \o queue
         /\ Hand \in Seq(Nat) /\ queue \in Seq(Nat) /\ received \in Seq(Nat) /\ sent \in Nat
         /\ hand = 0 => Line = queue
         /\ hand # 0 => hand \in Nat /\ Line = <<hand>> \o queue
<1>1. /\ queue \in Seq(Nat) /\ received \in Seq(Nat) /\ hand \in Nat /\ sent \in Nat
  BY SizesPositive DEF IInv, Typed, TypeOK
<1>2. Hand \in Seq(Nat)  BY <1>1 DEF Hand
<1>3. <<>> \o queue = queue  BY <1>1, ConcatEmptySeq
<1> QED  BY <1>1, <1>2, <1>3 DEF Line, Hand

\* A step that takes nothing out and puts nothing in.
LEMMA LineStays ==
  ASSUME UNCHANGED <<sent, hand, queue, received, lost>>
  PROVE  UNCHANGED OL!lineVars
BY DEF OL!lineVars, Line

\* Push: the packet joins the line behind the one in hand.
LEMMA PushAccepts ==
  ASSUME IInv, Push
  PROVE  OL!Accept
<1>1. /\ sent' = sent + 1 /\ queue' = Append(queue, sent + 1)
      /\ UNCHANGED <<hand, received, lost, Hand>>
  BY DEF Push, writeVars, Hand
<1>2. Line' = Hand \o queue'  BY <1>1 DEF Line, Hand
<1>3. sent + 1 \in Nat /\ Hand \in Seq(Nat) /\ queue \in Seq(Nat)  BY LineTyped
<1>4. queue' = queue \o <<sent + 1>>  BY <1>1, <1>3, AppendIsConcat
<1>5. Append(Hand \o queue, sent + 1) = (Hand \o queue) \o <<sent + 1>>
  <2>1. Hand \o queue \in Seq(Nat)  BY <1>3, ConcatProperties
  <2> QED  BY <1>3, <2>1, AppendIsConcat
<1>6. (Hand \o queue) \o <<sent + 1>> = Hand \o (queue \o <<sent + 1>>)
  <2>1. <<sent + 1>> \in Seq(Nat)  BY <1>3
  <2> QED  BY <1>3, <2>1, Regrouped, Zenon
<1>7. Line' = Append(Line, sent + 1)  BY <1>2, <1>4, <1>5, <1>6, LineTyped
<1> QED  BY <1>1, <1>7 DEF OL!Accept

\* TakePacket moves the first packet of the channel to writePacket.
LEMMA TakeStays ==
  ASSUME IInv, TakePacket
  PROVE  UNCHANGED OL!lineVars
<1>1. /\ hand = 0 /\ queue # <<>> /\ hand' = Head(queue) /\ queue' = Tail(queue)
      /\ UNCHANGED <<sent, received, lost>>
  BY DEF TakePacket, IInv, Typed, TypeOK
<1>2. queue \in Seq(Nat) /\ Line = queue  BY <1>1, LineTyped
<1>3. hand' # 0
  <2>1. hand' \in Waiting  BY <1>1, <1>2, HeadAndTail DEF Waiting
  <2>2. Waiting \subseteq 1..sent  BY DEF IInv, Order
  <2> QED  BY <2>1, <2>2
<1>4. Line' = <<Head(queue)>> \o Tail(queue)  BY <1>1, <1>3 DEF Line
<1>5. <<Head(queue)>> \o Tail(queue) = queue  BY <1>1, <1>2
<1> QED  BY <1>1, <1>2, <1>4, <1>5 DEF OL!lineVars

\* The packet in hand is the first of the line.
LEMMA HandIsFirst ==
  ASSUME IInv, hand # 0
  PROVE  /\ 1 \in DOMAIN Line
         /\ OL!First(1) = <<hand>> /\ OL!Behind(1) = queue
<1>1. hand \in Nat /\ queue \in Seq(Nat) /\ Line = <<hand>> \o queue  BY LineTyped
<1>2. <<hand>> \in Seq(Nat) /\ Len(<<hand>>) = 1  BY <1>1
<1>3. Len(Line) = 1 + Len(queue) /\ Len(queue) \in Nat /\ Line \in Seq(Nat)
  BY <1>1, <1>2, ConcatProperties
<1>4. DOMAIN Line = 1..Len(Line) /\ 1 \in 1..Len(Line)  BY <1>3
<1>5. SubSeq(Line, 1, 1) = <<hand>> /\ SubSeq(Line, 1 + 1, Len(Line)) = queue
  BY <1>1, <1>2, Parted
<1> QED  BY <1>4, <1>5 DEF OL!First, OL!Behind

LEMMA WriteDelivers ==
  ASSUME IInv, WriteReceived
  PROVE  OL!Deliver(1) /\ 1 \in DOMAIN Line
<1>1. /\ hand # 0 /\ hand' = 0 /\ received' = Append(received, hand)
      /\ UNCHANGED <<sent, queue, lost>>
  BY DEF WriteReceived, IInv, Typed, TypeOK
<1>2. hand \in Nat /\ received \in Seq(Nat) /\ queue \in Seq(Nat)  BY <1>1, LineTyped
<1>3. received' = received \o <<hand>>  BY <1>1, <1>2, AppendIsConcat
<1>4. Line' = queue
  <2>1. Line' = <<>> \o queue  BY <1>1 DEF Line
  <2> QED  BY <2>1, <1>2, ConcatEmptySeq
<1> QED  BY <1>1, <1>3, <1>4, HandIsFirst DEF OL!Deliver

LEMMA WriteLoses ==
  ASSUME IInv, WriteLost
  PROVE  OL!Lose(1) /\ 1 \in DOMAIN Line
<1>1. /\ hand # 0 /\ hand' = 0 /\ lost' = lost \cup {hand}
      /\ UNCHANGED <<sent, queue, received>>
  BY DEF WriteLost, IInv, Typed, TypeOK
<1>2. hand \in Nat /\ queue \in Seq(Nat)  BY <1>1, LineTyped
<1>3. OL!ToSet(<<hand>>) = {hand}  BY <1>2 DEF OL!ToSet
<1>4. Line' = queue
  <2>1. Line' = <<>> \o queue  BY <1>1 DEF Line
  <2> QED  BY <2>1, <1>2, ConcatEmptySeq
<1> QED  BY <1>1, <1>3, <1>4, HandIsFirst DEF OL!Lose

LEMMA LineNext ==
  ASSUME IInv, [Next]_vars
  PROVE  [OL!Next]_(OL!lineVars)
<1>1. CASE Push  BY <1>1, PushAccepts DEF OL!Next
<1>2. CASE TakePacket  BY <1>2, TakeStays
<1>3. CASE WriteReceived  BY <1>3, WriteDelivers DEF OL!Next
<1>4. CASE WriteLost  BY <1>4, WriteLoses DEF OL!Next
<1>5. CASE Check \/ WriteFails \/ CloseFailed \/ Retry \/ Dialed \/ Stop
  BY <1>5, LineStays DEF Check, WriteFails, CloseFailed, Retry, Dialed, Stop
<1>6. CASE CloseBegin \/ Close
  BY <1>6, LineStays DEF CloseBegin, Close, CloseConn, CloseForget, CloseErrors, writeVars
<1>7. CASE DialFailedPanics \/ NilConnPanics \/ ReportPanics
  BY <1>7, LineStays DEF DialFailedPanics, NilConnPanics, ReportPanics, Panic, writeVars
<1>8. ASSUME NEW n \in Conns, Break(n) \/ Watch(n)  PROVE UNCHANGED OL!lineVars
  BY <1>8, LineStays DEF Break, Watch, writeVars
<1>9. CASE UNCHANGED vars  BY <1>9, LineStays DEF vars, writeVars
<1> QED
  BY <1>1, <1>2, <1>3, <1>4, <1>5, <1>6, <1>7, <1>8, <1>9 DEF Next, WriteStep

\* writeLoop, writePacket and connect, with the network and Close against them,
\* do to packets only what OrderedLine allows.
THEOREM Refinement == Spec => ImplementsOrderedLine
<1>1. Init => OL!Init
  <2> SUFFICES ASSUME Init  PROVE OL!Init  OBVIOUS
  <2>1. <<>> \o <<>> = <<>>  OBVIOUS
  <2> QED  BY <2>1 DEF Init, OL!Init, Line
<1>2. IInv /\ [Next]_vars => [OL!Next]_(OL!lineVars)  BY LineNext
<1> QED  BY <1>1, <1>2, Invariance, PTL DEF Spec, ImplementsOrderedLine, OL!Spec
=============================================================================
