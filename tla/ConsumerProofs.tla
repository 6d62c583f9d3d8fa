--------------------------- MODULE ConsumerProofs ---------------------------
(***************************************************************************)
(* Proofs about the log consumer: for any topics, any numbers of messages  *)
(* and of faults, replacing a client and committing late skip no message,  *)
(* and repeat one only after a last commit that failed, and a consumer     *)
(* that says it is open has a client.                                      *)
(***************************************************************************)
EXTENDS Consumer, PacketLines

Alive == client \in {"subscribed", "unsubscribed"}
Recovering == {"drain", "fatal", "close", "create", "subscribe"}

\* The position from which the group reads on, once this client is closed.
Reach(t) == IF client = "subscribed" THEN stored[t] ELSE committed[t]

\* The messages a forwarder was given.
Message == [offset : Nat, lost : Nat]

Known == handed \cup gone \cup InHand

(***************************************************************************)
(* The inductive invariant.                                                *)
(***************************************************************************)
FaultsTyped == faults \in [FaultKinds -> Nat]

PlacesTyped ==
  /\ up \in BOOLEAN /\ is_open \in BOOLEAN
  /\ client \in {"none", "unsubscribed", "subscribed", "closed"}
  /\ pooler \in [at : {"loop", "poll", "hand", "drain", "fatal",
                       "close", "create", "subscribe", "done"},
                 topic : Topics \cup {"none"}, lost : Nat, count : 0..MaxDrained]
  /\ refresh \in {"idle", "subscribe"} /\ closer \in {"idle", "close", "done"}

OffsetsTyped ==
  /\ log \in [Topics -> Nat] /\ committed \in [Topics -> Int]
  /\ pos \in [Topics -> Nat] /\ stored \in [Topics -> Int]
  /\ taken \in [Topics -> Seq(Message)]
  /\ \A t \in Topics : /\ log[t] <= MaxMessages[t] /\ pos[t] <= log[t]
                       /\ None <= committed[t] /\ committed[t] <= log[t]

\* Who may use the client: OpenMeansAlive, and why it is so.
ClientUsed ==
  /\ up <=> client # "none"
  /\ ~up => pooler.at = "loop" /\ closer = "idle" /\ refresh = "idle"
  /\ pooler.at = "hand" => client \in {"subscribed", "closed"} /\ pooler.topic \in Topics \ Internal
  /\ pooler.at = "create" => client = "closed"
  /\ up /\ closer = "idle" => /\ is_open => Alive
                              /\ pooler.at \in Recovering => ~is_open
                              /\ pooler.at = "subscribe" => Alive

\* What is committed next is what was polled; what was taken since a last commit
\* failed comes before it, and before the message in hand.
CommitsPolled == client = "subscribed" => \A t \in Topics : stored[t] \in {None, pos[t]}

TakenBefore ==
  \A t \in Topics : \A i \in DOMAIN taken[t] :
    /\ taken[t][i].lost <= faults["commit"]
    /\ taken[t][i].lost = faults["commit"] => taken[t][i].offset <= Reach(t)

HandIsNext ==
  \A t \in Topics : pooler.at = "hand" /\ pooler.topic = t =>
    /\ 0 < pos[t]
    /\ pooler.lost <= faults["commit"]
    /\ pooler.lost = faults["commit"] => Reach(t) = pos[t]
    /\ \A i \in DOMAIN taken[t] : taken[t][i].lost = pooler.lost => taken[t][i].offset < pos[t]

Positions ==
  /\ CommitsPolled /\ TakenOnceInOrder /\ TakenBefore /\ HandIsNext
  /\ ~up => taken = [t \in Topics |-> <<>>]

\* What was polled, or is committed, was handed over or went by.
Passed ==
  \A t \in Topics \ Internal :
    /\ Upto(t, committed[t]) \subseteq Known
    /\ client = "subscribed" => Upto(t, pos[t]) \subseteq Known

Typed == PlacesTyped /\ OffsetsTyped /\ FaultsTyped
IInv == Typed /\ ClientUsed /\ Positions /\ Passed

\* Before the process is started nothing is committed.
LEMMA InitIInv == Init => IInv
<1> SUFFICES ASSUME Init  PROVE IInv  OBVIOUS
<1> USE DEF Init, None, AtLoop
<1>1. PlacesTyped
  <2>1. 0 \in 0..MaxDrained  BY LimitsNat
  <2> QED  BY <2>1 DEF PlacesTyped
<1>2. OffsetsTyped
  <2>1. <<>> \in Seq(Message)  OBVIOUS
  <2>2. taken \in [Topics -> Seq(Message)]  BY <2>1, Zenon
  <2>3. \A t \in Topics : MaxMessages[t] \in Nat  BY LimitsNat
  <2> QED  BY <2>2, <2>3 DEF OffsetsTyped
<1>3. ClientUsed  BY DEF ClientUsed
<1>4. Positions
  <2>1. DOMAIN <<>> = {}  OBVIOUS
  <2>2. \A t \in Topics : DOMAIN taken[t] = {}  BY <2>1, Zenon
  <2> QED
    BY <2>2 DEF Positions, CommitsPolled, TakenOnceInOrder, TakenBefore, HandIsNext
<1>6. FaultsTyped  BY DEF FaultsTyped
<1>5. Passed
  <2>1. \A t \in Topics : committed[t] = -1 /\ client # "subscribed"  OBVIOUS
  <2>2. \A t \in Topics : Upto(t, committed[t]) = {}
    <3>1. 1..(-1) = {}  OBVIOUS
    <3> QED  BY <2>1, <3>1 DEF Upto
  <2> QED  BY <2>1, <2>2 DEF Passed
<1> QED  BY <1>1, <1>2, <1>3, <1>4, <1>5, <1>6 DEF IInv, Typed

(***************************************************************************)
(* Types, and the use of the client.                                       *)
(***************************************************************************)
\* The actions that end the process.
ProcessEnds == HardStop \/ PoolerFaults \/ RecoverFatal \/ RefreshFaults \/ CloseFaults \/ Exit

LEMMA EndsExits == ProcessEnds => Exits
BY DEF ProcessEnds, HardStop, PoolerFaults, RecoverFatal, RefreshFaults, CloseFaults, Exit

\* A last commit fails only where a client is closed.
LEMMA FaultsTypedNext ==
  ASSUME FaultsTyped, [Next]_vars
  PROVE  /\ FaultsTyped'
         /\ RecoverClose \/ CloseClient \/ faults'["commit"] = faults["commit"]
<1> USE DEF FaultsTyped, FaultKinds
<1>1. ASSUME NEW k \in FaultKinds, Fault(k)
      PROVE  FaultsTyped' /\ (k # "commit" => faults'["commit"] = faults["commit"])
  BY <1>1 DEF Fault
<1>2. CASE UNCHANGED faults  BY <1>2
<1>3. CASE Open \/ PollError \/ RefreshSubscribe \/ RecoverFatal
  BY <1>1, <1>2, <1>3 DEF Open, PollError, RefreshSubscribe, RecoverFatal, SubscribeFails
<1>4. CASE RecoverClose \/ CloseClient
  BY <1>1, <1>2, <1>4 DEF RecoverClose, CloseClient, ClientCloses, CommitFails
<1>5. CASE \E t \in Topics : Produce(t) \/ PollInternal(t) \/ PollMessage(t) \/ DrainMessage(t)
  BY <1>2, <1>5 DEF Produce, PollInternal, PollMessage, DrainMessage
<1>6. CASE AutoCommit \/ LoopCheck \/ PollNothing \/ (\E t \in Topics \ Internal : Take(t))
           \/ DrainEvent \/ DrainEmpty
  BY <1>2, <1>6 DEF AutoCommit, LoopCheck, PollNothing, Take, DrainEvent, DrainEmpty
<1>7. CASE RecoverCloseAgain \/ RecoverCreate \/ RecoverSubscribe \/ HardStop \/ PoolerFaults
           \/ RefreshFaults \/ CloseFaults \/ Exit
  BY <1>2, <1>7 DEF RecoverCloseAgain, RecoverCreate, RecoverSubscribe, HardStop, PoolerFaults,
     RefreshFaults, CloseFaults, Exit
<1>8. CASE (\E c \in Channels : ForwarderReturns(c)) \/ RefreshCheck \/ CloseCheck \/ UNCHANGED vars
  BY <1>2, <1>8 DEF ForwarderReturns, RefreshCheck, CloseCheck, vars
<1> QED
  BY <1>3, <1>4, <1>5, <1>6, <1>7, <1>8 DEF Next, RunPooler, Recover, Refresh, Close

LEMMA PlacesTypedNext ==
  ASSUME PlacesTyped, FaultsTyped, [Next]_vars
  PROVE  PlacesTyped'
<1> USE DEF PlacesTyped, FaultsTyped, FaultKinds, Goto, lcVars, clientVars
<1>1. ASSUME NEW t \in Topics, Produce(t) \/ PollInternal(t) \/ PollMessage(t)  PROVE PlacesTyped'
  BY <1>1 DEF Produce, PollInternal, PollMessage, Polled
<1>2. CASE AutoCommit \/ Open  BY <1>2 DEF AutoCommit, Open, Subscribed
<1>3. CASE LoopCheck \/ PollNothing \/ PollError \/ \E t \in Topics \ Internal : Take(t)
  <2>1. 0 \in 0..MaxDrained  BY LimitsNat
  <2>2. CASE LoopCheck \/ PollNothing \/ PollError
    BY <2>1, <2>2 DEF LoopCheck, PollNothing, PollError
  <2>3. CASE \E t \in Topics \ Internal : Take(t)
    BY <2>1, <2>3 DEF Take, AtLoop
  <2> QED  BY <1>3, <2>2, <2>3
<1>4. CASE DrainEvent \/ DrainEmpty \/ \E t \in Topics : DrainMessage(t)
  <2>1. ~Full => pooler.count + 1 \in 0..MaxDrained  BY LimitsNat DEF Full
  <2>2. UNCHANGED <<up, is_open, client, refresh, closer>>
    BY <1>4 DEF DrainMessage, DrainEvent, DrainEmpty, Polled
  <2>3. \/ DrainCounted
        \/ pooler' = [pooler EXCEPT !.at = "fatal"] \/ pooler' = [pooler EXCEPT !.at = "close"]
    BY <1>4 DEF DrainMessage, DrainEvent, DrainEmpty
  <2> QED  BY <2>1, <2>2, <2>3 DEF DrainCounted
<1>5. CASE RecoverClose \/ RecoverCloseAgain \/ RecoverCreate \/ RecoverSubscribe
  <2>1. /\ \/ client' \in {"closed", "unsubscribed", "subscribed"} \/ client' = client
        /\ pooler' = AtLoop \/ \E at \in {"create", "subscribe"} : Goto(at)
        /\ up' = up /\ is_open' \in BOOLEAN /\ UNCHANGED <<refresh, closer>>
    BY <1>5 DEF RecoverClose, RecoverCloseAgain, RecoverCreate, RecoverSubscribe, Subscribed, ClientCloses
  <2>2. 0 \in 0..MaxDrained  BY LimitsNat
  <2> QED  BY <2>1, <2>2 DEF AtLoop
<1>6. CASE ProcessEnds
  <2>1. 0 \in 0..MaxDrained  BY LimitsNat
  <2>2. /\ up' = FALSE /\ is_open' = FALSE /\ client' = "none" /\ refresh' = "idle" /\ closer' = "idle"
        /\ pooler' = [at |-> "loop", topic |-> "none", lost |-> 0, count |-> 0]
    BY <1>6, EndsExits DEF Exits, AtLoop
  <2> QED  BY <2>1, <2>2
<1>7. CASE (\E c \in Channels : ForwarderReturns(c)) \/ RefreshCheck \/ RefreshSubscribe
           \/ CloseCheck \/ CloseClient \/ UNCHANGED vars
  BY <1>7 DEF ForwarderReturns, RefreshCheck, RefreshSubscribe, CloseCheck, CloseClient,
     Subscribed, ClientCloses, vars
<1> QED
  BY <1>1, <1>2, <1>3, <1>4, <1>5, <1>6, <1>7
  DEF Next, RunPooler, Recover, Refresh, Close, ProcessEnds

\* runPooler closes a client only after it cleared IsOpen.
LEMMA ClientUsedNext ==
  ASSUME PlacesTyped, ClientUsed, [Next]_vars
  PROVE  ClientUsed'
<1> USE DEF PlacesTyped, ClientUsed, Goto, lcVars, clientVars, Alive, Recovering
<1>1. ASSUME NEW t \in Topics, Produce(t) \/ PollInternal(t)  PROVE ClientUsed'
  BY <1>1 DEF Produce, PollInternal, Polled
<1>2. ASSUME NEW t \in Topics, PollMessage(t)  PROVE ClientUsed'
  <2>1. pooler'.at = "hand" /\ pooler'.topic = t /\ pooler.at = "poll"  BY <1>2 DEF PollMessage
  <2>2. UNCHANGED <<up, is_open, client, refresh, closer>> /\ client = "subscribed" /\ t \in Topics \ Internal
    BY <1>2 DEF PollMessage, Polled
  <2> QED  BY <2>1, <2>2
<1>3. CASE AutoCommit \/ Open  BY <1>3 DEF AutoCommit, Open, Subscribed
<1>4. CASE LoopCheck \/ PollNothing \/ \E t \in Topics \ Internal : Take(t)
  <2>1. pooler'.at \in {"loop", "poll", "done"} /\ UNCHANGED <<up, is_open, client, refresh, closer>> /\ up
    BY <1>4 DEF LoopCheck, PollNothing, Take, AtLoop
  <2> QED  BY <2>1
<1>5. CASE PollError
  <2>1. pooler'.at = "drain" /\ UNCHANGED <<up, client, refresh, closer>> /\ up /\ is_open' = FALSE
    BY <1>5 DEF PollError
  <2> QED  BY <2>1
<1>6. CASE DrainEvent \/ DrainEmpty \/ \E t \in Topics : DrainMessage(t)
  BY <1>6 DEF DrainMessage, DrainEvent, DrainEmpty, DrainCounted, Polled
<1>7. CASE RecoverClose \/ RecoverCloseAgain
  <2>1. /\ pooler'.at = "create" /\ pooler.at = "close" /\ UNCHANGED <<up, is_open, refresh, closer>>
        /\ up /\ client' = "closed"
    BY <1>7 DEF RecoverClose, RecoverCloseAgain, ClientCloses, UseClosed
  <2> QED  BY <2>1
<1>8. CASE RecoverCreate
  <2>1. /\ pooler'.at = "subscribe" /\ pooler.at = "create" /\ UNCHANGED <<up, is_open, refresh, closer>>
        /\ up /\ client' = "unsubscribed"
    BY <1>8 DEF RecoverCreate
  <2> QED  BY <2>1
<1>9. CASE RecoverSubscribe  BY <1>9 DEF RecoverSubscribe, Subscribed, AtLoop
<1>10. CASE ProcessEnds
  BY <1>10, EndsExits DEF Exits, AtLoop
<1>11. CASE (\E c \in Channels : ForwarderReturns(c)) \/ RefreshCheck \/ UNCHANGED vars
  BY <1>11 DEF ForwarderReturns, RefreshCheck, vars
<1>12. CASE RefreshSubscribe  BY <1>12 DEF RefreshSubscribe, Subscribed
<1>13. CASE CloseCheck \/ CloseClient  BY <1>13 DEF CloseCheck, CloseClient, ClientCloses
<1> QED
  BY <1>1, <1>2, <1>3, <1>4, <1>5, <1>6, <1>7, <1>8, <1>9, <1>10, <1>11, <1>12, <1>13
  DEF Next, RunPooler, Recover, Refresh, Close, ProcessEnds

(***************************************************************************)
(* Positions.                                                              *)
(***************************************************************************)
LEMMA OffsetsTypedNext ==
  ASSUME IInv, [Next]_vars
  PROVE  OffsetsTyped'
<1> USE DEF OffsetsTyped
<1>1. OffsetsTyped /\ \A t \in Topics : MaxMessages[t] \in Nat
  BY LimitsNat DEF IInv, Typed
<1>2. client = "subscribed" =>
        \A t \in Topics : stored[t] \in Int /\ None <= stored[t] /\ stored[t] <= log[t]
  <2>1. client = "subscribed" => \A t \in Topics : stored[t] \in {None, pos[t]}
    BY DEF IInv, Positions, CommitsPolled
  <2>2. \A t \in Topics : pos[t] \in Nat /\ pos[t] <= log[t] /\ log[t] \in Nat  BY <1>1
  <2> QED  BY <2>1, <2>2 DEF None
<1>3. ASSUME NEW t \in Topics, Produce(t)  PROVE OffsetsTyped'
  BY <1>1, <1>3 DEF Produce, lcVars, clientVars, history
<1>4. ASSUME NEW t \in Topics, Polled(t), UNCHANGED <<log, committed, taken>>  PROVE OffsetsTyped'
  BY <1>1, <1>4 DEF Polled
<1>5. CASE Subscribed /\ UNCHANGED <<log, committed, taken>>
  <2>1. /\ pos' = [t \in Topics |-> IF committed[t] = None THEN log[t] ELSE committed[t]]
        /\ stored' = committed
    BY <1>5 DEF Subscribed
  <2>2. \A t \in Topics : committed[t] # None => committed[t] \in Nat  BY <1>1 DEF None
  <2> QED  BY <1>1, <1>5, <2>1, <2>2
<1>6. CASE ClientCloses /\ UNCHANGED taken
  BY <1>1, <1>2, <1>6 DEF ClientCloses
<1>7. CASE AutoCommit
  BY <1>1, <1>2, <1>7 DEF AutoCommit, lcVars, clientVars, history
<1>8. ASSUME NEW t \in Topics \ Internal, Take(t)  PROVE OffsetsTyped'
  <2>1. UNCHANGED <<log, committed, pos, stored>> /\ taken' = [taken EXCEPT ![t] = Append(@, Receipt)]
    BY <1>8 DEF Take, groupVars, lcVars, clientVars
  <2>2. Receipt \in Message  BY <1>1, <1>8 DEF Take, Receipt, Message, IInv, Typed, PlacesTyped
  <2>3. Append(taken[t], Receipt) \in Seq(Message)  BY <1>1, <2>2
  <2> QED  BY <1>1, <2>1, <2>3
<1>9. CASE Exits
  <2>1. <<>> \in Seq(Message)  OBVIOUS
  <2>2. taken' \in [Topics -> Seq(Message)]  BY <1>9, <2>1, Zenon DEF Exits
  <2>3. \A t \in Topics : 0 <= log[t]  BY <1>1
  <2> QED  BY <1>1, <1>9, <2>2, <2>3 DEF Exits, groupVars, None
<1>10. CASE UNCHANGED <<log, committed, pos, stored, taken>>  BY <1>1, <1>10
<1>11. CASE RecoverCreate
  <2>1. /\ UNCHANGED <<log, committed, taken>>
        /\ pos' = [t \in Topics |-> 0] /\ stored' = [t \in Topics |-> -1]
    BY <1>11 DEF RecoverCreate, groupVars, history, None
  <2>2. \A t \in Topics : 0 <= log[t]  BY <1>1
  <2> QED  BY <1>1, <2>1, <2>2
<1> QED
  <2>1. ASSUME NEW t \in Topics, PollInternal(t) \/ PollMessage(t) \/ DrainMessage(t)
        PROVE  OffsetsTyped'
    BY <2>1, <1>4 DEF PollInternal, PollMessage, DrainMessage, groupVars, history
  <2>2. CASE Open \/ RecoverSubscribe \/ RefreshSubscribe
    BY <2>2, <1>5, <1>10 DEF Open, RecoverSubscribe, RefreshSubscribe, groupVars, clientVars
  <2>3. CASE RecoverClose \/ CloseClient
    BY <2>3, <1>6 DEF RecoverClose, CloseClient, history
  <2>4. CASE LoopCheck \/ PollNothing \/ PollError \/ DrainEvent \/ DrainEmpty \/ RecoverCloseAgain
             \/ (\E c \in Channels : ForwarderReturns(c)) \/ RefreshCheck \/ CloseCheck
             \/ UNCHANGED vars
    BY <2>4, <1>10
    DEF LoopCheck, PollNothing, PollError, DrainEvent, DrainEmpty, RecoverCloseAgain,
        ForwarderReturns, RefreshCheck, CloseCheck, vars, groupVars, lcVars, clientVars, history
  <2>5. CASE ProcessEnds  BY <2>5, <1>9, EndsExits
  <2> QED
    BY <1>3, <1>7, <1>8, <1>11, <2>1, <2>2, <2>3, <2>4, <2>5
    DEF Next, RunPooler, Recover, Refresh, Close, ProcessEnds

\* Steps that take and poll nothing, and lose no commit.
LEMMA PositionsUnmoved ==
  ASSUME IInv, UNCHANGED taken, faults'["commit"] = faults["commit"],
         \A t \in Topics : Reach(t)' = Reach(t), CommitsPolled', up' = up,
         pooler'.at = "hand" => /\ pooler.at = "hand" /\ UNCHANGED pos
                                /\ pooler'.topic = pooler.topic /\ pooler'.lost = pooler.lost
  PROVE  Positions'
<1>1. TakenOnceInOrder' /\ TakenBefore'
  BY DEF IInv, Positions, TakenOnceInOrder, TakenBefore
<1>2. HandIsNext'
  BY DEF IInv, Positions, HandIsNext
<1> QED  BY <1>1, <1>2 DEF IInv, Positions

\* A last commit fails: what was taken belongs to the lives before.
LEMMA PositionsLost ==
  ASSUME IInv, CommitFails, UNCHANGED <<taken, up, pos>>, client' = "closed",
         pooler'.at = "hand" => pooler' = pooler
  PROVE  Positions'
<1>1. faults["commit"] \in Nat /\ faults'["commit"] = faults["commit"] + 1
  BY DEF CommitFails, Fault, IInv, Typed, FaultsTyped, FaultKinds
<1>2. \A t \in Topics : \A i \in DOMAIN taken[t] : taken[t][i].lost \in Nat
  <2>1. \A t \in Topics : taken[t] \in Seq(Message)  BY DEF IInv, Typed, OffsetsTyped
  <2>2. \A t \in Topics : \A i \in DOMAIN taken[t] : taken[t][i] \in Message  BY <2>1
  <2> QED  BY <2>2 DEF Message
<1>3. CommitsPolled' /\ TakenOnceInOrder'
  BY DEF IInv, Positions, CommitsPolled, TakenOnceInOrder
<1>4. TakenBefore'
  <2>1. \A t \in Topics : \A i \in DOMAIN taken[t] :
          taken[t][i].lost <= faults["commit"] + 1 /\ taken[t][i].lost # faults["commit"] + 1
    BY <1>1, <1>2 DEF IInv, Positions, TakenBefore
  <2> QED  BY <1>1, <2>1 DEF TakenBefore
<1>5. HandIsNext'
  <2> SUFFICES ASSUME NEW t \in Topics, pooler' = pooler, pooler.at = "hand", pooler.topic = t
               PROVE  /\ 0 < pos[t] /\ pooler.lost <= faults'["commit"]
                      /\ pooler.lost # faults'["commit"]
                      /\ \A i \in DOMAIN taken[t] :
                           taken[t][i].lost = pooler.lost => taken[t][i].offset < pos[t]
    BY DEF HandIsNext
  <2>1. /\ 0 < pos[t] /\ pooler.lost <= faults["commit"]
        /\ \A i \in DOMAIN taken[t] :
             taken[t][i].lost = pooler.lost => taken[t][i].offset < pos[t]
    BY DEF IInv, Positions, HandIsNext
  <2>2. pooler.lost \in Nat  BY DEF IInv, Typed, PlacesTyped
  <2> QED  BY <1>1, <2>1, <2>2
<1> QED  BY <1>3, <1>4, <1>5 DEF IInv, Positions

\* A poll advances the position past everything taken in this life.
LEMMA PositionsPolled ==
  ASSUME IInv, NEW t \in Topics, Polled(t), UNCHANGED <<up, committed, taken, faults>>, up,
         pooler'.at = "hand" => pooler'.topic = t /\ pooler'.lost = faults["commit"]
  PROVE  Positions'
<1> USE DEF Polled
<1>1. /\ client = "subscribed" /\ client' = client /\ faults["commit"] \in Nat
      /\ pos \in [Topics -> Nat] /\ stored \in [Topics -> Int]
      /\ \A x \in Topics : stored[x] \in {None, pos[x]}
  BY DEF IInv, Typed, OffsetsTyped, FaultsTyped, FaultKinds, Positions, CommitsPolled
<1>2. /\ pos'[t] = pos[t] + 1 /\ stored'[t] = pos[t] + 1 /\ pos[t] \in Nat
      /\ \A x \in Topics \ {t} : pos'[x] = pos[x] /\ stored'[x] = stored[x]
  BY <1>1
<1>3. \A x \in Topics : Reach(x) = stored[x] /\ Reach(x)' = stored'[x]  BY <1>1 DEF Reach
<1>4. \A i \in DOMAIN taken[t] : taken[t][i].offset \in Nat
  <2>1. taken[t] \in Seq(Message)  BY DEF IInv, Typed, OffsetsTyped
  <2>2. \A i \in DOMAIN taken[t] : taken[t][i] \in Message  BY <2>1
  <2> QED  BY <2>2 DEF Message
<1>5. \A i \in DOMAIN taken[t] : taken[t][i].lost = faults["commit"] => taken[t][i].offset <= pos[t]
  <2> SUFFICES ASSUME NEW i \in DOMAIN taken[t], taken[t][i].lost = faults["commit"]
               PROVE  taken[t][i].offset <= pos[t]
    OBVIOUS
  <2>1. taken[t][i].offset <= stored[t]  BY <1>3 DEF IInv, Positions, TakenBefore
  <2> QED  BY <1>1, <1>2, <1>4, <2>1 DEF None
<1>6. TakenBefore'
  <2> SUFFICES ASSUME NEW x \in Topics, NEW i \in DOMAIN taken[x]
               PROVE  /\ taken[x][i].lost <= faults["commit"]
                      /\ taken[x][i].lost = faults["commit"] => taken[x][i].offset <= stored'[x]
    BY <1>3 DEF TakenBefore
  <2>1. taken[x][i].lost <= faults["commit"]  BY DEF IInv, Positions, TakenBefore
  <2>2. CASE x = t  BY <1>2, <1>4, <1>5, <2>1, <2>2
  <2>3. CASE x # t
    BY <1>2, <1>3, <2>1, <2>3 DEF IInv, Positions, TakenBefore
  <2> QED  BY <2>2, <2>3
<1>7. CommitsPolled'  BY <1>1, <1>2 DEF CommitsPolled
<1>8. HandIsNext'
  <2>1. 0 < pos'[t] /\ Reach(t)' = pos'[t] /\ faults'["commit"] = faults["commit"]
    BY <1>2, <1>3
  <2>2. \A i \in DOMAIN taken'[t] :
          taken'[t][i].lost = faults["commit"] => taken'[t][i].offset < pos'[t]
    BY <1>2, <1>4, <1>5
  <2> QED  BY <1>1, <2>1, <2>2 DEF HandIsNext
<1>9. TakenOnceInOrder'  BY DEF IInv, Positions, TakenOnceInOrder
<1> QED  BY <1>6, <1>7, <1>8, <1>9 DEF Positions

\* The message taken comes after everything taken in its life.
LEMMA PositionsTake ==
  ASSUME IInv, NEW t \in Topics \ Internal, Take(t)
  PROVE  Positions'
<1> DEFINE m == [offset |-> pos[t], lost |-> pooler.lost]
           n == Len(taken[t])
<1>1. /\ UNCHANGED <<up, client, pos, stored, committed, faults>> /\ up
      /\ pooler.at = "hand" /\ pooler.topic = t /\ pooler'.at = "loop"
      /\ taken' = [taken EXCEPT ![t] = Append(taken[t], m)]
  BY DEF Take, AtLoop, Receipt, groupVars, lcVars, clientVars
<1>2. /\ taken \in [Topics -> Seq(Message)] /\ pos[t] \in Nat /\ m \in Message
      /\ \A x \in Topics \ {t} : taken'[x] = taken[x]
  BY <1>1 DEF IInv, Typed, OffsetsTyped, PlacesTyped, Message
<1>3. /\ m.offset = pos[t] /\ m.lost = pooler.lost
      /\ m.lost <= faults["commit"] /\ (m.lost = faults["commit"] => Reach(t) = m.offset)
      /\ \A i \in DOMAIN taken[t] : taken[t][i].lost = m.lost => taken[t][i].offset < m.offset
  BY <1>1 DEF IInv, Positions, HandIsNext
<1> HIDE DEF m
<1>4. /\ n \in Nat /\ DOMAIN taken[t] = 1..n /\ DOMAIN taken'[t] = 1..(n + 1)
      /\ \A i \in 1..n : taken'[t][i] = taken[t][i]
      /\ taken'[t][n + 1] = m
  BY <1>1, <1>2
<1>5. \A x \in Topics : Reach(x)' = Reach(x)  BY <1>1 DEF Reach
<1>6. TakenOnceInOrder'
  <2> SUFFICES ASSUME NEW x \in Topics, NEW i \in DOMAIN taken'[x], NEW j \in DOMAIN taken'[x],
                      i < j, taken'[x][i].lost = taken'[x][j].lost
               PROVE  taken'[x][i].offset < taken'[x][j].offset
    BY DEF TakenOnceInOrder
  <2>1. CASE x # t  BY <1>2, <2>1 DEF IInv, Positions, TakenOnceInOrder
  <2>2. CASE x = t
    <3>1. i \in 1..n  BY <1>4, <2>2
    <3>2. CASE j \in 1..n
      BY <1>4, <2>2, <3>1, <3>2 DEF IInv, Positions, TakenOnceInOrder
    <3>3. CASE j = n + 1  BY <1>3, <1>4, <2>2, <3>1, <3>3
    <3> QED  BY <1>4, <2>2, <3>2, <3>3
  <2> QED  BY <2>1, <2>2
<1>7. TakenBefore'
  <2> SUFFICES ASSUME NEW x \in Topics, NEW i \in DOMAIN taken'[x]
               PROVE  /\ taken'[x][i].lost <= faults["commit"]
                      /\ taken'[x][i].lost = faults["commit"] => taken'[x][i].offset <= Reach(x)
    BY <1>1, <1>5 DEF TakenBefore
  <2>1. CASE x # t  BY <1>2, <2>1 DEF IInv, Positions, TakenBefore
  <2>2. CASE x = t /\ i \in 1..n  BY <1>4, <2>2 DEF IInv, Positions, TakenBefore
  <2>3. CASE x = t /\ i = n + 1  BY <1>2, <1>3, <1>4, <2>3
  <2> QED  BY <1>4, <2>1, <2>2, <2>3
<1>8. CommitsPolled' /\ HandIsNext'  BY <1>1 DEF IInv, Positions, CommitsPolled, HandIsNext
<1> QED  BY <1>1, <1>6, <1>7, <1>8 DEF Positions

\* Steps that leave the positions, and what was taken, alone.
LEMMA PositionsStay ==
  ASSUME IInv, UNCHANGED <<up, committed, client, pos, stored, taken>>,
         faults'["commit"] = faults["commit"], pooler'.at # "hand" \/ pooler' = pooler
  PROVE  Positions'
<1>1. \A t \in Topics : Reach(t)' = Reach(t)  BY DEF Reach
<1>2. CommitsPolled'  BY DEF IInv, Positions, CommitsPolled
<1> QED  BY <1>1, <1>2, PositionsUnmoved

LEMMA PositionsSubscribed ==
  ASSUME IInv, client = "unsubscribed", Subscribed, UNCHANGED <<up, committed, taken>>,
         faults'["commit"] = faults["commit"], pooler'.at # "hand"
  PROVE  Positions'
<1>1. pos \in [Topics -> Nat] /\ committed \in [Topics -> Int]
  BY DEF IInv, Typed, OffsetsTyped
<1>2. CommitsPolled'  BY <1>1 DEF Subscribed, CommitsPolled
<1>3. \A t \in Topics : Reach(t)' = Reach(t)  BY DEF Subscribed, Reach
<1> QED  BY <1>2, <1>3, PositionsUnmoved

\* Close of a client commits what was polled, or loses it.
LEMMA PositionsClosed ==
  ASSUME IInv, ClientCloses, UNCHANGED <<up, taken>>, pooler'.at # "hand" \/ pooler' = pooler
  PROVE  Positions'
<1>1. client' = "closed" /\ UNCHANGED pos  BY DEF ClientCloses
<1>2. CASE committed' = (IF client = "subscribed" THEN stored ELSE committed) /\ UNCHANGED faults
  <2>1. \A t \in Topics : Reach(t)' = Reach(t)  BY <1>1, <1>2 DEF Reach
  <2>2. CommitsPolled'  BY <1>1 DEF CommitsPolled
  <2> QED  BY <1>1, <1>2, <2>1, <2>2, PositionsUnmoved
<1>3. CASE CommitFails  BY <1>1, <1>3, PositionsLost
<1> QED  BY <1>2, <1>3 DEF ClientCloses

\* A process that starts has taken nothing.
LEMMA PositionsEmpty ==
  ASSUME taken' = [t \in Topics |-> <<>>], pooler'.at # "hand", CommitsPolled'
  PROVE  Positions'
<1>1. \A t \in Topics : taken'[t] = <<>>  OBVIOUS
<1>2. \A t \in Topics : DOMAIN taken'[t] = {}  BY <1>1
<1> QED  BY <1>2 DEF Positions, TakenOnceInOrder, TakenBefore, HandIsNext

LEMMA PositionsNext ==
  ASSUME IInv, [Next]_vars
  PROVE  Positions'
<1>1. /\ pos \in [Topics -> Nat] /\ committed \in [Topics -> Int]
      /\ pooler.at = "hand" => client # "unsubscribed"
      /\ CommitsPolled /\ AtLoop.at = "loop"
      /\ \A a : Goto(a) => pooler'.at = a
  BY DEF IInv, Typed, OffsetsTyped, ClientUsed, Positions, Goto, PlacesTyped, AtLoop
<1>2. CASE RecoverClose \/ CloseClient
  <2>1. ClientCloses /\ UNCHANGED <<up, taken>> /\ (pooler'.at # "hand" \/ pooler' = pooler)
    BY <1>1, <1>2 DEF RecoverClose, CloseClient, history
  <2> QED  BY <2>1, PositionsClosed
<1> SUFFICES ASSUME faults'["commit"] = faults["commit"]  PROVE Positions'
  BY <1>2, FaultsTypedNext DEF IInv, Typed
<1>3. CASE AutoCommit
  <2>1. /\ client = "subscribed" /\ committed' = stored
        /\ UNCHANGED <<up, client, pos, stored, taken, pooler>>
    BY <1>3 DEF AutoCommit, lcVars, clientVars, history
  <2>2. (\A t \in Topics : Reach(t)' = Reach(t)) /\ CommitsPolled'
    BY <1>1, <2>1 DEF Reach, CommitsPolled
  <2> QED  BY <2>1, <2>2, PositionsUnmoved
<1>4. CASE Open
  <2>1. taken' = [t \in Topics |-> <<>>] /\ pooler'.at # "hand"
    BY <1>4 DEF Open, IInv, Positions, ClientUsed
  <2>2. CommitsPolled'  BY <1>1, <1>4 DEF Open, Subscribed, CommitsPolled
  <2> QED  BY <2>1, <2>2, PositionsEmpty
<1>5. CASE ProcessEnds
  <2>1. taken' = [t \in Topics |-> <<>>] /\ pooler'.at # "hand" /\ client' = "none"
    BY <1>1, <1>5, EndsExits DEF Exits
  <2> QED  BY <2>1, PositionsEmpty DEF CommitsPolled
<1>6. ASSUME NEW t \in Topics, PollInternal(t) \/ PollMessage(t) \/ DrainMessage(t)
      PROVE  Positions'
  <2>1. Polled(t) /\ UNCHANGED <<up, committed, taken, faults>> /\ up
    BY <1>6 DEF PollInternal, PollMessage, DrainMessage, groupVars, history
  <2>2. pooler'.at = "hand" => pooler'.topic = t /\ pooler'.lost = faults["commit"]
    BY <1>1, <1>6 DEF PollInternal, PollMessage, DrainMessage, DrainCounted, IInv, Typed, PlacesTyped
  <2> QED  BY <2>1, <2>2, PositionsPolled
<1>7. CASE RecoverSubscribe \/ RefreshSubscribe
  <2>1. (pooler'.at # "hand" \/ pooler' = pooler) /\ UNCHANGED <<up, committed, taken>>
    BY <1>1, <1>7 DEF RecoverSubscribe, RefreshSubscribe, groupVars
  <2>2. \/ client = "unsubscribed" /\ Subscribed
        \/ UNCHANGED <<client, pos, stored>>
    BY <1>7 DEF RecoverSubscribe, RefreshSubscribe, clientVars
  <2> QED  BY <1>1, <2>1, <2>2, PositionsSubscribed, PositionsStay
<1>8. CASE RecoverCreate
  <2>1. client = "closed" /\ client' = "unsubscribed" /\ pooler'.at # "hand"
        /\ UNCHANGED <<up, committed, taken>>
    BY <1>1, <1>8 DEF RecoverCreate, IInv, ClientUsed, groupVars, history
  <2>2. (\A t \in Topics : Reach(t)' = Reach(t)) /\ CommitsPolled'
    BY <2>1 DEF Reach, CommitsPolled
  <2> QED  BY <2>1, <2>2, PositionsUnmoved
<1>9. CASE PollError \/ DrainEvent \/ DrainEmpty
  <2>1. pooler'.at # "hand"
    BY <1>1, <1>9 DEF PollError, DrainEvent, DrainEmpty, DrainCounted, IInv, Typed, PlacesTyped
  <2>2. UNCHANGED <<up, committed, client, pos, stored, taken>>
    BY <1>9 DEF PollError, DrainEvent, DrainEmpty, groupVars, lcVars, clientVars, history
  <2> QED  BY <2>1, <2>2, PositionsStay
<1>10. CASE LoopCheck \/ PollNothing \/ RecoverCloseAgain
  <2>1. pooler'.at # "hand"  BY <1>1, <1>10 DEF LoopCheck, PollNothing, RecoverCloseAgain
  <2>2. UNCHANGED <<up, committed, client, pos, stored, taken>>
    BY <1>10 DEF LoopCheck, PollNothing, RecoverCloseAgain, groupVars, lcVars, clientVars, history
  <2> QED  BY <2>1, <2>2, PositionsStay
<1>11. CASE (\E t \in Topics : Produce(t)) \/ (\E c \in Channels : ForwarderReturns(c))
            \/ RefreshCheck \/ CloseCheck \/ UNCHANGED vars
  <2>1. UNCHANGED <<up, committed, client, pos, stored, taken, pooler>>
    BY <1>11 DEF Produce, ForwarderReturns, RefreshCheck, CloseCheck, vars, groupVars, lcVars,
       clientVars, history
  <2> QED  BY <2>1, PositionsStay
<1> QED
  BY <1>2, <1>3, <1>4, <1>5, <1>6, <1>7, <1>8, <1>9, <1>10, <1>11, PositionsTake
  DEF Next, RunPooler, Recover, Refresh, Close, ProcessEnds

(***************************************************************************)
(* What went by.                                                           *)
(***************************************************************************)
\* What was handed over or went by stays so.
LEMMA KnownStays ==
  ASSUME IInv, [Next]_vars
  PROVE  Known \subseteq Known'
<1>1. /\ pooler.at = "hand" => client # "unsubscribed" /\ up
      /\ \A a : Goto(a) => pooler'.at = a /\ pooler'.topic = pooler.topic
  BY DEF IInv, Typed, PlacesTyped, ClientUsed, Goto
<1>2. CASE /\ handed \subseteq handed' /\ gone \subseteq gone'
           /\ pooler.at # "hand" \/ (UNCHANGED <<pooler, pos>>)
  BY <1>2 DEF Known, InHand
<1>3. ASSUME NEW t \in Topics, Produce(t) \/ PollInternal(t) \/ PollMessage(t) \/ DrainMessage(t)
      PROVE  Known \subseteq Known'
  BY <1>2, <1>3 DEF Produce, PollInternal, PollMessage, DrainMessage, lcVars, clientVars, history
<1>4. CASE Open \/ RecoverSubscribe \/ RefreshSubscribe
  BY <1>1, <1>2, <1>4 DEF Open, RecoverSubscribe, RefreshSubscribe, Subscribed, clientVars
<1>5. CASE ProcessEnds
  BY <1>5, EndsExits DEF Exits, Known
<1>6. CASE \E t \in Topics \ Internal : Take(t)
  BY <1>6 DEF Take, Known
<1>7. CASE LoopCheck \/ PollNothing \/ PollError \/ DrainEvent \/ DrainEmpty
           \/ RecoverClose \/ RecoverCloseAgain \/ RecoverCreate
  <2>1. pooler.at # "hand" /\ UNCHANGED <<handed, gone>>
    BY <1>7 DEF LoopCheck, PollNothing, PollError, DrainEvent, DrainEmpty, RecoverClose,
       RecoverCloseAgain, RecoverCreate, history
  <2> QED  BY <1>2, <2>1
<1>8. CASE AutoCommit \/ (\E c \in Channels : ForwarderReturns(c)) \/ RefreshCheck
           \/ CloseCheck \/ CloseClient \/ UNCHANGED vars
  <2>1. UNCHANGED <<pooler, pos, handed, gone>>
    BY <1>8 DEF AutoCommit, ForwarderReturns, RefreshCheck, CloseCheck, CloseClient, ClientCloses,
       vars, lcVars, clientVars, history
  <2> QED  BY <1>2, <2>1
<1> QED
  BY <1>3, <1>4, <1>5, <1>6, <1>7, <1>8 DEF Next, RunPooler, Recover, Refresh, Close, ProcessEnds

LEMMA PassedNext ==
  ASSUME IInv, [Next]_vars
  PROVE  Passed'
<1>1. Known \subseteq Known' /\ \A t \in Topics \ Internal : Upto(t, committed[t]) \subseteq Known'
  BY KnownStays DEF IInv, Passed
<1>2. client = "subscribed" =>
        \A t \in Topics \ Internal : /\ Upto(t, pos[t]) \subseteq Known'
                                     /\ Upto(t, stored[t]) \subseteq Known'
  <2>1. \A t \in Topics : Upto(t, None) = {}
    <3>1. 1..None = {}  BY DEF None
    <3> QED  BY <3>1 DEF Upto
  <2>2. client = "subscribed" => \A t \in Topics : stored[t] \in {None, pos[t]}
    BY DEF IInv, Positions, CommitsPolled
  <2> QED  BY <1>1, <2>1, <2>2 DEF IInv, Passed
<1>3. CASE UNCHANGED <<committed, pos>> /\ (client' = "subscribed" => client = "subscribed")
  BY <1>1, <1>2, <1>3 DEF Passed
<1>4. CASE Subscribed /\ UNCHANGED <<committed, handed>>
  <2> SUFFICES ASSUME NEW t \in Topics \ Internal  PROVE Upto(t, pos'[t]) \subseteq Known'
    BY <1>1, <1>4 DEF Passed
  <2>1. gone' = gone \cup ((UNION {Upto(x, pos'[x]) : x \in Topics}) \ handed)
    BY <1>4 DEF Subscribed
  <2>2. Upto(t, pos'[t]) \subseteq gone' \cup handed'  BY <1>4, <2>1
  <2> QED  BY <2>2 DEF Known
<1>5. CASE ClientCloses
  BY <1>1, <1>2, <1>5 DEF ClientCloses, Passed
<1>6. CASE AutoCommit
  BY <1>1, <1>2, <1>6 DEF AutoCommit, lcVars, clientVars, Passed
<1>7. ASSUME NEW t \in Topics, Polled(t), UNCHANGED committed,
             t \notin Internal => <<t, pos[t] + 1>> \in Known'
      PROVE  Passed'
  <2>1. /\ pos \in [Topics -> Nat] /\ client = "subscribed"
        /\ pos'[t] = pos[t] + 1 /\ \A x \in Topics \ {t} : pos'[x] = pos[x]
    BY <1>7 DEF Polled, IInv, Typed, OffsetsTyped
  <2>2. Upto(t, pos[t] + 1) = Upto(t, pos[t]) \cup {<<t, pos[t] + 1>>}
    <3>1. 1..(pos[t] + 1) = 1..pos[t] \cup {pos[t] + 1}  BY <2>1
    <3> QED  BY <3>1 DEF Upto
  <2>3. \A x \in Topics \ Internal : Upto(x, pos'[x]) \subseteq Known'
    BY <1>2, <1>7, <2>1, <2>2
  <2> QED  BY <1>1, <1>7, <2>3 DEF Passed
<1>8. CASE ProcessEnds
  BY <1>1, <1>8, EndsExits DEF Exits, groupVars, Passed
<1>9. ASSUME NEW t \in Topics, PollInternal(t) \/ PollMessage(t) \/ DrainMessage(t)
      PROVE  Passed'
  <2>1. Polled(t) /\ UNCHANGED committed
    BY <1>9 DEF PollInternal, PollMessage, DrainMessage, groupVars
  <2>2. CASE PollMessage(t)
    <3>1. pooler'.at = "hand" /\ pooler'.topic = t /\ pos'[t] = pos[t] + 1
      BY <2>1, <2>2 DEF PollMessage, Polled, IInv, Typed, PlacesTyped, OffsetsTyped
    <3> QED  BY <1>7, <2>1, <3>1 DEF Known, InHand
  <2>3. CASE PollInternal(t) \/ DrainMessage(t)
    BY <1>7, <2>1, <2>3 DEF PollInternal, DrainMessage, Known
  <2> QED  BY <1>9, <2>2, <2>3
<1>10. CASE Open \/ RecoverSubscribe \/ RefreshSubscribe
  BY <1>3, <1>4, <1>10 DEF Open, RecoverSubscribe, RefreshSubscribe, groupVars, clientVars
<1>11. CASE (\E t \in Topics : Produce(t)) \/ (\E t \in Topics \ Internal : Take(t))
            \/ (\E c \in Channels : ForwarderReturns(c)) \/ RefreshCheck \/ CloseCheck
            \/ LoopCheck \/ PollNothing \/ PollError \/ DrainEvent \/ DrainEmpty
            \/ RecoverCloseAgain \/ UNCHANGED vars
  BY <1>3, <1>11
  DEF Produce, Take, ForwarderReturns, RefreshCheck, CloseCheck, LoopCheck, PollNothing, PollError,
      DrainEvent, DrainEmpty, RecoverCloseAgain, vars, groupVars, lcVars, clientVars
<1>12. CASE RecoverClose \/ CloseClient
  BY <1>5, <1>12 DEF RecoverClose, CloseClient
<1>13. CASE RecoverCreate
  <2>1. client' = "unsubscribed" /\ UNCHANGED committed  BY <1>13 DEF RecoverCreate, groupVars
  <2> QED  BY <1>1, <2>1 DEF Passed
<1> QED
  BY <1>6, <1>8, <1>9, <1>10, <1>11, <1>12, <1>13
  DEF Next, RunPooler, Recover, Refresh, Close, ProcessEnds

(***************************************************************************)
(* The theorems.                                                           *)
(***************************************************************************)
\* The inductive invariant holds, whatever errors, signals and restarts there
\* are (events/consumer.go).
THEOREM Invariance == Spec => []IInv
<1>1. IInv /\ [Next]_vars => IInv'
  BY PlacesTypedNext, OffsetsTypedNext, ClientUsedNext, PositionsNext, PassedNext,
     FaultsTypedNext DEF IInv, Typed
<1> QED  BY InitIInv, <1>1, PTL DEF Spec

\* The variables of events/consumer.go and of Kafka have their types; no position
\* is past the end of its topic.
THEOREM TypeCorrect == Spec => []TypeOK
<1>1. IInv => TypeOK
  <2> SUFFICES ASSUME IInv  PROVE TypeOK  OBVIOUS
  <2>1. \A t \in Topics : /\ log[t] \in 0..MaxMessages[t]
                          /\ committed[t] \in None..log[t]
                          /\ pos[t] \in 0..log[t]
    <3> SUFFICES ASSUME NEW t \in Topics
                 PROVE  /\ log[t] \in 0..MaxMessages[t] /\ committed[t] \in None..log[t]
                        /\ pos[t] \in 0..log[t]
      OBVIOUS
    <3>1. MaxMessages[t] \in Nat /\ None \in Int  BY LimitsNat DEF None
    <3>2. /\ log[t] \in Nat /\ pos[t] \in Nat /\ committed[t] \in Int
          /\ log[t] <= MaxMessages[t] /\ pos[t] <= log[t]
          /\ None <= committed[t] /\ committed[t] <= log[t]
      BY DEF IInv, Typed, OffsetsTyped
    <3> QED  BY <3>1, <3>2
  <2>2. pooler.at \in {"loop", "poll", "hand", "drain", "fatal", "close", "create", "subscribe", "done"}
        /\ pooler.count \in 0..MaxDrained
    BY DEF IInv, Typed, PlacesTyped
  <2> QED  BY <2>1, <2>2 DEF IInv, Typed, PlacesTyped, TypeOK
<1> QED  BY Invariance, <1>1, PTL

\* The forwarder of a topic gets the messages of a process in order and each once,
\* although runPooler replaces its client (consumer.go:93): each last commit that
\* fails gives messages again once at most.
THEOREM RecoveryKeepsOrder == Spec => []TakenOnceInOrder
<1>1. IInv => TakenOnceInOrder  BY DEF IInv, Positions
<1> QED  BY Invariance, <1>1, PTL

\* What the group will not read again was handed to a forwarder, is in the hand
\* of runPooler, or went by in a recovery, a start or an exit.
THEOREM CommitsSkipNothing == Spec => []NothingSkipped
<1>1. IInv => NothingSkipped  BY DEF IInv, Passed, Known, NothingSkipped
<1> QED  BY Invariance, <1>1, PTL

\* Before Close, a consumer that says it is open has a client that is not
\* closed: Refresh, which asks IsOpen, may use it.
THEOREM OpenHasClient == Spec => []OpenMeansAlive
<1>1. IInv => OpenMeansAlive  BY DEF IInv, ClientUsed, Alive, OpenMeansAlive
<1> QED  BY Invariance, <1>1, PTL
=============================================================================
