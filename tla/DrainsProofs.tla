---------------------------- MODULE DrainsProofs ----------------------------
(***************************************************************************)
(* Proofs about the registry: for every set of routes and URLs, the        *)
(* reference counts are right and no route holds a closed pool.            *)
(***************************************************************************)
EXTENDS Drains, PacketLines, FiniteSetTheorems

(***************************************************************************)
(* The inductive invariant.                                                *)
(***************************************************************************)
\* At most one Dial is in Init, it holds the lock, and its URL has no pool.
InitAlone ==
  \A r \in Routes : call[r] = "init" =>
    /\ drains_mutex
    /\ drains[Url[r]] = 0
    /\ Url[r] \in Supported
    /\ \A s \in Routes : call[s] = "init" => s = r

\* A route in Dial holds nothing yet.
DialingHoldsNothing == \A r \in Routes : call[r] # "idle" => handle[r] = 0

\* A registered pool is counted at least once.
PoolsCounted == \A url \in Urls : drains[url] # 0 => drains_count[url] > 0

IInv ==
  /\ TypeOK
  /\ InitAlone
  /\ DialingHoldsNothing
  /\ PoolsCounted
  /\ CountIsHolders
  /\ NoUseAfterClose
  /\ PoolsAccounted
  /\ KeysMatchDrains

(***************************************************************************)
(* Lemmas.                                                                 *)
(***************************************************************************)
\* The routes that hold a pool are finitely many, since the routes are.
LEMMA HoldersFinite ==
  ASSUME NEW url
  PROVE  /\ IsFiniteSet(Holders(url))
         /\ Cardinality(Holders(url)) \in Nat
<1>1. Holders(url) \in SUBSET Routes
  BY DEF Holders
<1>2. IsFiniteSet(Holders(url))
  BY <1>1, FS_Subset, RoutesFinite
<1> QED BY <1>2, FS_CardinalityType

\* Injective sequence and its range after an Append.
LEMMA KeysAppended ==
  ASSUME NEW S, NEW keys \in Seq(S), NEW url \in S,
         IsInjective(keys), url \notin ToSet(keys)
  PROVE  /\ Append(keys, url) \in Seq(S)
         /\ ToSet(Append(keys, url)) = ToSet(keys) \cup {url}
         /\ IsInjective(Append(keys, url))
<1> DEFINE longer == Append(keys, url)
<1>1. /\ longer \in Seq(S)
      /\ Len(longer) = Len(keys) + 1
      /\ \A i \in 1..Len(keys) : longer[i] = keys[i]
      /\ longer[Len(keys) + 1] = url
  OBVIOUS
<1>2. DOMAIN longer = 1..(Len(keys) + 1) /\ DOMAIN keys = 1..Len(keys)
  BY <1>1
<1>3. Len(keys) \in Nat
  OBVIOUS
<1> HIDE DEF longer
<1>4. ToSet(longer) = ToSet(keys) \cup {url}
  BY <1>1, <1>2, <1>3 DEF ToSet
<1>5. IsInjective(longer)
  BY <1>1, <1>2, <1>3 DEF IsInjective, ToSet
<1> QED BY <1>1, <1>4, <1>5 DEF longer

\* Cutting position n out of a sequence without duplicates removes that element
\* and keeps the others.
LEMMA KeyCut ==
  ASSUME NEW S, NEW keys \in Seq(S), NEW n \in 1..Len(keys), IsInjective(keys)
  PROVE  /\ RemoveAt(keys, n) \in Seq(S)
         /\ ToSet(RemoveAt(keys, n)) = ToSet(keys) \ {keys[n]}
         /\ IsInjective(RemoveAt(keys, n))
<1> DEFINE cut == RemoveAt(keys, n)
<1>1. /\ cut \in Seq(S)
      /\ Len(cut) = Len(keys) - 1
      /\ \A i \in 1..(Len(keys) - 1) : cut[i] = IF i < n THEN keys[i] ELSE keys[i + 1]
  BY RemovedAt
<1>2. /\ Len(keys) \in Nat
      /\ DOMAIN cut = 1..(Len(keys) - 1)
      /\ DOMAIN keys = 1..Len(keys)
  BY <1>1
<1> HIDE DEF cut
<1>3. ToSet(cut) = ToSet(keys) \ {keys[n]}
  <2>1. ASSUME NEW x \in ToSet(cut)  PROVE x \in ToSet(keys) /\ x # keys[n]
    BY <1>1, <1>2 DEF ToSet, IsInjective
  <2>2. ASSUME NEW x \in ToSet(keys), x # keys[n]  PROVE x \in ToSet(cut)
    <3>1. PICK i \in 1..Len(keys) : x = keys[i]
      BY <1>2 DEF ToSet
    <3>2. CASE i < n
      BY <3>1, <3>2, <1>1, <1>2 DEF ToSet
    <3>3. CASE i > n
      <4>1. i - 1 \in 1..(Len(keys) - 1) /\ cut[i - 1] = keys[i]
        BY <3>1, <3>3, <1>1, <1>2
      <4> QED BY <4>1, <3>1, <1>2 DEF ToSet
    <3> QED BY <3>1, <3>2, <3>3, <2>2
  <2> QED BY <2>1, <2>2
<1>4. IsInjective(cut)
  <2> DEFINE from(i) == IF i < n THEN i ELSE i + 1
  <2>1. ASSUME NEW i \in 1..(Len(keys) - 1)
        PROVE  from(i) \in 1..Len(keys) /\ cut[i] = keys[from(i)]
    BY <1>1, <1>2
  <2>2. ASSUME NEW i \in 1..(Len(keys) - 1), NEW j \in 1..(Len(keys) - 1), cut[i] = cut[j]
        PROVE  i = j
    <3>1. keys[from(i)] = keys[from(j)]  BY <2>1, <2>2
    <3>2. from(i) = from(j)
      <4> HIDE DEF from
      <4> QED  BY <2>1, <3>1, <1>2 DEF IsInjective
    <3> QED  BY <3>2, <1>2
  <2> QED  BY <1>2, <2>2, Zenon DEF IsInjective
<1> QED BY <1>1, <1>3, <1>4 DEF cut

\* What Undial leaves in drain_keys: every key but the URL of the closed pool.
LEMMA KeysWithoutUrl ==
  ASSUME drain_keys \in Seq(Urls), IsInjective(drain_keys),
         NEW url \in ToSet(drain_keys)
  PROVE  /\ KeysWithout(url) \in Seq(Urls)
         /\ ToSet(KeysWithout(url)) = ToSet(drain_keys) \ {url}
         /\ IsInjective(KeysWithout(url))
<1> DEFINE I == {i \in 1..Len(drain_keys) : drain_keys[i] = url}
<1>1. PICK n \in 1..Len(drain_keys) : drain_keys[n] = url
  BY DEF ToSet
<1>2. I = {n}
  BY <1>1 DEF IsInjective
<1>3. Max(I) = n
  BY <1>1, <1>2 DEF Max
<1>4. KeysWithout(url) = RemoveAt(drain_keys, n)
  BY <1>1, <1>2, <1>3 DEF KeysWithout, SelectLastInSeq
<1> QED BY <1>1, <1>4, KeyCut

(***************************************************************************)
(* The actions of Dial and Undial preserve the invariant.                  *)
(***************************************************************************)
\* Steps that only move a call along, and the ticker, leave the registry and
\* what the routes hold alone.
LEMMA CallStepKeepsIInv ==
  ASSUME IInv,
         \/ \E r \in Routes : \/ DialBegin(r) \/ DialRefused(r) \/ DialQueue(r)
                             \/ DialUnsupported(r) \/ DialOpen(r) \/ DialFailed(r)
         \/ ClearBadHosts
  PROVE  IInv'
<1> USE DEF IInv, TypeOK, registry, Goto, CallState
<1>1. /\ UNCHANGED <<registry, handle>>
      /\ UNCHANGED <<drains_count, drains, drain_keys, opened, closing>>
  BY DEF DialBegin, DialRefused, DialQueue, DialUnsupported, DialOpen,
         DialFailed, ClearBadHosts
<1>2. TypeOK'
  BY RoutesHaveUrls DEF DialBegin, DialRefused, DialQueue, DialUnsupported,
         DialOpen, DialFailed, ClearBadHosts
<1>3. InitAlone'
  BY DEF InitAlone, DialBegin, DialRefused, DialQueue, DialUnsupported,
         DialOpen, DialFailed, ClearBadHosts
<1>4. DialingHoldsNothing'
  BY DEF DialingHoldsNothing, DialBegin, DialRefused, DialQueue,
         DialUnsupported, DialOpen, DialFailed, ClearBadHosts
<1>5. (PoolsCounted /\ CountIsHolders /\ NoUseAfterClose)'
  BY <1>1 DEF PoolsCounted, CountIsHolders, Holders, NoUseAfterClose
<1>6. (PoolsAccounted /\ KeysMatchDrains)'
  BY <1>1 DEF PoolsAccounted, KeysMatchDrains
<1> QED BY <1>2, <1>3, <1>4, <1>5, <1>6

\* A route joins the live pool of its URL.
LEMMA DialShareKeepsIInv ==
  ASSUME IInv, NEW r \in Routes, DialShare(r)
  PROVE  IInv'
<1> USE RoutesHaveUrls DEF IInv, TypeOK, DialShare, Goto
<1>1. TypeOK'
  <2>1. /\ drains_count' \in [Urls -> Nat]
        /\ handle' \in [Routes -> Nat]
    <3>1. PICK url \in Urls : url = Url[r]
      OBVIOUS
    <3>2. drains_count[url] \in Nat /\ drains[url] \in Nat
      OBVIOUS
    <3> QED BY <3>1, <3>2
  <2>2. call' \in [Routes -> CallState]
    BY DEF CallState
  <2> QED BY <2>1, <2>2
<1>2. (InitAlone /\ DialingHoldsNothing)'
  BY DEF InitAlone, DialingHoldsNothing
<1>3. CountIsHolders'
  <2>1. r \notin Holders(Url[r]) /\ Holders(Url[r])' = Holders(Url[r]) \cup {r}
    BY DEF Holders, DialingHoldsNothing
  <2>2. \A url \in Urls \ {Url[r]} : Holders(url)' = Holders(url)
    BY DEF Holders
  <2>3. Cardinality(Holders(Url[r]))' = Cardinality(Holders(Url[r])) + 1
    BY <2>1, HoldersFinite, FS_AddElement
  <2> QED BY <2>2, <2>3 DEF CountIsHolders
<1>4. (PoolsCounted /\ PoolsAccounted /\ KeysMatchDrains)'
  BY DEF PoolsCounted, PoolsAccounted, KeysMatchDrains
<1>5. NoUseAfterClose'
  BY DEF NoUseAfterClose, PoolsAccounted
<1> QED BY <1>1, <1>2, <1>3, <1>4, <1>5

\* A route registers a new pool.
LEMMA DialConnectedKeepsIInv ==
  ASSUME IInv, NEW r \in Routes, DialConnected(r)
  PROVE  IInv'
<1>1. PICK url \in Urls : url = Url[r]
  BY RoutesHaveUrls
<1>2. /\ call[r] = "init"
      /\ opened' = [opened EXCEPT ![url] = @ + 1]
      /\ drains' = [drains EXCEPT ![url] = opened[url] + 1]
      /\ drains_count' = [drains_count EXCEPT ![url] = 1]
      /\ drain_keys' = Append(drain_keys, url)
      /\ handle' = [handle EXCEPT ![r] = opened[url] + 1]
      /\ drains_mutex' = FALSE
      /\ call' = [call EXCEPT ![r] = "idle"]
      /\ UNCHANGED <<closing, bad_hosts>>
  BY <1>1 DEF DialConnected, Goto
<1>3. TypeOK
  BY DEF IInv
<1>4. drains[url] = 0 /\ Holders(url) = {}
  BY <1>1, <1>2, <1>3 DEF IInv, TypeOK, InitAlone, NoUseAfterClose, Holders
<1>5. /\ drain_keys' \in Seq(Urls)
      /\ ToSet(drain_keys)' = ToSet(drain_keys) \cup {url}
      /\ IsInjective(drain_keys)'
  BY <1>2, <1>3, <1>4, KeysAppended DEF IInv, TypeOK, KeysMatchDrains
<1>6. TypeOK'
  <2>1. /\ drains' \in [Urls -> Nat]
        /\ drains_count' \in [Urls -> Nat]
        /\ opened' \in [Urls -> Nat]
        /\ handle' \in [Routes -> Nat]
    BY <1>2, <1>3 DEF TypeOK
  <2>2. call' \in [Routes -> CallState]
    BY <1>2, <1>3 DEF TypeOK, CallState
  <2> QED BY <1>2, <1>3, <1>5, <2>1, <2>2 DEF TypeOK
<1>7. (InitAlone /\ DialingHoldsNothing)'
  BY <1>2, <1>3 DEF IInv, TypeOK, InitAlone, DialingHoldsNothing
<1>8. /\ Holders(url)' = {r}
      /\ \A other \in Urls \ {url} : Holders(other)' = Holders(other)
  BY <1>1, <1>2, <1>3, <1>4 DEF Holders, TypeOK
<1>9. CountIsHolders'
  <2>1. Cardinality(Holders(url)') = 1
    BY <1>8, FS_Singleton
  <2> QED BY <1>2, <1>3, <1>8, <2>1 DEF IInv, TypeOK, CountIsHolders
<1>10. PoolsCounted'
  BY <1>2, <1>3 DEF IInv, TypeOK, PoolsCounted
<1>11. PoolsAccounted'
  BY <1>2, <1>3, <1>4 DEF IInv, TypeOK, PoolsAccounted
<1>12. KeysMatchDrains'
  BY <1>2, <1>3, <1>5 DEF IInv, TypeOK, KeysMatchDrains
<1>13. NoUseAfterClose'
  <2>1. ASSUME NEW s \in Routes, handle'[s] # 0
        PROVE  handle'[s] = drains'[Url[s]]
    <3>1. CASE s = r
      BY <1>1, <1>2, <1>3, <3>1 DEF TypeOK
    <3>2. CASE s # r
      <4>1. handle'[s] = handle[s] /\ handle[s] = drains[Url[s]]
        BY <1>2, <1>3, <2>1, <3>2 DEF IInv, TypeOK, NoUseAfterClose
      <4>2. Url[s] # url
        BY <1>4, <4>1, <2>1
      <4> QED BY <1>2, <1>3, <4>1, <4>2, RoutesHaveUrls DEF TypeOK
    <3> QED BY <3>1, <3>2
  <2>2. \A u \in Urls : drains'[u] \notin closing'[u]
    BY <1>11 DEF PoolsAccounted
  <2> QED BY <2>1, <2>2, RoutesHaveUrls DEF NoUseAfterClose
<1> QED BY <1>6, <1>7, <1>9, <1>10, <1>11, <1>12, <1>13 DEF IInv

\* A route gives its pool back, and the last one closes it.
LEMMA ReleaseKeepsIInv ==
  ASSUME IInv, NEW r \in Routes, Release(r)
  PROVE  IInv'
<1>1. PICK url \in Urls : url = Url[r]
  BY RoutesHaveUrls
<1>2. TypeOK
  BY DEF IInv
<1>3. /\ call[r] = "idle"
      /\ handle[r] # 0
      /\ handle' = [handle EXCEPT ![r] = 0]
      /\ UNCHANGED <<call, drains_mutex, bad_hosts, opened>>
  BY DEF Release, Undial
<1>4. handle[r] = drains[url] /\ drains[url] # 0 /\ opened[url] > 0
  BY <1>1, <1>2, <1>3 DEF IInv, TypeOK, NoUseAfterClose, PoolsAccounted
<1>5. drains_count[url] \in Nat /\ drains_count[url] > 0
  BY <1>2, <1>4 DEF IInv, TypeOK, PoolsCounted
<1>6. /\ drains_count' = [drains_count EXCEPT ![url] = @ - 1]
      /\ IF drains_count[url] = 1
           THEN ClosePool(url)
           ELSE UNCHANGED <<drains, closing, drain_keys>>
  BY <1>1, <1>4 DEF Release, Undial, Counted
<1>7. /\ r \in Holders(url)
      /\ Holders(url)' = Holders(url) \ {r}
      /\ \A other \in Urls \ {url} : Holders(other)' = Holders(other)
  BY <1>1, <1>2, <1>3 DEF TypeOK, Holders
<1>8. /\ IsFiniteSet(Holders(url)')
      /\ Cardinality(Holders(url)') = drains_count[url] - 1
  <2>1. Cardinality(Holders(url)) = drains_count[url]
    BY DEF IInv, CountIsHolders
  <2>2. IsFiniteSet(Holders(url))
    BY HoldersFinite
  <2> QED BY <1>7, <2>1, <2>2, FS_RemoveElement
<1>9. CountIsHolders'
  BY <1>2, <1>6, <1>7, <1>8 DEF IInv, TypeOK, CountIsHolders
<1>10. DialingHoldsNothing'
  BY <1>2, <1>3 DEF IInv, TypeOK, DialingHoldsNothing
<1>11. CASE drains_count[url] = 1
  <2>1. /\ drains' = [drains EXCEPT ![url] = 0]
        /\ closing' = [closing EXCEPT ![url] = @ \cup {drains[url]}]
        /\ drain_keys' = KeysWithout(url)
    BY <1>6, <1>11 DEF ClosePool
  <2>2. Holders(url)' = {}
    BY <1>8, <1>11, FS_EmptySet
  <2>3. /\ drain_keys' \in Seq(Urls)
        /\ ToSet(drain_keys)' = ToSet(drain_keys) \ {url}
        /\ IsInjective(drain_keys)'
    <3>1. url \in ToSet(drain_keys) /\ IsInjective(drain_keys)
      BY <1>4 DEF IInv, KeysMatchDrains
    <3>2. drain_keys \in Seq(Urls)
      BY <1>2 DEF TypeOK
    <3> QED BY <2>1, <3>1, <3>2, KeysWithoutUrl
  <2>4. TypeOK'
    <3>1. /\ drains' \in [Urls -> Nat]
          /\ drains_count' \in [Urls -> Nat]
          /\ handle' \in [Routes -> Nat]
      BY <1>2, <1>3, <1>5, <1>6, <2>1 DEF TypeOK
    <3>2. closing' \in [Urls -> SUBSET Nat]
      BY <1>2, <2>1 DEF TypeOK
    <3> QED BY <1>2, <1>3, <2>3, <3>1, <3>2 DEF TypeOK
  <2>5. InitAlone'
    BY <1>2, <1>3, <2>1, RoutesHaveUrls DEF IInv, TypeOK, InitAlone
  <2>6. PoolsCounted'
    BY <1>2, <1>6, <2>1 DEF IInv, TypeOK, PoolsCounted
  <2>7. PoolsAccounted'
    BY <1>2, <1>3, <1>4, <2>1 DEF IInv, TypeOK, PoolsAccounted
  <2>8. KeysMatchDrains'
    BY <1>2, <2>1, <2>3 DEF IInv, TypeOK, KeysMatchDrains
  <2>9. NoUseAfterClose'
    BY <1>2, <1>3, <2>1, <2>2, RoutesHaveUrls
    DEF IInv, TypeOK, NoUseAfterClose, Holders
  <2> QED BY <1>9, <1>10, <2>4, <2>5, <2>6, <2>7, <2>8, <2>9 DEF IInv
<1>12. CASE drains_count[url] # 1
  <2>1. UNCHANGED <<drains, closing, drain_keys>>
    BY <1>6, <1>12
  <2>2. TypeOK'
    <3>1. drains_count' \in [Urls -> Nat] /\ handle' \in [Routes -> Nat]
      BY <1>2, <1>3, <1>5, <1>6 DEF TypeOK
    <3> QED BY <1>2, <1>3, <2>1, <3>1 DEF TypeOK
  <2>3. InitAlone'
    BY <1>3, <2>1 DEF IInv, InitAlone
  <2>4. PoolsCounted'
    BY <1>2, <1>5, <1>6, <1>12, <2>1 DEF IInv, TypeOK, PoolsCounted
  <2>5. (PoolsAccounted /\ KeysMatchDrains)'
    BY <1>3, <2>1 DEF IInv, PoolsAccounted, KeysMatchDrains
  <2>6. NoUseAfterClose'
    BY <1>2, <1>3, <2>1 DEF IInv, TypeOK, NoUseAfterClose
  <2> QED BY <1>9, <1>10, <2>2, <2>3, <2>4, <2>5, <2>6 DEF IInv
<1> QED BY <1>11, <1>12

(***************************************************************************)
(* The theorems.                                                           *)
(***************************************************************************)
LEMMA InitIInv == Init => IInv
<1> SUFFICES ASSUME Init PROVE IInv
  OBVIOUS
<1>1. TypeOK
  <2>1. <<>> \in Seq(Urls)
    OBVIOUS
  <2>2. closing \in [Urls -> SUBSET Nat]
    BY DEF Init
  <2>3. /\ drains \in [Urls -> Nat]
        /\ drains_count \in [Urls -> Nat]
        /\ opened \in [Urls -> Nat]
        /\ handle \in [Routes -> Nat]
        /\ call \in [Routes -> CallState]
    BY DEF Init, CallState
  <2> QED BY <2>1, <2>2, <2>3 DEF Init, TypeOK
<1>2. CountIsHolders
  <2>1. \A url \in Urls : Holders(url) = {}
    BY DEF Init, Holders
  <2> QED BY <2>1, FS_EmptySet DEF Init, CountIsHolders
<1>3. KeysMatchDrains
  BY DEF Init, KeysMatchDrains, ToSet, IsInjective
<1>4. InitAlone /\ DialingHoldsNothing /\ PoolsCounted /\ NoUseAfterClose
  BY DEF Init, InitAlone, DialingHoldsNothing, PoolsCounted, NoUseAfterClose
<1>5. PoolsAccounted
  BY DEF Init, PoolsAccounted
<1> QED BY <1>1, <1>2, <1>3, <1>4, <1>5 DEF IInv

LEMMA NextIInv == IInv /\ [Next]_vars => IInv'
<1> SUFFICES ASSUME IInv, [Next]_vars PROVE IInv'
  OBVIOUS
<1>1. CASE UNCHANGED vars
  BY <1>1 DEF vars, registry, IInv, TypeOK, InitAlone, DialingHoldsNothing,
     PoolsCounted, CountIsHolders, Holders, NoUseAfterClose, PoolsAccounted,
     KeysMatchDrains
<1>2. ASSUME NEW r \in Routes, DialShare(r)  PROVE IInv'
  BY <1>2, DialShareKeepsIInv
<1>3. ASSUME NEW r \in Routes, DialConnected(r)  PROVE IInv'
  BY <1>3, DialConnectedKeepsIInv
<1>4. ASSUME NEW r \in Routes, Release(r)  PROVE IInv'
  BY <1>4, ReleaseKeepsIInv
<1>5. CASE \/ \E r \in Routes : \/ DialBegin(r) \/ DialRefused(r) \/ DialQueue(r)
                              \/ DialUnsupported(r) \/ DialOpen(r) \/ DialFailed(r)
           \/ ClearBadHosts
  BY <1>5, CallStepKeepsIInv
<1> QED BY <1>1, <1>2, <1>3, <1>4, <1>5 DEF Next, DialStep, Acquire

LEMMA IInvInvariant == Spec => []IInv
  BY InitIInv, NextIInv, PTL DEF Spec

\* The variables have their types; in particular no reference count of
\* drains_count ever goes below zero.
THEOREM TypeCorrect == Spec => []TypeOK
<1>1. IInv => TypeOK
  BY DEF IInv
<1> QED BY <1>1, IInvInvariant, PTL

\* drains_count is the number of routes that hold the pool, in every
\* interleaving of Dial and Undial by any number of routes.
THEOREM CountsCorrect == Spec => []CountIsHolders
<1>1. IInv => CountIsHolders
  BY DEF IInv
<1> QED BY <1>1, IInvInvariant, PTL

\* The pool Dial returned stays the registered one, and open, until Undial.
THEOREM HandlesStayOpen == Spec => []NoUseAfterClose
<1>1. IInv => NoUseAfterClose
  BY DEF IInv
<1> QED BY <1>1, IInvInvariant, PTL

\* Every pool ever opened is the registered one or was closed, never both.
THEOREM NoPoolLost == Spec => []PoolsAccounted
<1>1. IInv => PoolsAccounted
  BY DEF IInv
<1> QED BY <1>1, IInvInvariant, PTL

\* drain_keys lists each registered URL once: appends and the cut in Undial
\* keep it in step with the map.
THEOREM KeysComplete == Spec => []KeysMatchDrains
<1>1. IInv => KeysMatchDrains
  BY DEF IInv
<1> QED BY <1>1, IInvInvariant, PTL

(***************************************************************************)
(* Refinement.                                                             *)
(***************************************************************************)
\* Both ways of returning a drain are a Join of the shared pool.
LEMMA DialIsJoin ==
  ASSUME IInv, NEW r \in Routes, DialShare(r) \/ DialConnected(r)
  PROVE  Abstract!Join(r)
<1>1. PICK url \in Urls : url = Url[r]
  BY RoutesHaveUrls
<1>2. TypeOK
  BY DEF IInv
<1>3. handle[r] = 0
  BY DEF IInv, DialingHoldsNothing, DialShare, DialConnected
<1>4. CASE DialShare(r)
  <2>1. /\ drains[url] # 0
        /\ handle' = [handle EXCEPT ![r] = drains[url]]
        /\ UNCHANGED <<drains, opened>>
    BY <1>1, <1>4 DEF DialShare
  <2>2. drains' = [drains EXCEPT ![url] = drains[url]]
    BY <1>2, <2>1 DEF TypeOK
  <2> QED BY <1>1, <1>3, <2>1, <2>2 DEF Abstract!Join, GivenUp
<1>5. CASE DialConnected(r)
  <2>1. /\ opened' = [opened EXCEPT ![url] = @ + 1]
        /\ drains' = [drains EXCEPT ![url] = opened[url] + 1]
        /\ handle' = [handle EXCEPT ![r] = opened[url] + 1]
    BY <1>1, <1>5 DEF DialConnected
  <2>2. drains[url] = 0
    BY <1>1, <1>5 DEF IInv, InitAlone, DialConnected
  <2>3. GivenUp[url] = opened[url]
    BY <2>2 DEF GivenUp
  <2>4. GivenUp' = GivenUp
    <3>1. \A u \in Urls \ {url} : opened'[u] = opened[u] /\ drains'[u] = drains[u]
      BY <1>2, <2>1 DEF TypeOK
    <3>2. /\ opened[url] \in Nat
          /\ opened'[url] = opened[url] + 1
          /\ drains'[url] = opened[url] + 1
      BY <1>2, <2>1 DEF TypeOK
    <3>3. \A u \in Urls :
            (IF drains[u] = 0 THEN opened[u] ELSE opened[u] - 1)'
            = IF drains[u] = 0 THEN opened[u] ELSE opened[u] - 1
      BY <2>2, <3>1, <3>2
    <3> QED BY <3>3 DEF GivenUp
  <2> QED BY <1>1, <1>3, <2>1, <2>2, <2>3, <2>4 DEF Abstract!Join
<1> QED BY <1>4, <1>5

\* Giving a pool back is a Leave, and closes it exactly for its last user.
LEMMA ReleaseIsLeave ==
  ASSUME IInv, NEW r \in Routes, Release(r)
  PROVE  Abstract!Leave(r)
<1>1. PICK url \in Urls : url = Url[r]
  BY RoutesHaveUrls
<1>2. TypeOK
  BY DEF IInv
<1>3. /\ handle[r] # 0
      /\ handle' = [handle EXCEPT ![r] = 0]
      /\ opened' = opened
      /\ IF drains_count[url] = 1 /\ drains[url] # 0
           THEN drains' = [drains EXCEPT ![url] = 0]
           ELSE drains' = drains
  BY <1>1 DEF Release, Undial, ClosePool
<1>4. drains[url] # 0 /\ drains[url] = opened[url]
  BY <1>1, <1>2, <1>3 DEF IInv, TypeOK, NoUseAfterClose, PoolsAccounted
<1>5. r \in Holders(url) /\ IsFiniteSet(Holders(url))
  BY <1>1, <1>3, HoldersFinite DEF Holders
<1>6. drains_count[url] = 1 <=> Holders(url) = {r}
  <2>1. Cardinality(Holders(url)) = 1 <=> \E x : Holders(url) = {x}
    BY <1>5, FS_Singleton
  <2> QED BY <1>5, <2>1 DEF IInv, CountIsHolders
<1>7. Abstract!UsersOf(url) = Holders(url)
  BY DEF Abstract!UsersOf, Holders
<1>8. CASE drains_count[url] = 1
  <2>1. drains' = [drains EXCEPT ![url] = 0]
    BY <1>3, <1>4, <1>8
  <2>2. GivenUp' = [GivenUp EXCEPT ![url] = drains[url]]
    <3>1. \A u \in Urls \ {url} : drains'[u] = drains[u]
      BY <1>2, <2>1 DEF TypeOK
    <3>2. drains'[url] = 0
      BY <1>2, <2>1 DEF TypeOK
    <3> QED BY <1>3, <1>4, <3>1, <3>2 DEF GivenUp
  <2> QED BY <1>1, <1>3, <1>6, <1>7, <1>8, <2>1, <2>2 DEF Abstract!Leave
<1>9. CASE drains_count[url] # 1
  BY <1>1, <1>3, <1>6, <1>7, <1>9 DEF Abstract!Leave, GivenUp
<1> QED BY <1>8, <1>9

\* The registry implements the shared pools: callers of Dial and Undial cannot
\* tell it from one pool per destination that lives while it is used.
THEOREM Refinement == Spec => ImplementsSharedPools
<1>1. Init => Abstract!Init
  BY DEF Init, Abstract!Init, GivenUp
<1>2. IInv /\ [Next]_vars => [Abstract!Next]_Abstract!poolVars
  <2> SUFFICES ASSUME IInv, [Next]_vars
               PROVE  Abstract!Next \/ UNCHANGED Abstract!poolVars
    OBVIOUS
  <2>1. ASSUME NEW r \in Routes, DialShare(r) \/ DialConnected(r)
        PROVE  Abstract!Next
    BY <2>1, DialIsJoin DEF Abstract!Next
  <2>2. ASSUME NEW r \in Routes, Release(r)  PROVE Abstract!Next
    BY <2>2, ReleaseIsLeave DEF Abstract!Next
  <2>3. CASE UNCHANGED vars
    BY <2>3 DEF vars, registry, Abstract!poolVars, GivenUp
  <2>4. CASE \/ \E r \in Routes : \/ DialBegin(r) \/ DialRefused(r) \/ DialQueue(r)
                                \/ DialUnsupported(r) \/ DialOpen(r) \/ DialFailed(r)
             \/ ClearBadHosts
    BY <2>4 DEF registry, Abstract!poolVars, GivenUp, DialBegin, DialRefused,
       DialQueue, DialUnsupported, DialOpen, DialFailed, ClearBadHosts
  <2> QED BY <2>1, <2>2, <2>3, <2>4 DEF Next, DialStep, Acquire
<1>3. QED
  BY <1>1, <1>2, IInvInvariant, PTL DEF Spec, Abstract!Spec, ImplementsSharedPools
=============================================================================
