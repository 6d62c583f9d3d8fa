---------------------------- MODULE ShuttleProofs ---------------------------
(***************************************************************************)
(* Proofs about the route table: for any routes, apps, destinations and    *)
(* forwarders, the table, the registry and storage agree in every          *)
(* interleaving of API calls, adders, removal passes, messages and         *)
(* restarts, as long as of each app at most one deleted route waits to be  *)
(* dropped (MaxStale <= 1).                                                *)
(***************************************************************************)
EXTENDS Shuttle, PacketLines, FiniteSetTheorems, WellFoundedInduction

(***************************************************************************)
(* The inductive invariant: types...                                       *)
(***************************************************************************)
RegistryTyped ==
  /\ drains \in [Urls -> Nat] /\ drains_count \in [Urls -> Nat]
  /\ opened \in [Urls -> Nat] /\ closing \in [Urls -> SUBSET Nat]
  /\ drains_mutex \in BOOLEAN
  /\ call \in [Routes -> D!CallState] /\ handle \in [Routes -> Nat]

TableTyped ==
  /\ stored \subseteq issued /\ issued \subseteq Routes
  /\ routes \in [Keys -> Seq(Destination)]
  /\ route_keys \in Seq(Keys)
  /\ refresh \in Pass
  /\ adder \in [Routes -> {"none", "check", "dial"}]

SendersTyped == fwd \in [Forwarders -> {Waiting} \cup Message]

(***************************************************************************)
(* ... the table: a route is at most once in the slice of its own key, and *)
(* the keys of the slices that are not empty are known...                  *)
(***************************************************************************)
OwnKey == \A k \in Keys : \A i \in DOMAIN routes[k] : Key[routes[k][i].route] = k

Once == \A k \in Keys : \A i, j \in DOMAIN routes[k] :
          routes[k][i].route = routes[k][j].route => i = j

KeysKnown == \A k \in Keys : routes[k] # <<>> => k \in ToSet(route_keys)

(***************************************************************************)
(* ... what adders do, and that a route that has one is not in the         *)
(* table...                                                                *)
(***************************************************************************)
AddersAdd ==
  \A r \in Routes :
    /\ adder[r] # "dial" => call[r] = "idle" /\ handle[r] = 0
    /\ call[r] # "idle" => handle[r] = 0
    /\ adder[r] # "none" => refresh.at = "adding" /\ r \in refresh.pkg /\ ~InTable(r)

(***************************************************************************)
(* ... the registry: who uses a pool is an entry of the table or an adder  *)
(* that was given it, and they are counted...                              *)
(***************************************************************************)
InitAlone ==
  \A r \in Routes : call[r] = "init" =>
    drains_mutex /\ drains[Url[r]] = 0 /\ \A s \in Routes : call[s] = "init" => s = r

Users(url) == {r \in Routes : Url[r] = url /\ (handle[r] # 0 \/ InTable(r))}

CountIsUsers == \A url \in Urls : drains_count[url] = Cardinality(Users(url))

PoolsCounted == \A url \in Urls : drains[url] # 0 => drains_count[url] > 0

PoolsAccounted ==
  \A url \in Urls : /\ closing[url] = (1..opened[url]) \ {drains[url]}
                    /\ drains[url] \in {0, opened[url]}

HeldOpen == \A r \in Routes : handle[r] # 0 => handle[r] = drains[Url[r]]

TableOpen ==
  \A k \in Keys : \A i \in DOMAIN routes[k] :
    routes[k][i].pool = drains[Url[routes[k][i].route]] /\ routes[k][i].pool # 0

(***************************************************************************)
(* ... the refresh: the table has what storage had, but for routes deleted *)
(* since, of which there is one of a key at most; the removal pass leaves  *)
(* nothing else behind it, and where it cut a route out, nothing that it   *)
(* skips has to be cut out...                                              *)
(***************************************************************************)
TableRead ==
  /\ refresh.pkg \subseteq issued
  /\ \A r \in Routes : InTable(r) =>
       /\ r \in issued
       /\ r \in refresh.pkg \/ (refresh.at # "idle" /\ r \notin stored)

OneStale == \A r, s \in Routes : Key[r] = Key[s] /\ Stale(r) /\ Stale(s) => r = s

\* The slice the pass is at: not cut yet and read up to ndx, or cut.
Uncut(k) == /\ refresh.view = routes[k]
            /\ \A i \in 1..(refresh.ndx - 1) : routes[k][i].route \in refresh.pkg
Cleared(k) == /\ TableIds(k) \subseteq refresh.pkg
              /\ \A i \in refresh.ndx..Len(refresh.view) : refresh.view[i].route \in refresh.pkg

PassPlace ==
  IF refresh.at = "removing"
    THEN /\ refresh.key \in 0..Len(route_keys)
         /\ refresh.ndx \in 1..(Len(refresh.view) + 1)
         /\ IF refresh.key = 0
              THEN refresh.view = <<>>
              ELSE Uncut(route_keys[refresh.key]) \/ Cleared(route_keys[refresh.key])
         /\ \A j \in 1..(refresh.key - 1) : TableIds(route_keys[j]) \subseteq refresh.pkg
    ELSE refresh.key = 0 /\ refresh.view = <<>> /\ refresh.ndx = 1

(***************************************************************************)
(* ... and a message whose slice was not cut: it is at its place in what   *)
(* the table was when it came, which the table still starts with.          *)
(***************************************************************************)
Ids(s) == {s[i].route : i \in DOMAIN s}

Sending(m) ==
  LET done == IF m.at = "pick" THEN m.next - 1 ELSE m.next - 2
  IN /\ m.next \in 1..(Len(m.view) + 1)
     /\ m.due = Ids(m.view)
     /\ \A i, j \in DOMAIN m.view : m.view[i].route = m.view[j].route => i = j
     /\ Len(m.sent) = done
     /\ \A i \in 1..done : m.sent[i] = m.view[i].route
     /\ m.at = "send" => m.next > 1 /\ m.dest = m.view[m.next - 1]

StartsWith(s, view) == Len(view) <= Len(s) /\ \A i \in 1..Len(view) : view[i] = s[i]

Placed(m, table) == /\ Sending(m)
                    /\ m.shared => StartsWith(table[m.key], m.view)

MessagesPlaced ==
  \A f \in Forwarders : fwd[f].at # "wait" /\ ~fwd[f].torn => Placed(fwd[f], routes)

Registry == RegistryTyped /\ InitAlone /\ CountIsUsers /\ PoolsCounted /\ PoolsAccounted /\ HeldOpen /\ TableOpen
Table == TableTyped /\ OwnKey /\ Once /\ KeysKnown /\ AddersAdd
Refreshed == TableRead /\ OneStale /\ PassPlace
Senders == SendersTyped /\ MessagesPlaced

IInv == Registry /\ Table /\ Refreshed /\ Senders

(***************************************************************************)
(* The table and what the actions do to it.                                *)
(***************************************************************************)
\* The routes of a slice are those of its key that are in the table.
LEMMA SliceIsKey ==
  TableTyped /\ OwnKey =>
    \A k \in Keys : TableIds(k) = {r \in Routes : Key[r] = k /\ InTable(r)}
<1> SUFFICES ASSUME TableTyped, OwnKey, NEW k \in Keys
             PROVE  TableIds(k) = {r \in Routes : Key[r] = k /\ InTable(r)}
  OBVIOUS
<1>1. \A i \in DOMAIN routes[k] : routes[k][i].route \in Routes /\ Key[routes[k][i].route] = k
  <2>1. routes[k] \in Seq(Destination)  BY DEF TableTyped
  <2>2. \A i \in DOMAIN routes[k] : routes[k][i] \in Destination  BY <2>1
  <2> QED  BY <2>2 DEF OwnKey, Destination
<1> QED  BY <1>1, Zenon DEF TableIds, InTable

LEMMA SliceIsKeyNext ==
  (TableTyped /\ OwnKey => \A k \in Keys : TableIds(k) = {r \in Routes : Key[r] = k /\ InTable(r)})'
BY SliceIsKey, PTL

\* A slice that did not change has the same routes.
LEMMA InTableUnchanged ==
  ASSUME UNCHANGED routes
  PROVE  /\ \A r \in Routes : InTable(r)' <=> InTable(r)
         /\ \A k \in Keys : TableIds(k)' = TableIds(k)
BY DEF InTable, TableIds

\* An adder appends its destination to the slice of its key.
LEMMA AddEffect ==
  ASSUME TableTyped, RegistryTyped, NEW r \in Routes, AdderAdd(r)
  PROVE  LET k == Key[r]
             d == [route |-> r, pool |-> handle[r]]
         IN /\ k \in Keys /\ d \in Destination /\ d.route = r /\ d.pool = handle[r]
            /\ routes' \in [Keys -> Seq(Destination)]
            /\ DOMAIN routes[k] = 1..Len(routes[k])
            /\ DOMAIN routes'[k] = 1..(Len(routes[k]) + 1)
            /\ \A i \in DOMAIN routes[k] : routes'[k][i] = routes[k][i]
            /\ routes'[k][Len(routes[k]) + 1] = d
            /\ \A j \in Keys \ {k} : routes'[j] = routes[j]
            /\ \A s \in Routes : InTable(s)' <=> InTable(s) \/ s = r
<1> DEFINE k == Key[r]
           d == [route |-> r, pool |-> handle[r]]
<1>1. k \in Keys /\ d \in Destination /\ d.route = r /\ d.pool = handle[r]
  BY RoutesHaveKeys DEF RegistryTyped, Destination
<1>2. routes' = [routes EXCEPT ![k] = Append(routes[k], d)]
  BY DEF AdderAdd, Longer
<1>3. routes[k] \in Seq(Destination)  BY <1>1 DEF TableTyped
<1> HIDE DEF d
<1>4. /\ Append(routes[k], d) \in Seq(Destination)
      /\ DOMAIN routes[k] = 1..Len(routes[k])
      /\ DOMAIN Append(routes[k], d) = 1..(Len(routes[k]) + 1)
      /\ \A i \in 1..Len(routes[k]) : Append(routes[k], d)[i] = routes[k][i]
      /\ Append(routes[k], d)[Len(routes[k]) + 1] = d
  BY <1>1, <1>3
<1>5. /\ routes'[k] = Append(routes[k], d)
      /\ \A j \in Keys \ {k} : routes'[j] = routes[j]
      /\ routes' \in [Keys -> Seq(Destination)]
  BY <1>1, <1>2, <1>4 DEF TableTyped
<1>6. ASSUME NEW s \in Routes  PROVE InTable(s)' <=> InTable(s) \/ s = r
  <2>1. CASE Key[s] # k
    <3>1. Key[s] \in Keys /\ s # r  BY <2>1, RoutesHaveKeys
    <3> QED  BY <2>1, <3>1, <1>5 DEF InTable, TableIds
  <2>2. CASE Key[s] = k
    <3>1. Len(routes[k]) \in Nat  BY <1>3
    <3>2. /\ Len(routes[k]) + 1 \in 1..(Len(routes[k]) + 1)
          /\ \A i \in 1..(Len(routes[k]) + 1) : i \in 1..Len(routes[k]) \/ i = Len(routes[k]) + 1
          /\ 1..Len(routes[k]) \subseteq 1..(Len(routes[k]) + 1)
      BY <3>1
    <3>3. ASSUME NEW i \in DOMAIN routes'[k], routes'[k][i].route = s
          PROVE  InTable(s) \/ s = r
      BY <2>2, <3>2, <3>3, <1>1, <1>4, <1>5, Zenon DEF InTable, TableIds
    <3>4. ASSUME NEW i \in DOMAIN routes[k], routes[k][i].route = s
          PROVE  InTable(s)'
      <4>1. i \in DOMAIN routes'[k] /\ routes'[k][i].route = s
        BY <3>2, <3>4, <1>4, <1>5
      <4> QED  BY <4>1, <2>2, Zenon DEF InTable, TableIds
    <3>5. s = r => InTable(s)'
      <4>1. Len(routes[k]) + 1 \in DOMAIN routes'[k] /\ routes'[k][Len(routes[k]) + 1].route = r
        BY <3>2, <1>1, <1>4, <1>5
      <4> QED  BY <4>1, <2>2, Zenon DEF InTable, TableIds
    <3>6. InTable(s) => \E i \in DOMAIN routes[k] : routes[k][i].route = s
      BY <2>2, Zenon DEF InTable, TableIds
    <3>7. InTable(s)' => \E i \in DOMAIN routes'[k] : routes'[k][i].route = s
      BY <2>2, Zenon DEF InTable, TableIds
    <3> QED  BY <3>3, <3>4, <3>5, <3>6, <3>7, Zenon
  <2> QED  BY <2>1, <2>2
<1> QED  BY <1>1, <1>4, <1>5, <1>6 DEF d

\* The removal pass cuts out one route, which no later part of it needs: the
\* others that storage had not would be deleted routes of the same key too.
LEMMA RemoveFinds ==
  ASSUME Table, Refreshed, RefreshRemove
  PROVE  LET k == route_keys[refresh.key]
             n == refresh.ndx
         IN /\ k \in Keys /\ refresh.view = routes[k]
            /\ n \in 1..Len(routes[k])
            /\ routes[k][n].route \in Routes /\ routes[k][n].route \notin refresh.pkg
            /\ \A i \in DOMAIN routes[k] : i # n => routes[k][i].route \in refresh.pkg
<1> DEFINE k == route_keys[refresh.key]
           n == refresh.ndx
           v == refresh.view
<1>1. /\ refresh.at = "removing" /\ n <= Len(v) /\ v[n].route \notin refresh.pkg
  BY DEF RefreshRemove
<1>2. /\ v \in Seq(Destination) /\ n \in Nat /\ refresh.key \in Nat /\ route_keys \in Seq(Keys)
  BY DEF Table, TableTyped, Pass
<1>3. /\ refresh.key \in 0..Len(route_keys) /\ n \in 1..(Len(v) + 1)
      /\ IF refresh.key = 0 THEN v = <<>> ELSE Uncut(k) \/ Cleared(k)
  BY <1>1 DEF Refreshed, PassPlace
<1>4. n \in 1..Len(v) /\ n \in n..Len(v)  BY <1>1, <1>2, <1>3
<1>5. refresh.key # 0 /\ k \in Keys  BY <1>2, <1>3, <1>4
<1>6. ~Cleared(k)  BY <1>1, <1>4 DEF Cleared
<1>7. v = routes[k] /\ Uncut(k)  BY <1>3, <1>5, <1>6 DEF Uncut
<1>8. ASSUME NEW i \in DOMAIN routes[k]
      PROVE  routes[k][i].route \in Routes /\ Key[routes[k][i].route] = k /\ InTable(routes[k][i].route)
  <2>1. routes[k][i].route \in Routes
    <3>1. routes[k] \in Seq(Destination)  BY <1>2, <1>7
    <3>2. routes[k][i] \in Destination  BY <3>1
    <3> QED  BY <3>2 DEF Destination
  <2>2. Key[routes[k][i].route] = k  BY <1>5 DEF Table, OwnKey
  <2> QED  BY <2>1, <2>2 DEF InTable, TableIds
<1>9. DOMAIN routes[k] = 1..Len(routes[k])  BY <1>2, <1>7
<1>10. ASSUME NEW i \in DOMAIN routes[k], routes[k][i].route \notin refresh.pkg
       PROVE  Stale(routes[k][i].route)
  BY <1>1, <1>8, <1>10 DEF Refreshed, TableRead, Stale
<1>11. ASSUME NEW i \in DOMAIN routes[k], i # n  PROVE routes[k][i].route \in refresh.pkg
  <2> SUFFICES ASSUME routes[k][i].route \notin refresh.pkg  PROVE FALSE  OBVIOUS
  <2>1. routes[k][i].route = routes[k][n].route
    BY <1>1, <1>4, <1>7, <1>8, <1>9, <1>10 DEF Refreshed, OneStale
  <2> QED  BY <2>1, <1>4, <1>5, <1>7, <1>9, <1>11 DEF Table, Once
<1> QED  BY <1>1, <1>4, <1>5, <1>7, <1>8, <1>9, <1>11

\* What is left is the other routes, in their order.
LEMMA RemoveEffect ==
  ASSUME Table, Refreshed, RefreshRemove
  PROVE  LET k == route_keys[refresh.key]
             n == refresh.ndx
             r == routes[k][n].route
         IN /\ routes' \in [Keys -> Seq(Destination)]
            /\ DOMAIN routes'[k] = 1..(Len(routes[k]) - 1)
            /\ \A i \in DOMAIN routes'[k] :
                 routes'[k][i] = IF i < n THEN routes[k][i] ELSE routes[k][i + 1]
            /\ \A j \in Keys \ {k} : routes'[j] = routes[j]
            /\ \A s \in Routes : InTable(s)' <=> InTable(s) /\ s # r
<1> DEFINE k == route_keys[refresh.key]
           n == refresh.ndx
           r == routes[k][n].route
           cut == RemoveAt(routes[k], n)
<1>1. /\ k \in Keys /\ refresh.view = routes[k] /\ n \in 1..Len(routes[k]) /\ r \in Routes
  BY RemoveFinds
<1>2. routes' = [routes EXCEPT ![k] = cut]
  BY <1>1 DEF RefreshRemove, Cut
<1>3. routes \in [Keys -> Seq(Destination)] /\ routes[k] \in Seq(Destination)
  BY <1>1 DEF Table, TableTyped
<1>4. /\ cut \in Seq(Destination)
      /\ Len(cut) = Len(routes[k]) - 1
      /\ \A i \in 1..(Len(routes[k]) - 1) : cut[i] = IF i < n THEN routes[k][i] ELSE routes[k][i + 1]
  BY <1>1, <1>3, RemovedAt
<1> HIDE DEF cut, k, n
<1>5. DOMAIN cut = 1..(Len(routes[k]) - 1) /\ DOMAIN routes[k] = 1..Len(routes[k]) /\ Len(routes[k]) \in Nat
  BY <1>3, <1>4
<1>6. /\ routes'[k] = cut
      /\ \A j \in Keys \ {k} : routes'[j] = routes[j]
      /\ routes' \in [Keys -> Seq(Destination)]
  BY <1>1, <1>2, <1>3, <1>4
<1>7. ASSUME NEW s \in Routes  PROVE InTable(s)' <=> InTable(s) /\ s # r
  <2>1. CASE Key[s] # k
    <3>1. Key[s] \in Keys /\ s # r
      BY <1>1, <1>5, <2>1, RoutesHaveKeys DEF Table, OwnKey
    <3> QED  BY <2>1, <3>1, <1>6 DEF InTable, TableIds
  <2>2. CASE Key[s] = k
    <3>1. InTable(s) => \E i \in DOMAIN routes[k] : routes[k][i].route = s
      BY <2>2, Zenon DEF InTable, TableIds
    <3>2. InTable(s)' => \E i \in DOMAIN cut : cut[i].route = s
      BY <2>2, <1>6, Zenon DEF InTable, TableIds
    <3>3. ASSUME NEW i \in DOMAIN cut, cut[i].route = s  PROVE InTable(s) /\ s # r
      <4>1. PICK j \in DOMAIN routes[k] : j # n /\ cut[i] = routes[k][j]
        <5>1. CASE i < n  BY <5>1, <1>1, <1>4, <1>5
        <5>2. CASE i >= n
          <6>1. i + 1 \in DOMAIN routes[k] /\ i + 1 # n  BY <5>2, <1>1, <1>5
          <6> QED  BY <5>2, <6>1, <1>1, <1>4, <1>5
        <5> QED  BY <5>1, <5>2, <1>1, <1>5
      <4>2. InTable(s)  BY <2>2, <3>3, <4>1, Zenon DEF InTable, TableIds
      <4>3. s # r  BY <3>3, <4>1, <1>1, <1>5 DEF Table, Once
      <4> QED  BY <4>2, <4>3
    <3>4. ASSUME NEW j \in DOMAIN routes[k], routes[k][j].route = s, s # r
          PROVE  InTable(s)'
      <4>1. j # n  BY <3>4
      <4>2. PICK i \in DOMAIN cut : cut[i] = routes[k][j]
        <5>1. CASE j < n  BY <5>1, <1>1, <1>4, <1>5
        <5>2. CASE j > n
          <6>1. j - 1 \in DOMAIN cut /\ ~(j - 1 < n) /\ (j - 1) + 1 = j  BY <5>2, <1>1, <1>5
          <6> QED  BY <6>1, <1>4, <1>5
        <5> QED  BY <4>1, <5>1, <5>2, <1>1, <1>5
      <4> QED  BY <2>2, <3>4, <4>2, <1>6, Zenon DEF InTable, TableIds
    <3> QED  BY <3>1, <3>2, <3>3, <3>4
  <2> QED  BY <2>1, <2>2
<1> QED  BY <1>4, <1>5, <1>6, <1>7 DEF k, n

(***************************************************************************)
(* The registry.                                                           *)
(***************************************************************************)
registryVars == <<drains, drains_count, drains_mutex, opened, closing, call, handle>>

LEMMA UsersFinite ==
  ASSUME NEW url
  PROVE  IsFiniteSet(Users(url)) /\ Cardinality(Users(url)) \in Nat
<1>1. Users(url) \in SUBSET Routes  BY DEF Users
<1>2. IsFiniteSet(Users(url))  BY <1>1, FS_Subset, RoutesFinite
<1> QED  BY <1>2, FS_CardinalityType

LEMMA RegistryUnchanged ==
  ASSUME Registry, UNCHANGED <<registryVars, routes>>
  PROVE  Registry'
<1> USE DEF registryVars, Registry
<1>1. \A r \in Routes : InTable(r)' <=> InTable(r)  BY InTableUnchanged
<1>2. \A url : Users(url)' = Users(url)  BY <1>1 DEF Users
<1>3. CountIsUsers'  BY <1>2 DEF CountIsUsers
<1> QED  BY <1>3 DEF RegistryTyped, InitAlone, PoolsCounted, PoolsAccounted, HeldOpen, TableOpen

\* The steps of Dial that return no drain.
LEMMA DialKeepsRegistry ==
  ASSUME Registry, UNCHANGED routes, NEW r \in Routes,
         \/ D!DialBegin(r) \/ D!DialRefused(r) \/ D!DialQueue(r)
         \/ D!DialUnsupported(r) \/ D!DialOpen(r) \/ D!DialFailed(r)
  PROVE  Registry'
<1>1. /\ UNCHANGED <<drains, drains_count, opened, closing, handle>>
      /\ drains_mutex' \in BOOLEAN
  BY DEF Registry, RegistryTyped, D!registry, D!DialBegin, D!DialRefused, D!DialQueue,
         D!DialUnsupported, D!DialOpen, D!DialFailed
<1>2. RegistryTyped'
  BY <1>1 DEF Registry, RegistryTyped, D!CallState, D!Goto, D!DialBegin, D!DialRefused,
         D!DialQueue, D!DialUnsupported, D!DialOpen, D!DialFailed
<1>3. InitAlone'
  BY DEF Registry, RegistryTyped, InitAlone, D!CallState, D!registry, D!Goto, D!DialBegin,
         D!DialRefused, D!DialQueue, D!DialUnsupported, D!DialOpen, D!DialFailed
<1>4. \A url : Users(url)' = Users(url)  BY <1>1, InTableUnchanged DEF Users
<1>5. CountIsUsers'  BY <1>1, <1>4 DEF Registry, CountIsUsers
<1>6. (PoolsCounted /\ PoolsAccounted /\ HeldOpen /\ TableOpen)'
  BY <1>1 DEF Registry, PoolsCounted, PoolsAccounted, HeldOpen, TableOpen
<1> QED  BY <1>2, <1>3, <1>5, <1>6 DEF Registry

\* An adder is given the live pool of its URL.
LEMMA ShareKeepsRegistry ==
  ASSUME Registry, Table, UNCHANGED routes, NEW r \in Routes, D!DialShare(r)
  PROVE  Registry'
<1>1. PICK url \in Urls : url = Url[r]  BY RoutesHaveUrls
<1>2. /\ call[r] = "lock" /\ drains[url] # 0
      /\ drains_count' = [drains_count EXCEPT ![url] = @ + 1]
      /\ handle' = [handle EXCEPT ![r] = drains[url]]
      /\ call' = [call EXCEPT ![r] = "idle"]
      /\ UNCHANGED <<drains, opened, closing, drains_mutex>>
  BY <1>1 DEF D!DialShare, D!Goto
<1>3. RegistryTyped /\ drains_count[url] \in Nat /\ drains[url] \in Nat  BY DEF Registry, RegistryTyped
<1>4. RegistryTyped'
  <2>1. call' \in [Routes -> D!CallState]  BY <1>2, <1>3 DEF RegistryTyped, D!CallState
  <2>2. drains_count' \in [Urls -> Nat] /\ handle' \in [Routes -> Nat]
    BY <1>2, <1>3 DEF RegistryTyped
  <2> QED  BY <1>2, <1>3, <2>1, <2>2 DEF RegistryTyped
<1>5. InitAlone'  BY <1>2, <1>3 DEF Registry, RegistryTyped, InitAlone
<1>6. r \notin Users(url)
  BY <1>2 DEF Table, AddersAdd, Users
<1>7. /\ Users(url)' = Users(url) \cup {r}
      /\ \A other \in Urls \ {url} : Users(other)' = Users(other)
  BY <1>1, <1>2, <1>3, InTableUnchanged DEF RegistryTyped, Users
<1>8. Cardinality(Users(url)') = Cardinality(Users(url)) + 1
  BY <1>6, <1>7, UsersFinite, FS_AddElement
<1>9. CountIsUsers'  BY <1>2, <1>3, <1>7, <1>8 DEF Registry, RegistryTyped, CountIsUsers
<1>10. (PoolsCounted /\ PoolsAccounted /\ TableOpen)'
  BY <1>2, <1>3 DEF Registry, RegistryTyped, PoolsCounted, PoolsAccounted, TableOpen
<1>11. HeldOpen'  BY <1>1, <1>2, <1>3 DEF Registry, RegistryTyped, HeldOpen
<1> QED  BY <1>4, <1>5, <1>9, <1>10, <1>11 DEF Registry

\* An entry of the table names a registered URL.
LEMMA EntryUsed ==
  ASSUME Registry, TableTyped, NEW k \in Keys, NEW i \in DOMAIN routes[k]
  PROVE  /\ routes[k][i] \in Destination /\ routes[k][i].route \in Routes /\ routes[k][i].pool \in Nat
         /\ Url[routes[k][i].route] \in Urls /\ drains[Url[routes[k][i].route]] # 0
<1>1. routes[k] \in Seq(Destination)  BY DEF TableTyped
<1>2. routes[k][i] \in Destination  BY <1>1
<1>3. routes[k][i].route \in Routes /\ routes[k][i].pool \in Nat  BY <1>2 DEF Destination
<1> QED  BY <1>2, <1>3, RoutesHaveUrls DEF Registry, TableOpen

\* An adder registers a new pool: nobody used the URL.
LEMMA ConnectedKeepsRegistry ==
  ASSUME Registry, Table, UNCHANGED routes, NEW r \in Routes, D!DialConnected(r)
  PROVE  Registry'
<1>1. PICK url \in Urls : url = Url[r]  BY RoutesHaveUrls
<1>2. /\ call[r] = "init"
      /\ opened' = [opened EXCEPT ![url] = @ + 1]
      /\ drains' = [drains EXCEPT ![url] = opened[url] + 1]
      /\ drains_count' = [drains_count EXCEPT ![url] = 1]
      /\ handle' = [handle EXCEPT ![r] = opened[url] + 1]
      /\ drains_mutex' = FALSE
      /\ call' = [call EXCEPT ![r] = "idle"]
      /\ UNCHANGED closing
  BY <1>1 DEF D!DialConnected, D!Goto
<1>3. RegistryTyped  BY DEF Registry
<1>4. drains[url] = 0  BY <1>1, <1>2 DEF Registry, InitAlone
<1>5. RegistryTyped'
  <2>1. /\ drains' \in [Urls -> Nat] /\ drains_count' \in [Urls -> Nat]
        /\ opened' \in [Urls -> Nat] /\ handle' \in [Routes -> Nat]
    BY <1>2, <1>3 DEF RegistryTyped
  <2>2. call' \in [Routes -> D!CallState]  BY <1>2, <1>3 DEF RegistryTyped, D!CallState
  <2> QED  BY <1>2, <1>3, <2>1, <2>2 DEF RegistryTyped
<1>6. InitAlone'  BY <1>2, <1>3 DEF Registry, RegistryTyped, InitAlone
<1>7. \A k \in Keys : \A i \in DOMAIN routes[k] :
        Url[routes[k][i].route] \in Urls \ {url}
  BY <1>4, EntryUsed DEF Table
<1>8. \A s \in Routes : InTable(s) => Url[s] # url
  BY <1>7, RoutesHaveKeys DEF InTable, TableIds
<1>9. \A s \in Routes : handle[s] # 0 => Url[s] # url
  BY <1>4 DEF Registry, HeldOpen
<1>10. /\ Users(url)' = {r}
       /\ \A other \in Urls \ {url} : Users(other)' = Users(other)
  BY <1>1, <1>2, <1>3, <1>8, <1>9, InTableUnchanged DEF RegistryTyped, Users
<1>11. CountIsUsers'
  <2>1. Cardinality(Users(url)') = 1  BY <1>10, FS_Singleton
  <2> QED  BY <1>2, <1>3, <1>10, <2>1 DEF Registry, RegistryTyped, CountIsUsers
<1>12. PoolsCounted'  BY <1>2, <1>3 DEF Registry, RegistryTyped, PoolsCounted
<1>13. PoolsAccounted'  BY <1>2, <1>3, <1>4 DEF Registry, RegistryTyped, PoolsAccounted
<1>14. \A u \in Urls \ {url} : drains'[u] = drains[u]  BY <1>2, <1>3 DEF RegistryTyped
<1>15. HeldOpen'
  <2> SUFFICES ASSUME NEW s \in Routes, handle'[s] # 0  PROVE handle'[s] = drains'[Url[s]]
    BY DEF HeldOpen
  <2>1. CASE s = r  BY <1>1, <1>2, <1>3, <2>1 DEF RegistryTyped
  <2>2. CASE s # r
    <3>1. handle'[s] = handle[s]  BY <1>2, <1>3, <2>2 DEF RegistryTyped
    <3> QED  BY <1>9, <1>14, <3>1, RoutesHaveUrls DEF Registry, HeldOpen
  <2> QED  BY <2>1, <2>2
<1>16. TableOpen'  BY <1>7, <1>14 DEF Registry, TableOpen
<1> QED  BY <1>5, <1>6, <1>11, <1>12, <1>13, <1>15, <1>16 DEF Registry

\* The use of the adder becomes that of the entry.
LEMMA AddKeepsRegistry ==
  ASSUME Registry, Table, NEW r \in Routes, AdderAdd(r)
  PROVE  Registry'
<1> DEFINE k == Key[r]
           d == [route |-> r, pool |-> handle[r]]
           n == Len(routes[k])
<1>1. /\ k \in Keys /\ d.route = r /\ d.pool = handle[r]
      /\ DOMAIN routes[k] = 1..n /\ DOMAIN routes'[k] = 1..(n + 1)
      /\ \A i \in DOMAIN routes[k] : routes'[k][i] = routes[k][i]
      /\ routes'[k][n + 1] = d
      /\ \A j \in Keys \ {k} : routes'[j] = routes[j]
      /\ \A s \in Routes : InTable(s)' <=> InTable(s) \/ s = r
  BY AddEffect DEF Table, Registry
<1>2. /\ handle[r] # 0 /\ handle' = [handle EXCEPT ![r] = 0]
      /\ UNCHANGED <<drains, drains_count, drains_mutex, opened, closing, call>>
  BY DEF AdderAdd
<1>3. RegistryTyped  BY DEF Registry
<1>4. n \in Nat  BY <1>1 DEF Table, TableTyped
<1> HIDE DEF k, d, n
<1>5. RegistryTyped'  BY <1>2, <1>3 DEF RegistryTyped
<1>6. \A url : Users(url)' = Users(url)  BY <1>1, <1>2, <1>3 DEF Users, RegistryTyped
<1>7. CountIsUsers'  BY <1>2, <1>6 DEF Registry, CountIsUsers
<1>8. (InitAlone /\ PoolsCounted /\ PoolsAccounted)'
  BY <1>2 DEF Registry, InitAlone, PoolsCounted, PoolsAccounted
<1>9. HeldOpen'  BY <1>2, <1>3 DEF Registry, RegistryTyped, HeldOpen
<1>10. TableOpen'
  <2>1. ASSUME NEW j \in Keys, NEW i \in DOMAIN routes'[j]
        PROVE  /\ routes'[j][i].pool = drains[Url[routes'[j][i].route]]
               /\ routes'[j][i].pool # 0
    <3>1. CASE j # k
      <4>1. routes'[j] = routes[j]  BY <1>1, <3>1, Zenon
      <4>2. i \in DOMAIN routes[j]  BY <4>1
      <4>3. TableOpen  BY DEF Registry
      <4>4. /\ routes[j][i].pool = drains[Url[routes[j][i].route]]
            /\ routes[j][i].pool # 0
        BY <4>2, <4>3 DEF TableOpen
      <4> QED  BY <4>1, <4>4
    <3>2. CASE j = k /\ i \in 1..n
      <4>1. i \in DOMAIN routes[k] /\ routes'[j][i] = routes[k][i]  BY <1>1, <3>2
      <4>2. TableOpen  BY DEF Registry
      <4>3. /\ routes[k][i].pool = drains[Url[routes[k][i].route]]
            /\ routes[k][i].pool # 0
        BY <1>1, <4>1, <4>2 DEF TableOpen
      <4> QED  BY <4>1, <4>3
    <3>3. CASE j = k /\ i = n + 1
      <4>1. routes'[j][i] = d  BY <1>1, <3>3
      <4>2. handle[r] = drains[Url[r]]  BY <1>2 DEF Registry, HeldOpen
      <4> QED  BY <1>1, <1>2, <4>1, <4>2
    <3>4. j = k => i \in 1..n \/ i = n + 1
      <4>1. j = k => i \in 1..(n + 1)  BY <1>1, <2>1
      <4> QED  BY <1>4, <4>1
    <3> QED  BY <3>1, <3>2, <3>3, <3>4
  <2> QED  BY <1>2, <2>1 DEF TableOpen
<1> QED  BY <1>5, <1>7, <1>8, <1>9, <1>10 DEF Registry

\* An entry that is left after a removal was there before it.
LEMMA LeftWasThere ==
  ASSUME Table, Refreshed, RefreshRemove, NEW j \in Keys, NEW i \in DOMAIN routes'[j]
  PROVE  LET r == routes[route_keys[refresh.key]][refresh.ndx].route
         IN \E m \in DOMAIN routes[j] : routes'[j][i] = routes[j][m] /\ routes[j][m].route # r
<1> DEFINE k == route_keys[refresh.key]
           n == refresh.ndx
           r == routes[k][n].route
<1>1. /\ k \in Keys /\ n \in 1..Len(routes[k])
      /\ DOMAIN routes'[k] = 1..(Len(routes[k]) - 1)
      /\ \A m \in DOMAIN routes'[k] : routes'[k][m] = IF m < n THEN routes[k][m] ELSE routes[k][m + 1]
      /\ \A m \in Keys \ {k} : routes'[m] = routes[m]
  BY RemoveFinds, RemoveEffect
<1>2. routes[k] \in Seq(Destination)  BY <1>1 DEF Table, TableTyped
<1>3. DOMAIN routes[k] = 1..Len(routes[k]) /\ Len(routes[k]) \in Nat  BY <1>2
<1> HIDE DEF k, n
<1>4. CASE j # k
  <2>1. routes'[j] = routes[j]  BY <1>1, <1>4
  <2>2. routes[j][i].route # r
    <3>1. Key[routes[j][i].route] = j /\ Key[r] = k
      BY <1>1, <1>3, <2>1 DEF Table, OwnKey
    <3> QED  BY <1>4, <3>1
  <2> QED  BY <2>1, <2>2 DEF k, n
<1>5. CASE j = k
  <2>1. PICK m \in DOMAIN routes[k] : m # n /\ routes'[k][i] = routes[k][m]
    <3>1. i \in 1..(Len(routes[k]) - 1) /\ n \in Nat  BY <1>1, <1>3, <1>5
    <3>2. routes'[k][i] = IF i < n THEN routes[k][i] ELSE routes[k][i + 1]
      BY <1>1, <1>5
    <3>3. CASE i < n  BY <3>1, <3>2, <3>3, <1>1, <1>3
    <3>4. CASE i >= n
      <4>1. i + 1 \in DOMAIN routes[k] /\ i + 1 # n  BY <3>1, <3>4, <1>1, <1>3
      <4> QED  BY <3>1, <3>2, <3>4, <4>1
    <3> QED  BY <3>1, <3>3, <3>4
  <2>2. routes[k][m].route # r  BY <2>1, <1>1, <1>3 DEF Table, Once
  <2> QED  BY <1>5, <2>1, <2>2 DEF k, n
<1> QED  BY <1>4, <1>5

\* The removal pass gives back the use of the entry it cuts out; only the last
\* use of a URL closes its pool.
LEMMA RemoveKeepsRegistry ==
  ASSUME Registry, Table, Refreshed, RefreshRemove
  PROVE  Registry'
<1> DEFINE k == route_keys[refresh.key]
           n == refresh.ndx
           r == routes[k][n].route
           Left(j, i) == \E m \in DOMAIN routes[j] :
                           routes'[j][i] = routes[j][m] /\ routes[j][m].route # r
<1>1. /\ k \in Keys /\ refresh.view = routes[k] /\ n \in 1..Len(routes[k]) /\ r \in Routes
      /\ \A s \in Routes : InTable(s)' <=> InTable(s) /\ s # r
      /\ \A j \in Keys : \A i \in DOMAIN routes'[j] : Left(j, i)
  BY RemoveFinds, RemoveEffect, LeftWasThere
<1>2. refresh.at = "removing" /\ D!Undial(Url[r]) /\ UNCHANGED <<call, handle>>
  BY <1>1 DEF RefreshRemove, GiveBack
<1>3. PICK url \in Urls : url = Url[r]  BY <1>1, RoutesHaveUrls
<1>4. RegistryTyped  BY DEF Registry
<1>5. n \in DOMAIN routes[k]
  BY <1>1 DEF Table, TableTyped
<1> HIDE DEF k, n
<1>6. handle[r] = 0 /\ InTable(r)
  <2>1. handle[r] = 0  BY <1>1, <1>2 DEF Table, AddersAdd
  <2>2. Key[r] = k  BY <1>1, <1>5 DEF Table, OwnKey
  <2> QED  BY <1>5, <2>1, <2>2 DEF InTable, TableIds
<1>7. drains[url] # 0 /\ opened[url] > 0
  <2>1. drains[url] # 0  BY <1>1, <1>3, <1>5, EntryUsed DEF Table
  <2> QED  BY <2>1, <1>4 DEF Registry, RegistryTyped, PoolsAccounted
<1>8. drains_count[url] \in Nat /\ drains_count[url] > 0
  BY <1>4, <1>7 DEF Registry, RegistryTyped, PoolsCounted
<1>9. /\ drains_count' = [drains_count EXCEPT ![url] = @ - 1]
      /\ IF drains_count[url] = 1
           THEN /\ drains' = [drains EXCEPT ![url] = 0]
                /\ closing' = [closing EXCEPT ![url] = @ \cup {drains[url]}]
           ELSE UNCHANGED <<drains, closing>>
      /\ UNCHANGED <<drains_mutex, opened>>
  BY <1>2, <1>3, <1>7 DEF D!Undial, D!Counted, D!ClosePool
<1>10. /\ r \in Users(url)
       /\ Users(url)' = Users(url) \ {r}
       /\ \A other \in Urls \ {url} : Users(other)' = Users(other)
  BY <1>1, <1>2, <1>3, <1>6 DEF Users
<1>11. /\ IsFiniteSet(Users(url)')
       /\ Cardinality(Users(url)') = drains_count[url] - 1
  <2>1. Cardinality(Users(url)) = drains_count[url]  BY DEF Registry, CountIsUsers
  <2>2. IsFiniteSet(Users(url))  BY UsersFinite
  <2> QED  BY <1>10, <2>1, <2>2, FS_RemoveElement
<1>12. CountIsUsers'  BY <1>4, <1>9, <1>10, <1>11 DEF Registry, RegistryTyped, CountIsUsers
<1>13. RegistryTyped'
  <2>1. drains_count' \in [Urls -> Nat]  BY <1>4, <1>8, <1>9 DEF RegistryTyped
  <2>2. drains' \in [Urls -> Nat] /\ closing' \in [Urls -> SUBSET Nat]  BY <1>4, <1>9 DEF RegistryTyped
  <2> QED  BY <1>2, <1>4, <1>9, <2>1, <2>2 DEF RegistryTyped
<1>14. InitAlone'  BY <1>2, <1>4, <1>9, RoutesHaveUrls DEF Registry, RegistryTyped, InitAlone
<1>15. PoolsAccounted'  BY <1>4, <1>7, <1>9 DEF Registry, RegistryTyped, PoolsAccounted
<1>16. PoolsCounted'  BY <1>4, <1>8, <1>9 DEF Registry, RegistryTyped, PoolsCounted
<1>17. drains' # drains => drains' = [drains EXCEPT ![url] = 0] /\ Users(url)' = {}
  BY <1>8, <1>9, <1>11, FS_EmptySet
<1>18. HeldOpen'
  <2> SUFFICES ASSUME NEW s \in Routes, handle[s] # 0, drains' # drains
               PROVE  handle[s] = drains'[Url[s]]
    BY <1>2 DEF Registry, HeldOpen
  <2>1. Url[s] # url  BY <1>2, <1>17 DEF Users
  <2> QED  BY <1>4, <1>17, <2>1, RoutesHaveUrls DEF Registry, RegistryTyped, HeldOpen
<1>19. TableOpen'
  <2> SUFFICES ASSUME NEW j \in Keys, NEW i \in DOMAIN routes'[j]
               PROVE  /\ routes'[j][i].pool = drains'[Url[routes'[j][i].route]]
                      /\ routes'[j][i].pool # 0
    BY DEF TableOpen
  <2>1. PICK m \in DOMAIN routes[j] : routes'[j][i] = routes[j][m] /\ routes[j][m].route # r
    BY <1>1
  <2>2. /\ routes[j][m].route \in Routes
        /\ routes[j][m].pool = drains[Url[routes[j][m].route]] /\ routes[j][m].pool # 0
    BY EntryUsed DEF Registry, Table, TableOpen
  <2>3. CASE drains' = drains  BY <2>1, <2>2, <2>3
  <2>4. CASE drains' # drains
    <3>1. InTable(routes[j][m].route)  BY DEF Table, OwnKey, InTable, TableIds
    <3>2. Url[routes[j][m].route] # url
      BY <1>1, <1>17, <2>1, <2>2, <2>4, <3>1 DEF Users
    <3> QED  BY <1>4, <1>17, <2>1, <2>2, <2>4, <3>2, RoutesHaveUrls DEF RegistryTyped
  <2> QED  BY <2>3, <2>4
<1> QED  BY <1>12, <1>13, <1>14, <1>15, <1>16, <1>18, <1>19 DEF Registry

(***************************************************************************)
(* The table.                                                              *)
(***************************************************************************)
LEMMA TableUnchanged ==
  ASSUME Table, UNCHANGED <<tableVars, refresh, adder, call, handle>>,
         stored' \subseteq issued' /\ issued' \subseteq Routes
  PROVE  Table'
<1> USE DEF Table, tableVars
<1>1. \A r \in Routes : InTable(r)' <=> InTable(r)  BY InTableUnchanged
<1>2. AddersAdd'  BY <1>1 DEF AddersAdd
<1> QED  BY <1>2 DEF TableTyped, OwnKey, Once, KeysKnown

\* Adders are started for routes that are not in the table.
LEMMA RefreshKeepsTable ==
  ASSUME Table, RefreshRoutes
  PROVE  Table'
<1> USE DEF Table, RefreshRoutes, tableVars, storageVars, drainVars
<1>1. TableTyped'
  <2>1. refresh' \in Pass  BY DEF TableTyped, Pass
  <2>2. adder' \in [Routes -> {"none", "check", "dial"}]  OBVIOUS
  <2> QED  BY <2>1, <2>2 DEF TableTyped
<1>2. (OwnKey /\ Once /\ KeysKnown)'  BY DEF OwnKey, Once, KeysKnown
<1>3. AddersAdd'
  <2>1. \A r \in Routes : InTable(r)' <=> InTable(r)  BY InTableUnchanged
  <2>2. \A r \in Routes : call[r] = "idle" /\ handle[r] = 0
    BY DEF AddersAdd
  <2>3. \A r \in Routes : adder'[r] # "none" => r \in stored /\ ~InTable(r)
    OBVIOUS
  <2>4. refresh'.at = "adding" /\ refresh'.pkg = stored
    BY DEF TableTyped, Pass
  <2> QED  BY <2>1, <2>2, <2>3, <2>4 DEF AddersAdd
<1> QED  BY <1>1, <1>2, <1>3

\* An adder that looks for its URL, or is in Dial.
LEMMA AdderKeepsTable ==
  ASSUME Table, RegistryTyped, NEW r \in Routes,
         AdderCheck(r) \/ AdderDial(r) \/ AdderAcquire(r) \/ AdderGiveUp(r)
  PROVE  Table'
<1> USE DEF Table, tableVars, storageVars, drainVars
<1>1. UNCHANGED <<stored, issued, routes, route_keys, refresh>>
  BY DEF AdderCheck, AdderDial, AdderAcquire, AdderGiveUp
<1>2. \A s \in Routes : InTable(s)' <=> InTable(s)  BY <1>1, InTableUnchanged
<1>3. /\ adder[r] # "none"
      /\ \/ adder' = [adder EXCEPT ![r] = "none"]
         \/ adder' = [adder EXCEPT ![r] = "dial"]
         \/ adder' = adder
  BY DEF AdderCheck, AdderDial, AdderAcquire, AdderGiveUp
<1>4. /\ \/ call' = call
         \/ \E c \in D!CallState : call' = [call EXCEPT ![r] = c]
      /\ handle' = handle \/ \E g : handle' = [handle EXCEPT ![r] = g] /\ call' = [call EXCEPT ![r] = "idle"]
  BY DEF AdderCheck, AdderDial, AdderAcquire, AdderGiveUp, D!DialBegin, D!DialStep, D!DialRefused,
     D!DialQueue, D!DialConnected, D!DialFailed, D!Acquire, D!DialShare, D!DialUnsupported, D!DialOpen,
     D!Goto, D!CallState
<1>5. /\ adder'[r] # "dial" => call'[r] = "idle" /\ handle'[r] = 0
      /\ call'[r] # "idle" => handle'[r] = 0
  <2>1. CASE AdderCheck(r)
    BY <2>1 DEF AdderCheck, D!DialBegin, D!Goto, AddersAdd, TableTyped, RegistryTyped
  <2>2. CASE AdderGiveUp(r)
    BY <2>2 DEF AdderGiveUp, AddersAdd
  <2>3. CASE AdderDial(r) \/ AdderAcquire(r)
    <3>1. adder' = adder /\ adder[r] = "dial"  BY <2>3 DEF AdderDial, AdderAcquire
    <3>2. call[r] # "idle"
      BY <2>3 DEF AdderDial, AdderAcquire, D!DialStep, D!DialRefused, D!DialQueue, D!DialConnected,
         D!DialFailed, D!Acquire, D!DialShare, D!DialUnsupported, D!DialOpen
    <3>3. handle[r] = 0  BY <3>2 DEF AddersAdd
    <3> QED  BY <1>4, <3>1, <3>3 DEF RegistryTyped
  <2> QED  BY <2>1, <2>2, <2>3
<1>6. AddersAdd'
  <2>1. ASSUME NEW s \in Routes, s # r
        PROVE  adder'[s] = adder[s] /\ call'[s] = call[s] /\ handle'[s] = handle[s]
    BY <1>3, <1>4, <2>1 DEF TableTyped, RegistryTyped
  <2> QED  BY <1>1, <1>2, <1>3, <1>5, <2>1 DEF AddersAdd
<1>7. (OwnKey /\ Once /\ KeysKnown)'  BY <1>1 DEF OwnKey, Once, KeysKnown
<1>8. TableTyped'  BY <1>1, <1>3 DEF TableTyped
<1> QED  BY <1>6, <1>7, <1>8

\* An adder appends a route that was not in the table.
LEMMA AddKeepsTable ==
  ASSUME Table, RegistryTyped, NEW r \in Routes, AdderAdd(r)
  PROVE  Table'
<1> DEFINE k == Key[r]
           d == [route |-> r, pool |-> handle[r]]
           n == Len(routes[k])
<1>1. /\ k \in Keys /\ d.route = r
      /\ routes' \in [Keys -> Seq(Destination)]
      /\ DOMAIN routes[k] = 1..n /\ DOMAIN routes'[k] = 1..(n + 1)
      /\ \A i \in DOMAIN routes[k] : routes'[k][i] = routes[k][i]
      /\ routes'[k][n + 1] = d
      /\ \A j \in Keys \ {k} : routes'[j] = routes[j]
      /\ \A s \in Routes : InTable(s)' <=> InTable(s) \/ s = r
  BY AddEffect DEF Table
<1>2. /\ adder[r] = "dial" /\ call[r] = "idle"
      /\ adder' = [adder EXCEPT ![r] = "none"] /\ handle' = [handle EXCEPT ![r] = 0]
      /\ UNCHANGED <<stored, issued, refresh, call>>
      /\ route_keys' = IF Contains(route_keys, k) THEN route_keys ELSE Append(route_keys, k)
  BY DEF AdderAdd, storageVars
<1>3. n \in Nat  BY <1>1 DEF Table, TableTyped
<1>4. ~InTable(r)  BY <1>2 DEF Table, AddersAdd
<1>5. \A i \in 1..n : routes[k][i].route # r  BY <1>1, <1>4 DEF InTable, TableIds
<1> HIDE DEF k, d, n
<1>6. \A i \in 1..(n + 1) : i \in 1..n \/ i = n + 1  BY <1>3
<1>7. route_keys' \in Seq(Keys) /\ ToSet(route_keys) \cup {k} \subseteq ToSet(route_keys')
  <2>1. route_keys \in Seq(Keys)  BY DEF Table, TableTyped
  <2>2. CASE Contains(route_keys, k)  BY <1>2, <2>1, <2>2 DEF Contains, ToSet
  <2>3. CASE ~Contains(route_keys, k)
    <3>1. /\ DOMAIN route_keys = 1..Len(route_keys)
          /\ DOMAIN Append(route_keys, k) = 1..(Len(route_keys) + 1)
          /\ \A i \in 1..Len(route_keys) : Append(route_keys, k)[i] = route_keys[i]
          /\ Append(route_keys, k)[Len(route_keys) + 1] = k
          /\ 1..Len(route_keys) \subseteq 1..(Len(route_keys) + 1)
          /\ Len(route_keys) + 1 \in 1..(Len(route_keys) + 1)
      BY <1>1, <2>1
    <3>2. Append(route_keys, k) \in Seq(Keys)  BY <1>1, <2>1
    <3>3. ToSet(route_keys) \cup {k} \subseteq ToSet(Append(route_keys, k))
      BY <3>1, Zenon DEF ToSet
    <3> QED  BY <1>2, <2>3, <3>2, <3>3
  <2> QED  BY <2>2, <2>3
<1>8. TableTyped'  BY <1>1, <1>2, <1>7 DEF Table, TableTyped
<1>9. OwnKey'
  <2> SUFFICES ASSUME NEW j \in Keys, NEW i \in DOMAIN routes'[j]  PROVE Key[routes'[j][i].route] = j
    BY DEF OwnKey
  <2>1. CASE j # k  BY <1>1, <2>1 DEF Table, OwnKey
  <2>2. CASE j = k
    <3>1. i \in DOMAIN routes[k] \/ i = n + 1  BY <1>1, <1>6, <2>2
    <3>2. CASE i \in DOMAIN routes[k]  BY <1>1, <2>2, <3>2 DEF Table, OwnKey
    <3>3. CASE i = n + 1  BY <1>1, <2>2, <3>3 DEF k
    <3> QED  BY <3>1, <3>2, <3>3
  <2> QED  BY <2>1, <2>2
<1>10. Once'
  <2> SUFFICES ASSUME NEW j \in Keys, NEW i \in DOMAIN routes'[j], NEW m \in DOMAIN routes'[j],
                      routes'[j][i].route = routes'[j][m].route
               PROVE  i = m
    BY DEF Once
  <2>1. CASE j # k  BY <1>1, <2>1 DEF Table, Once
  <2>2. CASE j = k
    <3>1. /\ i \in DOMAIN routes[k] \/ i = n + 1
          /\ m \in DOMAIN routes[k] \/ m = n + 1
      BY <1>1, <1>6, <2>2
    <3>2. \A x \in DOMAIN routes[k] : routes'[k][x] = routes[k][x] /\ routes[k][x].route # r
      BY <1>1, <1>5
    <3>3. routes'[k][n + 1].route = r  BY <1>1
    <3>4. CASE i \in DOMAIN routes[k] /\ m \in DOMAIN routes[k]
      <4>1. routes[k][i].route = routes[k][m].route  BY <2>2, <3>2, <3>4
      <4> QED  BY <1>1, <3>4, <4>1 DEF Table, Once
    <3>5. CASE i \in DOMAIN routes[k] /\ m = n + 1  BY <2>2, <3>2, <3>3, <3>5
    <3>6. CASE i = n + 1 /\ m \in DOMAIN routes[k]  BY <2>2, <3>2, <3>3, <3>6
    <3> QED  BY <3>1, <3>4, <3>5, <3>6
  <2> QED  BY <2>1, <2>2
<1>11. KeysKnown'
  <2>1. \A j \in Keys \ {k} : routes'[j] # <<>> => j \in ToSet(route_keys')
    BY <1>1, <1>7 DEF Table, KeysKnown
  <2> QED  BY <1>7, <2>1 DEF KeysKnown
<1>12. AddersAdd'
  BY <1>1, <1>2 DEF Table, AddersAdd, TableTyped, RegistryTyped
<1> QED  BY <1>8, <1>9, <1>10, <1>11, <1>12 DEF Table

\* What a holder of a slice header sees is a slice of the same length.
LEMMA SeenTyped ==
  ASSUME NEW S, NEW view \in Seq(S), NEW s \in Seq(S)
  PROVE  /\ Seen(view, s) \in Seq(S)
         /\ Len(Seen(view, s)) = Len(view)
         /\ \A i \in 1..Len(view) : Seen(view, s)[i] = IF i <= Len(s) THEN s[i] ELSE view[i]
<1>1. \A i \in 1..Len(view) : (IF i <= Len(s) THEN s[i] ELSE view[i]) \in S
  OBVIOUS
<1>2. Seen(view, s) = [i \in 1..Len(view) |-> IF i <= Len(s) THEN s[i] ELSE view[i]]
  BY DEF Seen
<1>3. Seen(view, s) \in Seq(S) /\ Len(Seen(view, s)) = Len(view)
  BY <1>1, <1>2
<1> QED  BY <1>2, <1>3

\* The pass moves on.
LEMMA PassKeepsTable ==
  ASSUME Table, PassPlace, RefreshWaited \/ RefreshNextKey \/ RefreshKeep
  PROVE  Table'
<1> USE DEF Table, tableVars, storageVars, drainVars
<1>1. UNCHANGED <<stored, issued, routes, route_keys, adder, call, handle>>
  BY DEF RefreshWaited, RefreshNextKey, RefreshKeep
<1>2. refresh' \in Pass /\ refresh'.pkg = refresh.pkg
  <2>1. CASE RefreshWaited  BY <2>1 DEF RefreshWaited, TableTyped, Pass
  <2>2. CASE RefreshKeep
    <3>1. refresh \in Pass /\ refresh.ndx + 1 \in Nat  BY DEF TableTyped, Pass
    <3>2. refresh' = [refresh EXCEPT !.ndx = refresh.ndx + 1]  BY <2>2 DEF RefreshKeep
    <3> QED  BY <3>1, <3>2 DEF Pass
  <2>3. CASE RefreshNextKey
    <3>1. CASE refresh.key = Len(route_keys)
      <4>1. refresh' = Resting(refresh.pkg)  BY <2>3, <3>1 DEF RefreshNextKey
      <4>2. refresh.pkg \subseteq Routes /\ <<>> \in Seq(Destination)  BY DEF TableTyped, Pass
      <4> QED  BY <4>1, <4>2 DEF Resting, Pass
    <3>2. CASE refresh.key # Len(route_keys)
      <4>1. refresh.key + 1 \in 1..Len(route_keys) /\ refresh.key \in Nat
        BY <2>3, <3>2 DEF RefreshNextKey, PassPlace, TableTyped, Pass
      <4>2. routes[route_keys[refresh.key + 1]] \in Seq(Destination)
        BY <4>1 DEF TableTyped
      <4>3. refresh' = [refresh EXCEPT !.key = refresh.key + 1, !.ndx = 1,
                                       !.view = routes[route_keys[refresh.key + 1]]]
        BY <2>3, <3>2 DEF RefreshNextKey
      <4>4. refresh \in Pass /\ refresh.key + 1 \in Nat  BY <4>1 DEF TableTyped
      <4> QED  BY <4>2, <4>3, <4>4 DEF Pass
    <3> QED  BY <3>1, <3>2
  <2> QED  BY <2>1, <2>2, <2>3
<1>3. TableTyped'  BY <1>1, <1>2 DEF TableTyped
<1>4. (OwnKey /\ Once /\ KeysKnown)'  BY <1>1 DEF OwnKey, Once, KeysKnown
<1>5. \A r \in Routes : adder[r] = "none"
  BY DEF RefreshWaited, RefreshNextKey, RefreshKeep, AddersAdd
<1>6. AddersAdd'  BY <1>1, <1>5 DEF AddersAdd
<1> QED  BY <1>3, <1>4, <1>6

\* A route is cut out.
LEMMA RemoveKeepsTable ==
  ASSUME Table, Refreshed, RefreshRemove
  PROVE  Table'
<1> DEFINE k == route_keys[refresh.key]
           n == refresh.ndx
           r == routes[k][n].route
<1>1. /\ k \in Keys /\ refresh.view = routes[k] /\ n \in 1..Len(routes[k])
  BY RemoveFinds
<1>2. /\ routes' \in [Keys -> Seq(Destination)]
      /\ DOMAIN routes'[k] = 1..(Len(routes[k]) - 1)
      /\ \A i \in DOMAIN routes'[k] : routes'[k][i] = IF i < n THEN routes[k][i] ELSE routes[k][i + 1]
      /\ \A j \in Keys \ {k} : routes'[j] = routes[j]
  BY RemoveEffect
<1>3. /\ refresh.at = "removing"
      /\ UNCHANGED <<stored, issued, route_keys, adder, call, handle>>
      /\ \/ refresh' = [refresh EXCEPT !.ndx = @ + 1]
         \/ refresh' = [refresh EXCEPT !.ndx = @ + 1, !.view = Seen(@, RemoveAt(routes[k], n))]
  BY <1>1 DEF RefreshRemove, storageVars, Cut
<1>4. routes[k] \in Seq(Destination) /\ refresh \in Pass  BY <1>1 DEF Table, TableTyped
<1>5. RemoveAt(routes[k], n) \in Seq(Destination)  BY <1>1, <1>4, RemovedAt
<1>6. Seen(refresh.view, RemoveAt(routes[k], n)) \in Seq(Destination)  BY <1>1, <1>4, <1>5, SeenTyped
<1> HIDE DEF k, n
<1>7. refresh' \in Pass /\ refresh'.at = "removing"
  <2>1. refresh.ndx + 1 \in Nat  BY <1>4 DEF Pass
  <2>2. \/ refresh' = [refresh EXCEPT !.ndx = refresh.ndx + 1]
        \/ refresh' = [refresh EXCEPT !.ndx = refresh.ndx + 1,
                                      !.view = Seen(refresh.view, RemoveAt(routes[k], n))]
    BY <1>3
  <2>3. refresh \in Pass /\ refresh.at = "removing"  BY <1>3, <1>4
  <2> QED  BY <1>6, <2>1, <2>2, <2>3 DEF Pass
<1>8. TableTyped'  BY <1>2, <1>3, <1>7 DEF Table, TableTyped
<1>9. OwnKey'
  <2> SUFFICES ASSUME NEW j \in Keys, NEW i \in DOMAIN routes'[j]  PROVE Key[routes'[j][i].route] = j
    BY DEF OwnKey
  <2>1. PICK m \in DOMAIN routes[j] : routes'[j][i] = routes[j][m]  BY LeftWasThere
  <2> QED  BY <2>1 DEF Table, OwnKey
<1>10. Once'
  <2> SUFFICES ASSUME NEW j \in Keys, NEW i \in DOMAIN routes'[j], NEW m \in DOMAIN routes'[j],
                      routes'[j][i].route = routes'[j][m].route
               PROVE  i = m
    BY DEF Once
  <2>1. CASE j # k  BY <1>2, <2>1 DEF Table, Once
  <2>2. CASE j = k
    <3> DEFINE P(x) == IF x < n THEN x ELSE x + 1
    <3>1. /\ DOMAIN routes[k] = 1..Len(routes[k]) /\ Len(routes[k]) \in Nat /\ n \in Nat
          /\ i \in 1..(Len(routes[k]) - 1) /\ m \in 1..(Len(routes[k]) - 1)
      BY <1>1, <1>2, <1>4, <2>2
    <3>2. routes'[k][i] = routes[k][P(i)] /\ routes'[k][m] = routes[k][P(m)]
      BY <1>2, <2>2
    <3>3. P(i) \in DOMAIN routes[k] /\ P(m) \in DOMAIN routes[k]  BY <3>1
    <3>4. P(i) = P(m)
      <4>1. routes[k][P(i)].route = routes[k][P(m)].route  BY <2>2, <3>2
      <4> HIDE DEF P
      <4> QED  BY <1>1, <3>3, <4>1 DEF Table, Once
    <3> QED  BY <3>1, <3>4
  <2> QED  BY <2>1, <2>2
<1>11. KeysKnown'
  <2>1. routes[k] # <<>>  BY <1>1, <1>4
  <2>2. \A j \in Keys : routes'[j] # <<>> => routes[j] # <<>>  BY <1>2, <2>1
  <2> QED  BY <1>3, <2>2 DEF Table, KeysKnown
<1>12. \A s \in Routes : adder[s] = "none"  BY <1>3 DEF Table, AddersAdd
<1>13. AddersAdd'  BY <1>3, <1>12 DEF Table, AddersAdd
<1> QED  BY <1>8, <1>9, <1>10, <1>11, <1>13 DEF Table

(***************************************************************************)
(* The refresh.                                                            *)
(***************************************************************************)
\* No route becomes stale but by its deletion.
LEMMA NoneGetsStale ==
  ASSUME OneStale, \A r \in Routes : Stale(r)' => Stale(r)
  PROVE  OneStale'
BY DEF OneStale

LEMMA RefreshedUnchanged ==
  ASSUME Refreshed, UNCHANGED <<storageVars, tableVars, refresh, adder>>
  PROVE  Refreshed'
<1> USE DEF Refreshed, storageVars, tableVars
<1>1. /\ \A r \in Routes : InTable(r)' <=> InTable(r)
      /\ \A k : TableIds(k)' = TableIds(k)
  BY DEF InTable, TableIds
<1>2. \A r \in Routes : Stale(r)' => Stale(r)  BY <1>1 DEF Stale
<1>3. OneStale'  BY <1>2, NoneGetsStale
<1>4. TableRead'  BY <1>1 DEF TableRead
<1>5. PassPlace'  BY <1>1 DEF PassPlace, Uncut, Cleared
<1> QED  BY <1>3, <1>4, <1>5

\* The API: an id is created once, and deleted while no other route of its key
\* waits to be dropped.
LEMMA ApiKeepsRefreshed ==
  ASSUME Refreshed, Table, MaxStale <= 1, NEW r \in Routes, Api(r)
  PROVE  Refreshed'
<1> USE DEF Refreshed, drainVars, tableVars
<1>1. /\ UNCHANGED <<routes, route_keys, refresh, adder>>
      /\ issued \subseteq issued'
  BY DEF Api, CreateLogDrain, DeleteLogDrain
<1>2. /\ \A s \in Routes : InTable(s)' <=> InTable(s)
      /\ \A k : TableIds(k)' = TableIds(k)
  BY <1>1 DEF InTable, TableIds
<1>3. PassPlace'  BY <1>1, <1>2 DEF PassPlace, Uncut, Cleared
<1>4. TableRead'
  <2>1. \A s \in issued : s \in stored' => s \in stored
    BY DEF Api, CreateLogDrain, DeleteLogDrain
  <2> QED  BY <1>1, <1>2, <2>1 DEF TableRead
<1>5. CASE CreateLogDrain(r)
  <2>1. issued' \ stored' = issued \ stored
    BY <1>5 DEF CreateLogDrain, Table, TableTyped
  <2>2. \A s \in Routes : Stale(s)' => Stale(s)  BY <1>1, <1>2, <2>1 DEF Stale
  <2> QED  BY <1>3, <1>4, <2>2, NoneGetsStale
<1>6. CASE DeleteLogDrain(r)
  <2> DEFINE Others == {s \in Routes : Key[s] = Key[r] /\ Stale(s)}
  <2>1. Others = {}
    <3>1. IsFiniteSet(Others)
      <4>1. Others \in SUBSET Routes  OBVIOUS
      <4> QED  BY <4>1, FS_Subset, RoutesFinite
    <3>2. Cardinality(Others) < MaxStale  BY <1>6 DEF DeleteLogDrain
    <3>3. Cardinality(Others) \in Nat  BY <3>1, FS_CardinalityType
    <3>4. Cardinality(Others) = 0  BY <3>2, <3>3, BoundsNat
    <3> QED  BY <3>1, <3>4, FS_EmptySet
  <2>2. \A s \in Routes : Stale(s)' => Stale(s) \/ s = r
    BY <1>1, <1>2, <1>6 DEF Stale, DeleteLogDrain
  <2>3. \A s \in Routes : Key[s] = Key[r] => ~Stale(s)  BY <2>1
  <2>4. OneStale'  BY <2>2, <2>3 DEF OneStale
  <2> QED  BY <1>3, <1>4, <2>4
<1> QED  BY <1>5, <1>6 DEF Api

\* A refresh reads storage.
LEMMA RefreshKeepsRefreshed ==
  ASSUME Refreshed, Table, RefreshRoutes
  PROVE  Refreshed'
<1> USE DEF Refreshed, Table, tableVars, storageVars
<1>1. /\ UNCHANGED <<stored, issued, routes, route_keys>>
      /\ refresh.at = "idle"
      /\ \A s \in Routes : adder'[s] # "none" => s \in stored
  BY DEF RefreshRoutes
<1>2. refresh'.at = "adding" /\ refresh'.pkg = stored /\ refresh'.key = refresh.key
      /\ refresh'.view = refresh.view /\ refresh'.ndx = refresh.ndx
  BY DEF RefreshRoutes, TableTyped, Pass
<1>3. \A s \in Routes : InTable(s)' <=> InTable(s)  BY <1>1, InTableUnchanged
<1>4. PassPlace'  BY <1>1, <1>2 DEF PassPlace
<1>5. TableRead'  BY <1>1, <1>2, <1>3 DEF TableRead, TableTyped
<1>6. \A s \in Routes : Stale(s)' => Stale(s)  BY <1>1, <1>2, <1>3 DEF Stale
<1> QED  BY <1>4, <1>5, <1>6, NoneGetsStale

\* An adder has a route that the refresh read.
LEMMA AdderKeepsRefreshed ==
  ASSUME Refreshed, Table, RegistryTyped, NEW r \in Routes, Adder(r) \/ AdderAcquire(r)
  PROVE  Refreshed'
<1> USE DEF Refreshed, Table, tableVars, storageVars
<1>1. /\ UNCHANGED <<stored, issued, refresh>>
      /\ adder[r] # "none"
      /\ \A s \in Routes : adder'[s] # "none" => adder[s] # "none"
  BY DEF Adder, AdderCheck, AdderDial, AdderAcquire, AdderGiveUp, AdderAdd, TableTyped
<1>2. refresh.at = "adding" /\ r \in refresh.pkg  BY <1>1 DEF AddersAdd
<1>3. PassPlace'  BY <1>1, <1>2 DEF PassPlace
<1>4. \A s \in Routes : InTable(s)' => InTable(s) \/ s = r
  <2>1. CASE AdderAdd(r)  BY <2>1, AddEffect
  <2>2. CASE ~AdderAdd(r)
    <3>1. UNCHANGED routes
      BY <2>2 DEF Adder, AdderCheck, AdderDial, AdderAcquire, AdderGiveUp
    <3> QED  BY <3>1, InTableUnchanged
  <2> QED  BY <2>1, <2>2
<1>5. TableRead'  BY <1>1, <1>2, <1>4 DEF TableRead
<1>6. \A s \in Routes : Stale(s)' => Stale(s)  BY <1>1, <1>4 DEF Stale
<1> QED  BY <1>3, <1>5, <1>6, NoneGetsStale

\* Where a key has been read to its end, nothing is left that storage had not.
LEMMA KeyDone ==
  ASSUME Refreshed, Table, refresh.at = "removing", refresh.ndx > Len(refresh.view)
  PROVE  \A j \in 1..refresh.key : TableIds(route_keys[j]) \subseteq refresh.pkg
<1>1. /\ refresh.key \in 0..Len(route_keys) /\ refresh.ndx \in 1..(Len(refresh.view) + 1)
      /\ \A j \in 1..(refresh.key - 1) : TableIds(route_keys[j]) \subseteq refresh.pkg
      /\ refresh.key # 0 => Uncut(route_keys[refresh.key]) \/ Cleared(route_keys[refresh.key])
  BY DEF Refreshed, PassPlace
<1>2. /\ route_keys \in Seq(Keys) /\ refresh.view \in Seq(Destination)
      /\ refresh.key \in Nat /\ refresh.ndx \in Nat
  BY DEF Table, TableTyped, Pass
<1>3. refresh.ndx - 1 = Len(refresh.view)  BY <1>1, <1>2
<1>4. Uncut(route_keys[refresh.key]) => TableIds(route_keys[refresh.key]) \subseteq refresh.pkg
  <2>1. DOMAIN refresh.view = 1..Len(refresh.view)  BY <1>2
  <2> QED  BY <1>3, <2>1 DEF Uncut, TableIds
<1>5. refresh.key # 0 => TableIds(route_keys[refresh.key]) \subseteq refresh.pkg
  BY <1>1, <1>4 DEF Cleared
<1>6. \A j \in 1..refresh.key : j \in 1..(refresh.key - 1) \/ (j = refresh.key /\ refresh.key # 0)
  BY <1>2
<1> QED  BY <1>1, <1>5, <1>6

\* When the pass ends, the whole table was in storage.
LEMMA PassEnds ==
  ASSUME Refreshed, Table, refresh.at = "removing", refresh.ndx > Len(refresh.view),
         refresh.key = Len(route_keys), NEW r \in Routes, InTable(r)
  PROVE  r \in refresh.pkg
<1> DEFINE k == Key[r]
<1>1. k \in Keys  BY RoutesHaveKeys
<1>2. routes[k] # <<>>  BY DEF InTable, TableIds
<1>3. PICK j \in DOMAIN route_keys : route_keys[j] = k
  BY <1>1, <1>2 DEF Table, KeysKnown, ToSet
<1>4. j \in 1..refresh.key  BY <1>3 DEF Table, TableTyped
<1> QED  BY <1>3, <1>4, KeyDone DEF InTable

LEMMA PassKeepsRefreshed ==
  ASSUME Refreshed, Table, RefreshWaited \/ RefreshNextKey \/ RefreshKeep
  PROVE  Refreshed'
<1> USE DEF tableVars, storageVars
<1>1. UNCHANGED <<stored, issued, routes, route_keys, adder>>
  BY DEF RefreshWaited, RefreshNextKey, RefreshKeep
<1>2. refresh \in Pass /\ route_keys \in Seq(Keys)  BY DEF Table, TableTyped
<1>3. /\ \A r \in Routes : InTable(r)' <=> InTable(r)
      /\ \A k : TableIds(k)' = TableIds(k)
  BY <1>1 DEF InTable, TableIds
<1>4. refresh'.pkg = refresh.pkg
  <2>1. CASE RefreshWaited \/ RefreshKeep  BY <1>2, <2>1 DEF RefreshWaited, RefreshKeep, Pass
  <2>2. CASE RefreshNextKey /\ refresh.key = Len(route_keys)
    BY <2>2 DEF RefreshNextKey, Resting
  <2>3. CASE RefreshNextKey /\ refresh.key # Len(route_keys)
    BY <1>2, <2>3 DEF RefreshNextKey, Pass
  <2> QED  BY <2>1, <2>2, <2>3
<1>5. OneStale'
  <2>1. \A s \in Routes : Stale(s)' => Stale(s)  BY <1>1, <1>3, <1>4 DEF Stale
  <2> QED  BY <2>1, NoneGetsStale DEF Refreshed
<1>6. TableRead'
  <2>1. refresh.at # "idle"
    BY DEF RefreshWaited, RefreshNextKey, RefreshKeep
  <2>2. refresh'.at = "idle" => \A r \in Routes : InTable(r) => r \in refresh.pkg
    <3>1. CASE RefreshNextKey /\ refresh.key = Len(route_keys)
      BY <3>1, PassEnds DEF RefreshNextKey
    <3>2. CASE RefreshNextKey /\ refresh.key # Len(route_keys)
      BY <1>2, <3>2 DEF RefreshNextKey, Pass
    <3>3. CASE RefreshWaited \/ RefreshKeep
      BY <1>2, <3>3 DEF RefreshWaited, RefreshKeep, Pass
    <3> QED  BY <3>1, <3>2, <3>3
  <2> QED  BY <1>1, <1>3, <1>4, <2>1, <2>2 DEF Refreshed, TableRead
<1>7. PassPlace'
  <2>1. CASE RefreshWaited
    <3>1. /\ refresh'.at = "removing" /\ refresh'.key = 0 /\ refresh'.view = <<>> /\ refresh'.ndx = 1
      BY <1>2, <2>1 DEF RefreshWaited, Refreshed, PassPlace, Pass
    <3>2. 0 \in 0..Len(route_keys) /\ 1 \in 1..(Len(<<>>) + 1) /\ 1..(0 - 1) = {}
      BY <1>2
    <3> QED  BY <1>1, <3>1, <3>2 DEF PassPlace
  <2>2. CASE RefreshKeep
    <3> DEFINE k == route_keys[refresh.key]
    <3>1. /\ refresh.at = "removing" /\ refresh.ndx <= Len(refresh.view)
          /\ refresh.view[refresh.ndx].route \in refresh.pkg
          /\ refresh' = [refresh EXCEPT !.ndx = refresh.ndx + 1]
      BY <2>2 DEF RefreshKeep
    <3>2. /\ refresh'.at = "removing" /\ refresh'.key = refresh.key /\ refresh'.view = refresh.view
          /\ refresh'.ndx = refresh.ndx + 1 /\ refresh.ndx \in Nat /\ Len(refresh.view) \in Nat
      BY <1>2, <3>1 DEF Pass
    <3>3. refresh'.ndx \in 1..(Len(refresh.view) + 1)  BY <3>1, <3>2
    <3>4. Uncut(k) => Uncut(k)'
      <4>1. \A i \in 1..(refresh.ndx + 1 - 1) : i \in 1..(refresh.ndx - 1) \/ i = refresh.ndx
        BY <3>2
      <4> QED  BY <1>1, <1>4, <3>1, <3>2, <4>1 DEF Uncut
    <3>5. Cleared(k) => Cleared(k)'
      <4>1. (refresh.ndx + 1)..Len(refresh.view) \subseteq refresh.ndx..Len(refresh.view)
        BY <3>2
      <4> QED  BY <1>1, <1>3, <1>4, <3>2, <4>1 DEF Cleared
    <3> QED  BY <1>1, <1>3, <1>4, <3>1, <3>2, <3>3, <3>4, <3>5 DEF Refreshed, PassPlace
  <2>3. CASE RefreshNextKey
    <3>1. CASE refresh.key = Len(route_keys)
      <4>1. refresh' = Resting(refresh.pkg)  BY <2>3, <3>1 DEF RefreshNextKey
      <4> QED  BY <4>1 DEF Resting, PassPlace
    <3>2. CASE refresh.key # Len(route_keys)
      <4> DEFINE k == route_keys[refresh.key + 1]
      <4>1. /\ refresh.at = "removing" /\ refresh.ndx > Len(refresh.view)
            /\ refresh' = [refresh EXCEPT !.key = refresh.key + 1, !.ndx = 1, !.view = routes[k]]
        BY <2>3, <3>2 DEF RefreshNextKey
      <4>2. /\ refresh'.at = "removing" /\ refresh'.key = refresh.key + 1 /\ refresh'.view = routes[k]
            /\ refresh'.ndx = 1 /\ refresh.key \in Nat
        BY <1>2, <4>1 DEF Pass
      <4>3. refresh.key + 1 \in 1..Len(route_keys) /\ refresh.key + 1 \in 0..Len(route_keys)
        BY <1>2, <3>2, <4>1, <4>2 DEF Refreshed, PassPlace
      <4>4. 1 \in 1..(Len(routes[k]) + 1)
        <5>1. routes[k] \in Seq(Destination)  BY <4>3, <1>2 DEF Table, TableTyped
        <5> QED  BY <5>1
      <4>5. Uncut(route_keys[refresh.key])'
        <5>1. 1..(1 - 1) = {}  OBVIOUS
        <5> QED  BY <1>1, <4>2, <5>1 DEF Uncut
      <4>6. \A j \in 1..(refresh.key + 1 - 1) : TableIds(route_keys[j])' \subseteq refresh.pkg
        <5>1. \A j \in 1..refresh.key : TableIds(route_keys[j]) \subseteq refresh.pkg
          BY <4>1, KeyDone
        <5>2. refresh.key + 1 - 1 = refresh.key  BY <4>2
        <5> QED  BY <1>1, <1>3, <5>1, <5>2
      <4>7. refresh.key + 1 # 0  BY <4>2
      <4> QED  BY <1>1, <1>4, <4>2, <4>3, <4>4, <4>5, <4>6, <4>7 DEF PassPlace
    <3> QED  BY <3>1, <3>2
  <2> QED  BY <2>1, <2>2, <2>3
<1> QED  BY <1>5, <1>6, <1>7 DEF Refreshed

\* After a cut the key has only routes that storage had, and so has the rest of
\* the shifted array that the pass still reads.
LEMMA RemoveKeepsRefreshed ==
  ASSUME Refreshed, Table, RefreshRemove
  PROVE  Refreshed'
<1> DEFINE k == route_keys[refresh.key]
           n == refresh.ndx
           r == routes[k][n].route
           cut == RemoveAt(routes[k], n)
<1>1. /\ k \in Keys /\ refresh.view = routes[k] /\ n \in 1..Len(routes[k])
      /\ r \in Routes
      /\ \A i \in DOMAIN routes[k] : i # n => routes[k][i].route \in refresh.pkg
  BY RemoveFinds
<1>2. /\ DOMAIN routes'[k] = 1..(Len(routes[k]) - 1)
      /\ \A s \in Routes : InTable(s)' <=> InTable(s) /\ s # r
  BY RemoveEffect
<1>3. /\ refresh.at = "removing"
      /\ UNCHANGED <<stored, issued, route_keys, adder>>
      /\ \/ refresh' = [refresh EXCEPT !.ndx = refresh.ndx + 1] /\ Len(routes[k]) = 1
         \/ refresh' = [refresh EXCEPT !.ndx = refresh.ndx + 1, !.view = Seen(refresh.view, cut)]
  BY <1>1 DEF RefreshRemove, storageVars, Cut
<1>4. routes[k] \in Seq(Destination) /\ refresh \in Pass /\ route_keys \in Seq(Keys)
  BY <1>1 DEF Table, TableTyped
<1>5. /\ cut \in Seq(Destination) /\ Len(cut) = Len(routes[k]) - 1
      /\ \A i \in 1..(Len(routes[k]) - 1) : cut[i] = IF i < n THEN routes[k][i] ELSE routes[k][i + 1]
  BY <1>1, <1>4, RemovedAt
<1>6. /\ Len(Seen(routes[k], cut)) = Len(routes[k])
      /\ \A i \in 1..Len(routes[k]) :
           Seen(routes[k], cut)[i] = IF i <= Len(cut) THEN cut[i] ELSE routes[k][i]
  BY <1>4, <1>5, SeenTyped
<1>7. DOMAIN routes[k] = 1..Len(routes[k]) /\ Len(routes[k]) \in Nat /\ n \in Nat
  BY <1>1, <1>4
<1> HIDE DEF k, n, cut
<1>8. /\ refresh'.at = "removing" /\ refresh'.pkg = refresh.pkg /\ refresh'.key = refresh.key
      /\ refresh'.ndx = n + 1
      /\ \/ refresh'.view = routes[k] /\ Len(routes[k]) = 1
         \/ refresh'.view = Seen(routes[k], cut)
  BY <1>1, <1>3, <1>4 DEF Pass, n
<1>9. Len(refresh'.view) = Len(routes[k])  BY <1>6, <1>8
<1>10. \A i \in (n + 1)..Len(routes[k]) : refresh'.view[i].route \in refresh.pkg
  <2> SUFFICES ASSUME NEW i \in (n + 1)..Len(routes[k])  PROVE refresh'.view[i].route \in refresh.pkg
    OBVIOUS
  <2>1. i \in 1..Len(routes[k]) /\ i > n /\ i # n /\ Len(routes[k]) # 1  BY <1>1, <1>7
  <2>2. refresh'.view[i] = IF i <= Len(cut) THEN cut[i] ELSE routes[k][i]  BY <1>6, <1>8, <2>1
  <2>3. CASE i <= Len(cut)
    <3>1. i \in 1..(Len(routes[k]) - 1) /\ i + 1 \in DOMAIN routes[k] /\ i + 1 # n /\ ~(i < n)
      BY <1>5, <1>7, <2>1, <2>3
    <3>2. refresh'.view[i] = routes[k][i + 1]  BY <1>5, <2>2, <2>3, <3>1
    <3> QED  BY <1>1, <3>1, <3>2
  <2>4. CASE ~(i <= Len(cut))  BY <1>1, <1>7, <2>1, <2>2, <2>4
  <2> QED  BY <2>3, <2>4
<1>11. \A j \in Keys : TableIds(j)' \subseteq TableIds(j) \ {r}
  BY LeftWasThere DEF TableIds, k, n
<1>12. TableIds(k) \subseteq refresh.pkg \cup {r}
  BY <1>1 DEF TableIds
<1>13. Cleared(route_keys[refresh.key])'
  <2>1. \A j \in Keys : j = k => TableIds(j)' \subseteq refresh.pkg  BY <1>11, <1>12
  <2>2. PICK j \in Keys : j = k  BY <1>1
  <2>3. TableIds(route_keys[refresh.key])' = TableIds(j)'
    BY <1>3, <1>8, <2>2 DEF TableIds, k
  <2>4. TableIds(route_keys[refresh.key])' \subseteq refresh'.pkg
    BY <1>8, <2>1, <2>2, <2>3
  <2> QED  BY <1>8, <1>9, <1>10, <2>4 DEF Cleared
<1>14. PassPlace'
  <2>1. /\ refresh.key \in 0..Len(route_keys)
        /\ refresh.key # 0
        /\ \A j \in 1..(refresh.key - 1) : TableIds(route_keys[j]) \subseteq refresh.pkg
    <3>1. refresh.key = 0 => refresh.view = <<>>  BY <1>3 DEF Refreshed, PassPlace
    <3>2. routes[k] # <<>>  BY <1>1
    <3> QED  BY <1>1, <1>3, <3>1, <3>2 DEF Refreshed, PassPlace
  <2>2. n + 1 \in 1..(Len(routes[k]) + 1)  BY <1>1, <1>7
  <2>3. \A j \in 1..(refresh.key - 1) : TableIds(route_keys[j])' \subseteq refresh.pkg
    <3> SUFFICES ASSUME NEW j \in 1..(refresh.key - 1)
                 PROVE  TableIds(route_keys[j])' \subseteq refresh.pkg
      BY <1>3
    <3>1. route_keys[j] \in Keys /\ route_keys'[j] = route_keys[j]  BY <1>3, <1>4, <2>1
    <3>2. TableIds(route_keys[j]) \subseteq refresh.pkg  BY <2>1
    <3> QED  BY <1>11, <3>1, <3>2 DEF TableIds
  <2> QED  BY <1>3, <1>8, <1>9, <1>13, <2>1, <2>2, <2>3 DEF PassPlace
<1>15. TableRead'  BY <1>2, <1>3, <1>8 DEF Refreshed, TableRead
<1>16. OneStale'
  <2>1. \A s \in Routes : Stale(s)' => Stale(s)  BY <1>2, <1>3, <1>8 DEF Stale
  <2> QED  BY <2>1, NoneGetsStale DEF Refreshed
<1> QED  BY <1>14, <1>15, <1>16 DEF Refreshed

(***************************************************************************)
(* Messages.                                                               *)
(***************************************************************************)
\* The invariant of messages, with nothing primed but the variables.
LEMMA SendersNext ==
  ASSUME fwd' \in [Forwarders -> {Waiting} \cup Message],
         \A f \in Forwarders : fwd'[f].at # "wait" /\ ~fwd'[f].torn => Placed(fwd'[f], routes')
  PROVE  Senders'
BY DEF Senders, SendersTyped, MessagesPlaced

LEMMA SendersUnchanged ==
  ASSUME Senders, UNCHANGED <<routes, fwd>>
  PROVE  Senders'
BY SendersNext DEF Senders, SendersTyped, MessagesPlaced

\* One forwarder takes a step.
LEMMA OneSends ==
  ASSUME Senders, NEW f \in Forwarders, NEW m \in {Waiting} \cup Message,
         fwd' = [fwd EXCEPT ![f] = m], routes' = routes,
         m.at # "wait" /\ ~m.torn => Placed(m, routes)
  PROVE  Senders'
<1>1. fwd' \in [Forwarders -> {Waiting} \cup Message]  BY DEF Senders, SendersTyped
<1>2. fwd'[f] = m /\ \A g \in Forwarders : g # f => fwd'[g] = fwd[g]
  BY DEF Senders, SendersTyped
<1>3. \A g \in Forwarders : fwd'[g].at # "wait" /\ ~fwd'[g].torn => Placed(fwd'[g], routes')
  BY <1>2 DEF Senders, MessagesPlaced
<1> QED  BY <1>1, <1>3, SendersNext

\* A forwarder copies a slice.
LEMMA SnapshotKeepsSenders ==
  ASSUME Senders, Table, NEW f \in Forwarders, NEW k \in Keys, Snapshot(f, k)
  PROVE  Senders'
<1> DEFINE m == [at |-> "pick", key |-> k, view |-> routes[k], shared |-> TRUE, next |-> 1,
                 dest |-> routes[k][1], due |-> TableIds(k), sent |-> <<>>, torn |-> FALSE]
<1>1. /\ routes[k] # <<>> /\ routes' = routes
      /\ fwd' = [fwd EXCEPT ![f] = m]
  BY DEF Snapshot, tableVars
<1>2. routes[k] \in Seq(Destination)  BY DEF Table, TableTyped
<1>3. DOMAIN routes[k] = 1..Len(routes[k]) /\ Len(routes[k]) \in Nat /\ routes[k][1] \in Destination
  BY <1>1, <1>2
<1>4. TableIds(k) \subseteq Routes
  <2>1. \A i \in DOMAIN routes[k] : routes[k][i] \in Destination  BY <1>2
  <2> QED  BY <2>1 DEF TableIds, Destination
<1>5. m \in Message  BY <1>2, <1>3, <1>4 DEF Message
<1>6. Placed(m, routes)
  <2>1. m.due = Ids(m.view)  BY DEF Ids, TableIds
  <2>2. 1 \in 1..(Len(routes[k]) + 1) /\ 1..(1 - 1) = {} /\ Len(<<>>) = 1 - 1
    BY <1>3
  <2>3. \A i, j \in DOMAIN routes[k] : routes[k][i].route = routes[k][j].route => i = j
    BY DEF Table, Once
  <2>4. Sending(m)  BY <2>1, <2>2, <2>3 DEF Sending
  <2> QED  BY <1>3, <2>4 DEF Placed, StartsWith
<1> HIDE DEF m
<1> QED  BY <1>1, <1>5, <1>6, OneSends

\* A forwarder walks on over its own copy of the header.
LEMMA PickKeepsSenders ==
  ASSUME Senders, NEW f \in Forwarders, PickDestination(f)
  PROVE  Senders'
<1> DEFINE o == fwd[f]
           m == [o EXCEPT !.at = "send", !.next = o.next + 1, !.dest = o.view[o.next]]
<1>1. /\ o.at = "pick" /\ o.next <= Len(o.view) /\ routes' = routes
      /\ fwd' = [fwd EXCEPT ![f] = m]
  BY DEF PickDestination, tableVars
<1>2. o \in Message  BY <1>1 DEF Senders, SendersTyped, Waiting
<1>3. o.view \in Seq(Destination) /\ o.next \in Nat \ {0}  BY <1>2 DEF Message
<1>4. ~o.torn => Placed(o, routes)  BY <1>1 DEF Senders, MessagesPlaced
<1> HIDE DEF o
<1>5. /\ m.at = "send" /\ m.next = o.next + 1 /\ m.dest = o.view[o.next]
      /\ m.key = o.key /\ m.view = o.view /\ m.shared = o.shared /\ m.due = o.due
      /\ m.sent = o.sent /\ m.torn = o.torn
  BY <1>2 DEF Message
<1>6. m \in Message
  <2> DEFINE d == o.view[o.next]
  <2>1. d \in Destination  BY <1>1, <1>3
  <2>2. o.next + 1 \in Nat \ {0}  BY <1>3
  <2> HIDE DEF d
  <2>3. [o EXCEPT !.at = "send", !.next = o.next + 1, !.dest = d] \in Message
    BY <1>2, <2>1, <2>2 DEF Message
  <2> QED  BY <2>3 DEF d
<1>7. ~o.torn => Placed(m, routes)
  <2> SUFFICES ASSUME Sending(o)  PROVE Sending(m)
    BY <1>4, <1>5 DEF Placed
  <2> QED  BY <1>1, <1>3, <1>5 DEF Sending
<1> QED  BY <1>1, <1>5, <1>6, <1>7, OneSends

LEMMA SendKeepsSenders ==
  ASSUME Senders, NEW f \in Forwarders, SendPacket(f)
  PROVE  Senders'
<1> DEFINE o == fwd[f]
           m == [o EXCEPT !.at = "pick", !.sent = Append(o.sent, o.dest.route)]
<1>1. /\ o.at = "send" /\ routes' = routes /\ fwd' = [fwd EXCEPT ![f] = m]
  BY DEF SendPacket, tableVars
<1>2. o \in Message  BY <1>1 DEF Senders, SendersTyped, Waiting
<1>3. /\ o.view \in Seq(Destination) /\ o.next \in Nat \ {0} /\ o.sent \in Seq(Routes)
      /\ o.dest.route \in Routes
  BY <1>2 DEF Message, Destination
<1>4. ~o.torn => Placed(o, routes)  BY <1>1 DEF Senders, MessagesPlaced
<1> HIDE DEF o
<1>5. /\ m.at = "pick" /\ m.next = o.next /\ m.dest = o.dest /\ m.key = o.key
      /\ m.view = o.view /\ m.shared = o.shared /\ m.due = o.due
      /\ m.sent = Append(o.sent, o.dest.route) /\ m.torn = o.torn
  BY <1>2 DEF Message
<1>6. m \in Message
  <2> DEFINE sent == Append(o.sent, o.dest.route)
  <2>1. sent \in Seq(Routes)  BY <1>3
  <2> HIDE DEF sent
  <2>2. [o EXCEPT !.at = "pick", !.sent = sent] \in Message  BY <1>2, <2>1 DEF Message
  <2> QED  BY <2>2 DEF sent
<1>7. ~o.torn => Placed(m, routes)
  <2> SUFFICES ASSUME Sending(o)  PROVE Sending(m)
    BY <1>4, <1>5 DEF Placed
  <2>1. /\ o.next > 1 /\ o.dest = o.view[o.next - 1] /\ Len(o.sent) = o.next - 2
        /\ \A i \in 1..(o.next - 2) : o.sent[i] = o.view[i].route
    BY <1>1 DEF Sending
  <2>2. Len(m.sent) = o.next - 1  BY <1>3, <1>5, <2>1
  <2>3. ASSUME NEW i \in 1..(o.next - 1)  PROVE m.sent[i] = m.view[i].route
    <3>1. CASE i = o.next - 1  BY <1>3, <1>5, <2>1, <3>1
    <3>2. CASE i # o.next - 1
      <4>1. i \in 1..(o.next - 2) /\ i \in 1..Len(o.sent)  BY <1>3, <2>1, <3>2
      <4> QED  BY <1>3, <1>5, <2>1, <4>1
    <3> QED  BY <3>1, <3>2
  <2> HIDE DEF m
  <2> QED  BY <1>5, <2>2, <2>3 DEF Sending
<1> QED  BY <1>1, <1>5, <1>6, <1>7, OneSends

LEMMA DoneKeepsSenders ==
  ASSUME Senders, NEW f \in Forwarders, SendDone(f)
  PROVE  Senders'
<1>1. routes' = routes /\ fwd' = [fwd EXCEPT ![f] = Waiting]
  BY DEF SendDone, tableVars
<1>2. Waiting.at = "wait"  BY DEF Waiting
<1> QED  BY <1>1, <1>2, OneSends

\* An adder appends in place, where the walkers see what they saw, or to a new
\* array that nobody walks.
LEMMA AddKeepsSenders ==
  ASSUME Senders, RegistryTyped, TableTyped, NEW r \in Routes, AdderAdd(r)
  PROVE  Senders'
<1> DEFINE k == Key[r]
           longer == Longer(k, [route |-> r, pool |-> handle[r]])
<1>1. /\ k \in Keys
      /\ routes'[k] = longer /\ longer \in Seq(Destination)
      /\ Len(longer) = Len(routes[k]) + 1 /\ Len(routes[k]) \in Nat
      /\ \A i \in 1..Len(routes[k]) : routes'[k][i] = routes[k][i]
      /\ \A j \in Keys \ {k} : routes'[j] = routes[j]
  <2>1. k \in Keys /\ [route |-> r, pool |-> handle[r]] \in Destination
    BY RoutesHaveKeys DEF RegistryTyped, Destination
  <2>2. routes[k] \in Seq(Destination)  BY <2>1 DEF TableTyped
  <2>3. routes' = [routes EXCEPT ![k] = longer]  BY DEF AdderAdd
  <2>4. longer \in Seq(Destination) /\ Len(longer) = Len(routes[k]) + 1 /\ Len(routes[k]) \in Nat
        /\ \A i \in 1..Len(routes[k]) : longer[i] = routes[k][i]
    BY <2>1, <2>2 DEF Longer
  <2> HIDE DEF longer
  <2>5. routes'[k] = longer /\ \A j \in Keys \ {k} : routes'[j] = routes[j]
    BY <2>1, <2>3 DEF TableTyped
  <2> QED  BY <2>1, <2>4, <2>5
<1>2. \/ fwd' = Rewrite(k, longer)
      \/ fwd' = Detach(k)
  BY DEF AdderAdd
<1> HIDE DEF longer, k
<1>3. fwd \in [Forwarders -> {Waiting} \cup Message]  BY DEF Senders, SendersTyped
<1>4. ASSUME NEW f \in Forwarders, f \notin Sharing(k)
      PROVE  /\ fwd'[f] = fwd[f]
             /\ fwd[f].at # "wait" /\ ~fwd[f].torn => Placed(fwd[f], routes')
  <2>1. fwd'[f] = fwd[f]  BY <1>2, <1>4 DEF Rewrite, Detach
  <2>2. ASSUME fwd[f].at # "wait", ~fwd[f].torn  PROVE Placed(fwd[f], routes')
    <3>1. fwd[f].key \in Keys  BY <1>3, <2>2 DEF Waiting, Message
    <3>2. Placed(fwd[f], routes)  BY <2>2 DEF Senders, MessagesPlaced
    <3>3. fwd[f].shared => fwd[f].key # k  BY <1>4, <2>2 DEF Sharing
    <3> QED  BY <1>1, <3>1, <3>2, <3>3 DEF Placed
  <2> QED  BY <2>1, <2>2
<1>5. ASSUME NEW f \in Sharing(k)
      PROVE  /\ fwd'[f] \in Message
             /\ ~fwd'[f].torn => Placed(fwd'[f], routes')
  <2> DEFINE o == fwd[f]
             view == Seen(o.view, longer)
  <2>1. f \in Forwarders /\ o.at # "wait" /\ o.key = k /\ o.shared  BY DEF Sharing
  <2>2. o \in Message  BY <1>3, <2>1 DEF Waiting
  <2>3. o.view \in Seq(Destination)  BY <2>2 DEF Message
  <2>4. ~o.torn => Placed(o, routes)  BY <2>1 DEF Senders, MessagesPlaced
  <2>5. \/ fwd'[f] = [o EXCEPT !.view = view]
        \/ fwd'[f] = [o EXCEPT !.shared = FALSE]
    BY <1>2, <2>1 DEF Rewrite, Detach
  <2>6. view \in Seq(Destination)  BY <1>1, <2>3, SeenTyped
  <2> HIDE DEF o, view
  <2>7. fwd'[f] \in Message  BY <2>2, <2>5, <2>6 DEF Message
  <2>8. ASSUME ~o.torn  PROVE view = o.view /\ StartsWith(routes'[k], o.view)
    <3>1. StartsWith(routes[k], o.view)  BY <2>1, <2>4, <2>8 DEF Placed, o
    <3>2. Len(o.view) \in Nat /\ DOMAIN o.view = 1..Len(o.view)  BY <2>3
    <3>3. StartsWith(routes'[k], o.view)  BY <1>1, <3>1, <3>2 DEF StartsWith
    <3>4. \A i \in 1..Len(o.view) : i <= Len(longer) /\ longer[i] = o.view[i]
      BY <1>1, <3>2, <3>3 DEF StartsWith
    <3>5. view = [i \in DOMAIN o.view |-> o.view[i]]  BY <3>2, <3>4 DEF view, Seen
    <3> QED  BY <2>3, <3>3, <3>5
  <2>9. CASE fwd'[f] = [o EXCEPT !.view = view]
    <3>1. fwd'[f].torn = o.torn  BY <2>2, <2>9 DEF Message
    <3>2. ASSUME ~o.torn  PROVE Placed(fwd'[f], routes')
      <4>1. fwd'[f] = o  BY <2>2, <2>8, <2>9, <3>2 DEF Message
      <4> QED  BY <2>1, <2>4, <2>8, <3>2, <4>1 DEF Placed, o
    <3> QED  BY <2>7, <3>1, <3>2
  <2>10. CASE fwd'[f] = [o EXCEPT !.shared = FALSE]
    <3>1. /\ fwd'[f].torn = o.torn /\ fwd'[f].shared = FALSE /\ fwd'[f].at = o.at
          /\ fwd'[f].next = o.next /\ fwd'[f].view = o.view /\ fwd'[f].due = o.due
          /\ fwd'[f].sent = o.sent /\ fwd'[f].dest = o.dest
      BY <2>2, <2>10 DEF Message
    <3>2. Sending(o) => Sending(fwd'[f])  BY <3>1 DEF Sending
    <3> QED  BY <2>4, <2>7, <3>1, <3>2 DEF Placed
  <2> QED  BY <2>5, <2>9, <2>10
<1>6. fwd' \in [Forwarders -> {Waiting} \cup Message]
  <2>1. \A f \in Forwarders : fwd'[f] \in {Waiting} \cup Message  BY <1>3, <1>4, <1>5
  <2>2. fwd' = [f \in Forwarders |-> fwd'[f]]  BY <1>2 DEF Rewrite, Detach
  <2> QED  BY <2>1, <2>2
<1> QED  BY <1>4, <1>5, <1>6, SendersNext

\* A cut shifts the array under its walkers, and marks them; the only destination
\* of a key is cut by taking the array away from the table.
LEMMA RemoveKeepsSenders ==
  ASSUME Senders, Table, Refreshed, RefreshRemove
  PROVE  Senders'
<1> DEFINE k == route_keys[refresh.key]
           n == refresh.ndx
           cut == RemoveAt(routes[k], n)
<1>1. /\ k \in Keys /\ refresh.view = routes[k] /\ n \in 1..Len(routes[k])
  BY RemoveFinds
<1>2. /\ routes[k] \in Seq(Destination) /\ cut \in Seq(Destination)
  BY <1>1, RemovedAt DEF Table, TableTyped
<1>3. \A j \in Keys \ {k} : routes'[j] = routes[j]  BY RemoveEffect
<1>4. fwd \in [Forwarders -> {Waiting} \cup Message]  BY DEF Senders, SendersTyped
<1>5. \/ fwd' = Detach(k)
      \/ fwd' = [f \in Forwarders |->
                   IF f \in Sharing(k) THEN [Rewrite(k, cut)[f] EXCEPT !.torn = TRUE] ELSE fwd[f]]
  BY <1>1 DEF RefreshRemove, Cut
<1> HIDE DEF cut, k
<1>6. ASSUME NEW f \in Forwarders, f \notin Sharing(k)
      PROVE  /\ fwd'[f] = fwd[f]
             /\ fwd[f].at # "wait" /\ ~fwd[f].torn => Placed(fwd[f], routes')
  <2>1. fwd'[f] = fwd[f]  BY <1>5, <1>6 DEF Detach
  <2>2. ASSUME fwd[f].at # "wait", ~fwd[f].torn  PROVE Placed(fwd[f], routes')
    <3>1. fwd[f].key \in Keys  BY <1>4, <2>2 DEF Waiting, Message
    <3>2. Placed(fwd[f], routes)  BY <2>2 DEF Senders, MessagesPlaced
    <3>3. fwd[f].shared => fwd[f].key # k  BY <1>6, <2>2 DEF Sharing
    <3> QED  BY <1>3, <3>1, <3>2, <3>3 DEF Placed
  <2> QED  BY <2>1, <2>2
<1>7. ASSUME NEW f \in Sharing(k)
      PROVE  /\ fwd'[f] \in Message
             /\ ~fwd'[f].torn => Placed(fwd'[f], routes')
  <2> DEFINE o == fwd[f]
             view == Seen(o.view, cut)
  <2>1. f \in Forwarders /\ o.at # "wait"  BY DEF Sharing
  <2>2. o \in Message  BY <1>4, <2>1 DEF Waiting
  <2>3. view \in Seq(Destination)  BY <1>2, <2>2, SeenTyped DEF Message
  <2>4. ~o.torn => Placed(o, routes)  BY <2>1 DEF Senders, MessagesPlaced
  <2>5. \/ fwd'[f] = [[o EXCEPT !.view = view] EXCEPT !.torn = TRUE]
        \/ fwd'[f] = [o EXCEPT !.shared = FALSE]
    BY <1>5, <2>1 DEF Rewrite, Detach
  <2> HIDE DEF o, view
  <2>6. fwd'[f] \in Message
    <3>1. [o EXCEPT !.view = view] \in Message  BY <2>2, <2>3 DEF Message
    <3>2. [[o EXCEPT !.view = view] EXCEPT !.torn = TRUE] \in Message  BY <3>1 DEF Message
    <3>3. [o EXCEPT !.shared = FALSE] \in Message  BY <2>2 DEF Message
    <3> QED  BY <2>5, <3>2, <3>3
  <2>7. CASE fwd'[f] = [[o EXCEPT !.view = view] EXCEPT !.torn = TRUE]
    <3>1. fwd'[f].torn  BY <2>2, <2>7 DEF Message
    <3> QED  BY <2>6, <3>1
  <2>8. CASE fwd'[f] = [o EXCEPT !.shared = FALSE]
    <3>1. /\ fwd'[f].torn = o.torn /\ fwd'[f].shared = FALSE /\ fwd'[f].at = o.at
          /\ fwd'[f].next = o.next /\ fwd'[f].view = o.view /\ fwd'[f].due = o.due
          /\ fwd'[f].sent = o.sent /\ fwd'[f].dest = o.dest
      BY <2>2, <2>8 DEF Message
    <3>2. Sending(o) => Sending(fwd'[f])  BY <3>1 DEF Sending
    <3> QED  BY <2>4, <2>6, <3>1, <3>2 DEF Placed
  <2> QED  BY <2>5, <2>7, <2>8
<1>8. fwd' \in [Forwarders -> {Waiting} \cup Message]
  <2>1. \A f \in Forwarders : fwd'[f] \in {Waiting} \cup Message  BY <1>4, <1>6, <1>7
  <2>2. fwd' = [f \in Forwarders |-> fwd'[f]]  BY <1>5 DEF Detach
  <2> QED  BY <2>1, <2>2
<1> QED  BY <1>6, <1>7, <1>8, SendersNext

(***************************************************************************)
(* The program starts, and starts again, with nothing but storage.         *)
(***************************************************************************)
Started ==
  /\ drains = [url \in Urls |-> 0] /\ drains_count = [url \in Urls |-> 0]
  /\ drains_mutex = FALSE
  /\ opened = [url \in Urls |-> 0] /\ closing = [url \in Urls |-> {}]
  /\ call = [r \in Routes |-> "idle"] /\ handle = [r \in Routes |-> 0]
  /\ routes = [k \in Keys |-> <<>>] /\ route_keys = <<>>
  /\ refresh = NotStarted
  /\ adder = [r \in Routes |-> "none"]
  /\ fwd = [f \in Forwarders |-> Waiting]

LEMMA StartedSound ==
  Started /\ stored \subseteq issued /\ issued \subseteq Routes => IInv
<1> SUFFICES ASSUME Started, stored \subseteq issued, issued \subseteq Routes
             PROVE  IInv
  OBVIOUS
<1> USE DEF Started
<1>1. \A k \in Keys : routes[k] = <<>> /\ DOMAIN routes[k] = {} /\ Len(<<>>) = 0
  OBVIOUS
<1>2. \A r \in Routes : ~InTable(r)  BY <1>1, RoutesHaveKeys DEF InTable, TableIds
<1>3. Registry
  <2>1. RegistryTyped  BY DEF RegistryTyped, D!CallState
  <2>2. CountIsUsers
    <3>1. \A url : Users(url) = {}  BY <1>2 DEF Users
    <3> QED  BY <3>1, FS_EmptySet DEF CountIsUsers
  <2>3. PoolsAccounted
    <3>1. (1..0) \ {0} = {}  OBVIOUS
    <3> QED  BY <3>1 DEF PoolsAccounted
  <2>4. InitAlone /\ PoolsCounted /\ HeldOpen /\ TableOpen
    BY <1>1 DEF InitAlone, PoolsCounted, HeldOpen, TableOpen
  <2> QED  BY <2>1, <2>2, <2>3, <2>4 DEF Registry
<1>4. NotStarted \in Pass  BY DEF NotStarted, Pass
<1>5. Table
  BY <1>1, <1>2, <1>4 DEF Table, TableTyped, OwnKey, Once, KeysKnown, AddersAdd
<1>6. Refreshed
  BY <1>2 DEF Refreshed, TableRead, OneStale, Stale, PassPlace, NotStarted
<1>7. Senders  BY DEF Senders, SendersTyped, MessagesPlaced, Waiting
<1> QED  BY <1>3, <1>5, <1>6, <1>7 DEF IInv

LEMMA StartedSoundNext ==
  (Started /\ stored \subseteq issued /\ issued \subseteq Routes => IInv)'
BY StartedSound, PTL

LEMMA FatalKeepsIInv ==
  ASSUME IInv, RefreshFatal
  PROVE  IInv'
<1>1. Started'  BY DEF Started, RefreshFatal
<1>2. stored' \subseteq issued' /\ issued' \subseteq Routes
  BY DEF RefreshFatal, storageVars, IInv, Table, TableTyped
<1> QED  BY <1>1, <1>2, StartedSoundNext

(***************************************************************************)
(* Every step keeps the invariant.                                         *)
(***************************************************************************)
LEMMA ApiKeepsIInv ==
  ASSUME IInv, MaxStale <= 1, NEW r \in Routes, Api(r)
  PROVE  IInv'
<1> USE DEF IInv
<1>1. /\ UNCHANGED <<registryVars, tableVars, refresh, adder, fwd>>
      /\ stored' \subseteq issued' /\ issued' \subseteq Routes
  BY DEF Api, CreateLogDrain, DeleteLogDrain, drainVars, sendVars, registryVars, Table, TableTyped
<1>2. Registry'  BY <1>1, RegistryUnchanged DEF tableVars
<1>3. Table'  BY <1>1, TableUnchanged DEF registryVars
<1>4. Refreshed'  BY ApiKeepsRefreshed
<1>5. Senders'  BY <1>1, SendersUnchanged DEF tableVars
<1> QED  BY <1>2, <1>3, <1>4, <1>5

LEMMA AdderKeepsIInv ==
  ASSUME IInv, NEW r \in Routes, Adder(r) \/ AdderAcquire(r)
  PROVE  IInv'
<1> USE DEF IInv
<1>1. RegistryTyped /\ TableTyped  BY DEF Registry, Table
<1>2. Refreshed'  BY <1>1, AdderKeepsRefreshed
<1>3. CASE AdderAdd(r)
  <2>1. Registry' /\ Table' /\ Senders'
    BY <1>1, <1>3, AddKeepsRegistry, AddKeepsTable, AddKeepsSenders
  <2> QED  BY <1>2, <2>1
<1>4. CASE AdderCheck(r) \/ AdderDial(r) \/ AdderAcquire(r) \/ AdderGiveUp(r)
  <2>1. Table'  BY <1>1, <1>4, AdderKeepsTable
  <2>2. UNCHANGED <<routes, fwd>>
    BY <1>4 DEF AdderCheck, AdderDial, AdderAcquire, AdderGiveUp, tableVars, sendVars
  <2>3. Senders'  BY <2>2, SendersUnchanged
  <2>4. \/ D!DialBegin(r) \/ D!DialRefused(r) \/ D!DialQueue(r)
        \/ D!DialUnsupported(r) \/ D!DialOpen(r) \/ D!DialFailed(r)
        \/ D!DialShare(r)
        \/ D!DialConnected(r)
        \/ UNCHANGED registryVars
    BY <1>4 DEF AdderCheck, AdderDial, AdderAcquire, AdderGiveUp, D!DialStep, D!Acquire,
                drainVars, registryVars
  <2>5. Registry'
    BY <2>2, <2>4, DialKeepsRegistry, ShareKeepsRegistry, ConnectedKeepsRegistry, RegistryUnchanged
  <2> QED  BY <1>2, <2>1, <2>3, <2>5
<1> QED  BY <1>3, <1>4 DEF Adder

LEMMA RefreshKeepsIInv ==
  ASSUME IInv, RefreshStep
  PROVE  IInv'
<1> USE DEF IInv
<1>1. CASE RefreshRemove
  BY <1>1, RemoveKeepsRegistry, RemoveKeepsTable, RemoveKeepsRefreshed, RemoveKeepsSenders
<1>2. CASE RefreshRoutes \/ RefreshWaited \/ RefreshNextKey \/ RefreshKeep
  <2>1. UNCHANGED <<registryVars, routes, fwd>>
    BY <1>2 DEF RefreshRoutes, RefreshWaited, RefreshNextKey, RefreshKeep, drainVars, registryVars,
                tableVars, sendVars
  <2>2. Registry' /\ Senders'  BY <2>1, RegistryUnchanged, SendersUnchanged
  <2>3. Table' /\ Refreshed'
    BY <1>2, RefreshKeepsTable, RefreshKeepsRefreshed, PassKeepsTable, PassKeepsRefreshed
       DEF Refreshed
  <2> QED  BY <2>2, <2>3
<1> QED  BY <1>1, <1>2 DEF RefreshStep

LEMMA ForwardKeepsIInv ==
  ASSUME IInv, NEW f \in Forwarders, Forward(f) \/ \E k \in Keys : Snapshot(f, k)
  PROVE  IInv'
<1> USE DEF IInv
<1>1. UNCHANGED <<registryVars, stored, issued, routes, route_keys, refresh, adder>>
  BY DEF Forward, PickDestination, SendPacket, SendDone, Snapshot, drainVars, registryVars,
         tableVars, storageVars
<1>2. Registry'  BY <1>1, RegistryUnchanged
<1>3. Table'  BY <1>1, TableUnchanged DEF Table, TableTyped, tableVars, registryVars
<1>4. Refreshed'  BY <1>1, RefreshedUnchanged DEF tableVars, storageVars
<1>5. Senders'
  BY PickKeepsSenders, SendKeepsSenders, DoneKeepsSenders, SnapshotKeepsSenders DEF Forward
<1> QED  BY <1>2, <1>3, <1>4, <1>5

LEMMA QuietKeepsIInv ==
  ASSUME IInv, UNCHANGED <<registryVars, stored, issued, routes, route_keys, refresh, adder, fwd>>
  PROVE  IInv'
<1> USE DEF IInv
<1>1. Registry'  BY RegistryUnchanged
<1>2. Table'  BY TableUnchanged DEF Table, TableTyped, tableVars, registryVars
<1>3. Refreshed'  BY RefreshedUnchanged DEF tableVars, storageVars
<1>4. Senders'  BY SendersUnchanged
<1> QED  BY <1>1, <1>2, <1>3, <1>4

LEMMA NextIInv ==
  ASSUME IInv, MaxStale <= 1, [Next]_vars
  PROVE  IInv'
<1>1. CASE \E r \in Routes : Api(r) \/ Adder(r) \/ AdderAcquire(r)
  BY <1>1, ApiKeepsIInv, AdderKeepsIInv
<1>2. CASE RefreshStep  BY <1>2, RefreshKeepsIInv
<1>3. CASE RefreshFatal  BY <1>3, FatalKeepsIInv
<1>4. CASE \E f \in Forwarders : Forward(f) \/ \E k \in Keys : Snapshot(f, k)
  BY <1>4, ForwardKeepsIInv
<1>5. CASE ClearBadHosts \/ UNCHANGED vars
  <2>1. UNCHANGED <<registryVars, stored, issued, routes, route_keys, refresh, adder, fwd>>
    BY <1>5 DEF ClearBadHosts, D!ClearBadHosts, D!registry, vars, drainVars, storageVars, tableVars,
                sendVars, registryVars
  <2> QED  BY <2>1, QuietKeepsIInv
<1> QED  BY <1>1, <1>2, <1>3, <1>4, <1>5 DEF Next

\* The invariant holds in every state, if of each app at most one deleted route
\* waits for its removal.  (With two, the pass skips the second one, and what is
\* proved below is not so: see TableRead.)
THEOREM SpecIInv == MaxStale <= 1 => (Spec => []IInv)
<1> SUFFICES ASSUME MaxStale <= 1  PROVE Spec => []IInv
  OBVIOUS
<1>1. Init => IInv
  <2> SUFFICES ASSUME Init  PROVE IInv  OBVIOUS
  <2>1. Started  BY DEF Init, D!Init, Started
  <2>2. stored \subseteq issued /\ issued \subseteq Routes  BY DEF Init
  <2> QED  BY <2>1, <2>2, StartedSound
<1>2. IInv /\ [Next]_vars => IInv'  BY NextIInv
<1> QED  BY <1>1, <1>2, PTL DEF Spec

(***************************************************************************)
(* What the other parts of the state are: the keys of the registry, the    *)
(* bad hosts, and how far messages are in the slice they walk.             *)
(***************************************************************************)
Bounded ==
  /\ drain_keys \in Seq(Urls) /\ bad_hosts \subseteq Urls \cap Flaky
  /\ swallowed \in [Urls -> [1..MaxPools -> Nat]]
  /\ restarts \in 0..MaxRestarts

MessagesInside == \A f \in Forwarders : fwd[f].at # "wait" => fwd[f].next <= Len(fwd[f].view) + 1

\* What Undial leaves in drain_keys, which may or may not have the URL.
LEMMA KeysLeft ==
  ASSUME drain_keys \in Seq(Urls), NEW url
  PROVE  D!KeysWithout(url) \in Seq(Urls)
<1> DEFINE I == {i \in 1..Len(drain_keys) : drain_keys[i] = url}
           Down == {p \in Nat \X Nat : p[1] < p[2]}
           T == {Len(drain_keys) - i : i \in I}
<1>1. CASE I = {}
  BY <1>1 DEF D!KeysWithout, D!SelectLastInSeq
<1>2. CASE I # {}
  <2>1. T \subseteq Nat /\ T # {}  BY <1>2
  <2> HIDE DEF Down
  <2>2. IsWellFoundedOn(Down, Nat)
    <3>1. OpToRel(<, Nat) = Down  BY Zenon DEF OpToRel, Down
    <3> QED  BY <3>1, NatLessThanWellFounded
  <2> HIDE DEF T
  <2>3. PICK x \in T : \A y \in T : ~(<<y, x>> \in Down)  BY <2>1, <2>2, WFMin, Zenon
  <2>4. PICK n \in I : x = Len(drain_keys) - n  BY DEF T
  <2>5. \A i \in I : n >= i
    <3> SUFFICES ASSUME NEW i \in I  PROVE n >= i  OBVIOUS
    <3>1. ~(Len(drain_keys) - i < x)
      <4>1. Len(drain_keys) - i \in T  BY DEF T
      <4> QED  BY <2>1, <2>3, <4>1 DEF Down
    <3> QED  BY <2>4, <3>1
  <2>6. D!Max(I) \in I  BY <2>5 DEF D!Max
  <2> DEFINE last == IF I # {} THEN D!Max(I) ELSE 0
  <2>7. last \in 1..Len(drain_keys) /\ last # 0  BY <1>2, <2>6
  <2>8. D!KeysWithout(url) = IF last = 0 THEN drain_keys ELSE D!RemoveAt(drain_keys, last)
    BY Zenon DEF D!KeysWithout, D!SelectLastInSeq
  <2> HIDE DEF last
  <2>9. D!KeysWithout(url) = RemoveAt(drain_keys, last)
    BY <2>7, <2>8 DEF D!RemoveAt, RemoveAt
  <2> QED  BY <2>7, <2>9, RemovedAt
<1> QED  BY <1>1, <1>2

LEMMA BoundedNext ==
  ASSUME IInv, Bounded, [Next]_vars
  PROVE  Bounded'
<1> USE DEF Bounded
<1>1. CASE RefreshFatal
  <2>1. /\ drain_keys' = <<>> /\ bad_hosts' = {} /\ restarts' = restarts + 1
        /\ swallowed' = [url \in Urls |-> [g \in 1..MaxPools |-> 0]] /\ restarts < MaxRestarts
    BY <1>1 DEF RefreshFatal
  <2>2. swallowed' \in [Urls -> [1..MaxPools -> Nat]]  BY <2>1, Zenon
  <2> QED  BY <2>1, <2>2, BoundsNat
<1>2. ASSUME NEW f \in Forwarders, SendPacket(f)  PROVE Bounded'
  <2>1. UNCHANGED <<drain_keys, bad_hosts, restarts>>  BY <1>2 DEF SendPacket, drainVars
  <2> DEFINE url == Url[fwd[f].dest.route]
             g == fwd[f].dest.pool
  <2>2. \/ swallowed' = [swallowed EXCEPT ![url][g] = @ + 1]
        \/ UNCHANGED swallowed
    BY <1>2 DEF SendPacket
  <2> HIDE DEF url, g
  <2>3. swallowed' \in [Urls -> [1..MaxPools -> Nat]]
    <3>1. CASE url \in Urls
      <4> DEFINE count == [swallowed[url] EXCEPT ![g] = @ + 1]
      <4>1. swallowed[url] \in [1..MaxPools -> Nat]  BY <3>1
      <4>2. \A h \in 1..MaxPools : swallowed[url][h] + 1 \in Nat
        <5> SUFFICES ASSUME NEW h \in 1..MaxPools  PROVE swallowed[url][h] + 1 \in Nat  OBVIOUS
        <5>1. swallowed[url][h] \in Nat  BY <4>1
        <5> QED  BY <5>1
      <4>3. count \in [1..MaxPools -> Nat]  BY <4>1, <4>2
      <4>4. swallowed' = [swallowed EXCEPT ![url] = count] \/ UNCHANGED swallowed  BY <2>2
      <4> QED  BY <4>3, <4>4
    <3>2. CASE url \notin Urls  BY <2>2, <3>2
    <3> QED  BY <3>1, <3>2
  <2> QED  BY <2>1, <2>3
<1>3. CASE RefreshRemove
  <2>1. PICK url : D!Undial(url)  BY <1>3 DEF RefreshRemove, GiveBack
  <2>2. drain_keys' \in {drain_keys, D!KeysWithout(url)} /\ UNCHANGED bad_hosts
    BY <2>1 DEF D!Undial, D!ClosePool
  <2>3. UNCHANGED <<swallowed, restarts>>  BY <1>3 DEF RefreshRemove
  <2> QED  BY <2>2, <2>3, KeysLeft
<1>4. ASSUME NEW r \in Routes, AdderDial(r)  PROVE Bounded'
  <2>1. UNCHANGED <<swallowed, restarts>>  BY <1>4 DEF AdderDial, sendVars
  <2>2. /\ drain_keys' = drain_keys \/ drain_keys' = Append(drain_keys, Url[r])
        /\ bad_hosts' = bad_hosts \/ (Url[r] \in Flaky /\ bad_hosts' = bad_hosts \cup {Url[r]})
    <3>1. D!DialRefused(r) \/ D!DialQueue(r) => UNCHANGED <<drain_keys, bad_hosts>>
      BY DEF D!DialRefused, D!DialQueue, D!registry
    <3>2. D!DialConnected(r) => drain_keys' = Append(drain_keys, Url[r]) /\ UNCHANGED bad_hosts
      BY DEF D!DialConnected
    <3>3. D!DialFailed(r) => /\ UNCHANGED drain_keys /\ Url[r] \in Flaky
                             /\ bad_hosts' = bad_hosts \cup {Url[r]}
      BY DEF D!DialFailed, D!registry
    <3> QED  BY <1>4, <3>1, <3>2, <3>3 DEF AdderDial, D!DialStep
  <2>3. Url[r] \in Urls  BY RoutesHaveUrls
  <2>4. drain_keys' \in Seq(Urls)
    <3>1. Append(drain_keys, Url[r]) \in Seq(Urls)  BY <2>3
    <3> QED  BY <2>2, <3>1
  <2>5. bad_hosts' \subseteq Urls \cap Flaky  BY <2>2, <2>3
  <2> QED  BY <2>1, <2>4, <2>5
<1>5. CASE ClearBadHosts
  BY <1>5 DEF ClearBadHosts, D!ClearBadHosts, D!registry, sendVars
<1>6. CASE UNCHANGED <<drain_keys, bad_hosts, swallowed, restarts>>  BY <1>6
<1>7. ASSUME NEW r \in Routes,
             Api(r) \/ AdderCheck(r) \/ AdderGiveUp(r) \/ AdderAdd(r) \/ AdderAcquire(r)
      PROVE  Bounded'
  BY <1>6, <1>7 DEF Api, CreateLogDrain, DeleteLogDrain, AdderCheck, AdderGiveUp, AdderAdd,
     AdderAcquire, D!DialBegin, D!Acquire, D!DialShare, D!DialUnsupported, D!DialOpen, D!registry,
     drainVars, sendVars
<1>8. CASE RefreshRoutes \/ RefreshWaited \/ RefreshNextKey \/ RefreshKeep \/ UNCHANGED vars
  BY <1>6, <1>8 DEF RefreshRoutes, RefreshWaited, RefreshNextKey, RefreshKeep, vars, drainVars, sendVars
<1>9. ASSUME NEW f \in Forwarders,
             PickDestination(f) \/ SendDone(f) \/ \E k \in Keys : Snapshot(f, k)
      PROVE  Bounded'
  BY <1>6, <1>9 DEF PickDestination, SendDone, Snapshot, drainVars
<1> QED
  BY <1>1, <1>2, <1>3, <1>4, <1>5, <1>7, <1>8, <1>9 DEF Next, Adder, RefreshStep, Forward

\* Who walks an array that is rewritten, or left by the table, keeps its place.
LEMMA PlaceKept ==
  ASSUME IInv, NEW k, NEW s \in Seq(Destination),
         \/ fwd' = Rewrite(k, s) \/ fwd' = Detach(k)
         \/ fwd' = [f \in Forwarders |->
                      IF f \in Sharing(k) THEN [Rewrite(k, s)[f] EXCEPT !.torn = TRUE] ELSE fwd[f]]
  PROVE  MessagesInside => MessagesInside'
<1> SUFFICES ASSUME NEW f \in Forwarders
             PROVE  /\ fwd'[f].at # "wait" => fwd[f].at # "wait"
                    /\ fwd[f].at # "wait" => /\ fwd'[f].next = fwd[f].next
                                             /\ Len(fwd'[f].view) = Len(fwd[f].view)
  BY DEF MessagesInside
<1> DEFINE o == fwd[f]
           view == Seen(o.view, s)
<1>1. f \in Sharing(k) => o \in Message /\ o.at # "wait"
  BY DEF Sharing, IInv, Senders, SendersTyped, Waiting
<1> DEFINE Torn == [h \in Forwarders |-> IF h \in Sharing(k)
                                           THEN [Rewrite(k, s)[h] EXCEPT !.torn = TRUE] ELSE fwd[h]]
<1>2. CASE f \notin Sharing(k)
  <2>1. Rewrite(k, s)[f] = fwd[f] /\ Detach(k)[f] = fwd[f] /\ Torn[f] = fwd[f]
    BY <1>2 DEF Rewrite, Detach
  <2> QED  BY <2>1
<1>3. CASE f \in Sharing(k)
  <2>1. o \in Message /\ o.at # "wait"  BY <1>1, <1>3
  <2>2. \/ fwd'[f] = [o EXCEPT !.view = view]
        \/ fwd'[f] = [[o EXCEPT !.view = view] EXCEPT !.torn = TRUE]
        \/ fwd'[f] = [o EXCEPT !.shared = FALSE]
    <3>1. /\ Rewrite(k, s)[f] = [o EXCEPT !.view = view]
          /\ Detach(k)[f] = [o EXCEPT !.shared = FALSE]
      BY <1>3 DEF Rewrite, Detach
    <3>2. Torn[f] = [[o EXCEPT !.view = view] EXCEPT !.torn = TRUE]  BY <1>3, <3>1
    <3> QED  BY <3>1, <3>2
  <2>3. Len(view) = Len(o.view)  BY <2>1, SeenTyped DEF Message
  <2> HIDE DEF o, view
  <2>4. fwd'[f].next = o.next /\ (fwd'[f].view = view \/ fwd'[f].view = o.view)
    BY <2>1, <2>2 DEF Message
  <2> QED  BY <2>1, <2>3, <2>4 DEF o
<1> QED  BY <1>2, <1>3

LEMMA InsideNext ==
  ASSUME IInv, MessagesInside, [Next]_vars
  PROVE  MessagesInside'
<1>1. fwd \in [Forwarders -> {Waiting} \cup Message] /\ Waiting.at = "wait"
  BY DEF IInv, Senders, SendersTyped, Waiting
<1>2. ASSUME NEW f \in Forwarders, NEW m, fwd' = [fwd EXCEPT ![f] = m],
             m.at # "wait" => m.next <= Len(m.view) + 1
      PROVE  MessagesInside'
  BY <1>1, <1>2 DEF MessagesInside
<1>3. ASSUME NEW f \in Forwarders, NEW k \in Keys, Snapshot(f, k)  PROVE MessagesInside'
  <2> DEFINE m == [at |-> "pick", key |-> k, view |-> routes[k], shared |-> TRUE, next |-> 1,
                   dest |-> routes[k][1], due |-> TableIds(k), sent |-> <<>>, torn |-> FALSE]
  <2>1. fwd' = [fwd EXCEPT ![f] = m]  BY <1>3 DEF Snapshot
  <2>2. routes[k] \in Seq(Destination)  BY DEF IInv, Table, TableTyped
  <2>3. m.next = 1 /\ m.view = routes[k]  OBVIOUS
  <2>4. m.next <= Len(m.view) + 1  BY <2>2, <2>3
  <2> QED  BY <1>2, <2>1, <2>4
<1>4. ASSUME NEW f \in Forwarders, PickDestination(f)  PROVE MessagesInside'
  <2> DEFINE o == fwd[f]
             d == o.view[o.next]
             m == [o EXCEPT !.at = "send", !.next = o.next + 1, !.dest = d]
  <2>1. o.at = "pick" /\ o.next <= Len(o.view) /\ fwd' = [fwd EXCEPT ![f] = m]
    BY <1>4 DEF PickDestination
  <2>2. o \in Message  BY <1>1, <2>1
  <2> HIDE DEF o, d
  <2>3. m.next = o.next + 1 /\ m.view = o.view /\ o.next \in Nat /\ o.view \in Seq(Destination)
    BY <2>2 DEF Message
  <2>4. m.next <= Len(m.view) + 1  BY <2>1, <2>3
  <2> QED  BY <1>2, <2>1, <2>4
<1>5. ASSUME NEW f \in Forwarders, SendPacket(f)  PROVE MessagesInside'
  <2> DEFINE o == fwd[f]
             sent == Append(o.sent, o.dest.route)
             m == [o EXCEPT !.at = "pick", !.sent = sent]
  <2>1. o.at = "send" /\ fwd' = [fwd EXCEPT ![f] = m]  BY <1>5 DEF SendPacket
  <2>2. o \in Message /\ o.next <= Len(o.view) + 1  BY <1>1, <2>1 DEF MessagesInside
  <2> HIDE DEF o, sent
  <2>3. m.next = o.next /\ m.view = o.view  BY <2>2 DEF Message
  <2> QED  BY <1>2, <2>1, <2>2, <2>3
<1>6. ASSUME NEW f \in Forwarders, SendDone(f)  PROVE MessagesInside'
  BY <1>1, <1>2, <1>6 DEF SendDone
<1>7. ASSUME NEW r \in Routes, AdderAdd(r)  PROVE MessagesInside'
  <2> DEFINE longer == Longer(Key[r], [route |-> r, pool |-> handle[r]])
  <2>1. longer \in Seq(Destination)
    <3>1. /\ [route |-> r, pool |-> handle[r]] \in Destination
          /\ routes[Key[r]] \in Seq(Destination)
      BY RoutesHaveKeys DEF IInv, Registry, RegistryTyped, Table, TableTyped, Destination
    <3> QED  BY <3>1 DEF Longer
  <2>2. fwd' = Rewrite(Key[r], longer) \/ fwd' = Detach(Key[r])  BY <1>7 DEF AdderAdd
  <2> HIDE DEF longer
  <2> QED  BY <2>1, <2>2, PlaceKept
<1>8. CASE RefreshRemove
  <2> DEFINE k == route_keys[refresh.key]
             cut == RemoveAt(routes[k], refresh.ndx)
  <2>1. k \in Keys /\ refresh.view = routes[k] /\ refresh.ndx \in 1..Len(routes[k])
    BY <1>8, RemoveFinds DEF IInv
  <2>2. cut \in Seq(Destination)  BY <2>1, RemovedAt DEF IInv, Table, TableTyped
  <2>3. \/ fwd' = Detach(k)
        \/ fwd' = [f \in Forwarders |->
                     IF f \in Sharing(k) THEN [Rewrite(k, cut)[f] EXCEPT !.torn = TRUE] ELSE fwd[f]]
    BY <1>8, <2>1 DEF RefreshRemove, Cut
  <2> HIDE DEF k, cut
  <2> QED  BY <2>2, <2>3, PlaceKept
<1>9. CASE RefreshFatal
  BY <1>1, <1>9 DEF RefreshFatal, MessagesInside
<1>10. CASE UNCHANGED fwd  BY <1>10 DEF MessagesInside
<1>11. ASSUME NEW r \in Routes,
              Api(r) \/ AdderCheck(r) \/ AdderDial(r) \/ AdderGiveUp(r) \/ AdderAcquire(r)
       PROVE  UNCHANGED fwd
  BY <1>11 DEF Api, CreateLogDrain, DeleteLogDrain, AdderCheck, AdderDial, AdderGiveUp,
     AdderAcquire, sendVars
<1>12. CASE RefreshRoutes \/ RefreshWaited \/ RefreshNextKey \/ RefreshKeep \/ ClearBadHosts
            \/ UNCHANGED vars
  BY <1>10, <1>12 DEF RefreshRoutes, RefreshWaited, RefreshNextKey, RefreshKeep, ClearBadHosts,
     vars, sendVars
<1> QED
  BY <1>3, <1>4, <1>5, <1>6, <1>7, <1>8, <1>9, <1>10, <1>11, <1>12
  DEF Next, Adder, RefreshStep, Forward

LEMMA SpecBounded == MaxStale <= 1 => (Spec => [](Bounded /\ MessagesInside))
<1>1. Init => Bounded /\ MessagesInside
  <2> SUFFICES ASSUME Init  PROVE Bounded /\ MessagesInside  OBVIOUS
  <2>1. MessagesInside  BY DEF Init, MessagesInside, Waiting
  <2>2. /\ drain_keys = <<>> /\ bad_hosts = {} /\ restarts = 0
        /\ swallowed = [url \in Urls |-> [g \in 1..MaxPools |-> 0]]
    BY DEF Init, D!Init
  <2>3. swallowed \in [Urls -> [1..MaxPools -> Nat]]  BY <2>2, Zenon
  <2> QED  BY <2>1, <2>2, <2>3, BoundsNat DEF Bounded
<1>2. IInv /\ Bounded /\ MessagesInside /\ [Next]_vars => (Bounded /\ MessagesInside)'
  BY BoundedNext, InsideNext
<1> QED  BY <1>1, <1>2, SpecIInv, PTL DEF Spec

(***************************************************************************)
(* What the refresh read and the table: each reliable route that was read  *)
(* is served, or its adder is on its way to serve it, or it was kept out   *)
(* as a duplicate of a route that the removal then dropped.                *)
(***************************************************************************)
Coming(r) ==
  \/ adder[r] = "check"
  \/ adder[r] = "dial" /\ (call[r] # "idle" \/ handle[r] # 0)

Removing == refresh.at # "adding" /\ ~(refresh.at = "removing" /\ refresh.key = 0)

ServedOrNot(r) ==
  \/ Served(r)
  \/ refresh.at = "adding" /\ Coming(r)
  \/ Removing /\ Displaced(r)

ReadIsServed == \A r \in refresh.pkg : Reliable(r) => ServedOrNot(r)

\* A route is served when a route of its key with its URL is in the table.
LEMMA ServedInTable ==
  TableTyped /\ OwnKey =>
    \A r \in Routes :
      Served(r) <=> \E s \in Routes : Key[s] = Key[r] /\ Url[s] = Url[r] /\ InTable(s)
<1> SUFFICES ASSUME TableTyped, OwnKey, NEW r \in Routes
             PROVE  Served(r) <=> \E s \in Routes : Key[s] = Key[r] /\ Url[s] = Url[r] /\ InTable(s)
  OBVIOUS
<1>1. Served(r) <=> \E s \in TableIds(Key[r]) : Url[s] = Url[r]
  BY Zenon DEF Served, TableIds
<1>2. TableIds(Key[r]) = {s \in Routes : Key[s] = Key[r] /\ InTable(s)}
  BY SliceIsKey, RoutesHaveKeys
<1> QED  BY <1>1, <1>2, Zenon

LEMMA ServedInTableNext ==
  (TableTyped /\ OwnKey =>
     \A r \in Routes :
       Served(r) <=> \E s \in Routes : Key[s] = Key[r] /\ Url[s] = Url[r] /\ InTable(s))'
BY ServedInTable, PTL

LEMMA ServedUnchanged ==
  ASSUME UNCHANGED routes
  PROVE  \A r \in Routes : Served(r)' <=> Served(r)
BY DEF Served

\* What the API does leaves the routes that it is not about as they were.
LEMMA ApiKeepsServed ==
  ASSUME IInv, ReadIsServed, NEW q \in Routes, Api(q)
  PROVE  ReadIsServed'
<1>1. UNCHANGED <<routes, refresh, adder, call, handle>>
  BY DEF Api, CreateLogDrain, DeleteLogDrain, tableVars, drainVars
<1>2. refresh.pkg \subseteq Routes  BY DEF IInv, Table, TableTyped, Pass
<1>3. \A r : Displaced(r) => Displaced(r)'
  BY <1>1 DEF Displaced, Api, CreateLogDrain, DeleteLogDrain
<1>4. \A r \in Routes : Served(r)' <=> Served(r)  BY <1>1, ServedUnchanged
<1> QED  BY <1>1, <1>2, <1>3, <1>4 DEF ReadIsServed, ServedOrNot, Removing, Coming, Reliable

\* An adder fails only when the host or the scheme of its route is not reliable.
LEMMA DialComes ==
  ASSUME IInv, Bounded, NEW q \in Routes, Reliable(q), Coming(q), adder[q] = "dial",
         UNCHANGED adder, D!DialStep(q) \/ D!Acquire(q)
  PROVE  Coming(q)'
<1>1. /\ call \in [Routes -> D!CallState] /\ handle \in [Routes -> Nat]
      /\ drains \in [Urls -> Nat] /\ opened \in [Urls -> Nat]
  BY DEF IInv, Registry, RegistryTyped
<1>2. Url[q] \in Urls /\ Url[q] \in Supported /\ Url[q] \notin Flaky /\ Url[q] \notin bad_hosts
  BY RoutesHaveUrls DEF Reliable, Bounded
<1>3. ~D!DialRefused(q) /\ ~D!DialFailed(q) /\ ~D!DialUnsupported(q)
  BY <1>2 DEF D!DialRefused, D!DialFailed, D!DialUnsupported
<1>4. call'[q] # "idle" \/ handle'[q] # 0
  <2>1. CASE D!DialQueue(q) \/ D!DialOpen(q)
    BY <1>1, <2>1 DEF D!DialQueue, D!DialOpen, D!Goto
  <2>2. CASE D!DialConnected(q)
    <3>1. opened[Url[q]] + 1 # 0  BY <1>1, <1>2
    <3> QED  BY <1>1, <2>2, <3>1 DEF D!DialConnected
  <2>3. CASE D!DialShare(q)
    BY <1>1, <2>3 DEF D!DialShare
  <2> QED  BY <1>3, <2>1, <2>2, <2>3 DEF D!DialStep, D!Acquire
<1> QED  BY <1>4 DEF Coming

LEMMA DialKeepsServed ==
  ASSUME IInv, Bounded, ReadIsServed, NEW q \in Routes,
         AdderCheck(q) \/ AdderDial(q) \/ AdderGiveUp(q) \/ AdderAcquire(q)
  PROVE  ReadIsServed'
<1>1. UNCHANGED <<routes, refresh, stored, issued>>
  BY DEF AdderCheck, AdderDial, AdderGiveUp, AdderAcquire, tableVars, storageVars
<1>2. refresh.pkg \subseteq Routes  BY DEF IInv, Table, TableTyped, Pass
<1>3. \A r : Displaced(r)' <=> Displaced(r)  BY <1>1 DEF Displaced
<1>4. \A r \in Routes : Served(r)' <=> Served(r)  BY <1>1, ServedUnchanged
<1>5. Removing' <=> Removing  BY <1>1 DEF Removing
<1>6. /\ call \in [Routes -> D!CallState] /\ handle \in [Routes -> Nat]
      /\ adder \in [Routes -> {"none", "check", "dial"}]
  BY DEF IInv, Registry, RegistryTyped, Table, TableTyped
<1>7. \A r \in Routes : r # q => Coming(r)' = Coming(r)
  <2>1. \A r \in Routes : r # q => adder'[r] = adder[r]
    BY <1>6 DEF AdderCheck, AdderDial, AdderGiveUp, AdderAcquire
  <2>2. \A r \in Routes : r # q => call'[r] = call[r] /\ handle'[r] = handle[r]
    BY <1>6 DEF AdderCheck, AdderDial, AdderGiveUp, AdderAcquire, D!DialBegin, D!DialStep,
       D!DialRefused, D!DialQueue, D!DialConnected, D!DialFailed, D!Acquire, D!DialShare,
       D!DialUnsupported, D!DialOpen, D!Goto, drainVars
  <2> QED  BY <2>1, <2>2 DEF Coming
<1>8. Reliable(q) /\ Coming(q) => Served(q) \/ Coming(q)'
  <2> SUFFICES ASSUME Reliable(q), Coming(q), ~Served(q)  PROVE Coming(q)'  OBVIOUS
  <2>1. CASE AdderCheck(q)
    BY <1>6, <2>1 DEF AdderCheck, D!DialBegin, D!Goto, Coming
  <2>2. CASE AdderDial(q) \/ AdderAcquire(q)
    BY <2>2, DialComes DEF AdderDial, AdderAcquire
  <2>3. CASE AdderGiveUp(q)  BY <2>3 DEF AdderGiveUp, Coming
  <2> QED  BY <2>1, <2>2, <2>3
<1> QED
  BY <1>1, <1>2, <1>3, <1>4, <1>5, <1>7, <1>8 DEF ReadIsServed, ServedOrNot, Reliable

LEMMA AddKeepsServed ==
  ASSUME IInv, IInv', ReadIsServed, NEW q \in Routes, AdderAdd(q)
  PROVE  ReadIsServed'
<1>1. /\ UNCHANGED <<refresh, stored, issued, call>>
      /\ adder' = [adder EXCEPT ![q] = "none"] /\ handle' = [handle EXCEPT ![q] = 0]
  BY DEF AdderAdd, storageVars
<1>2. refresh.pkg \subseteq Routes  BY DEF IInv, Table, TableTyped, Pass
<1>3. \A r : Displaced(r)' <=> Displaced(r)  BY <1>1 DEF Displaced
<1>4. \A s \in Routes : InTable(s)' <=> InTable(s) \/ s = q
  BY AddEffect DEF IInv, Table, Registry
<1>5. \A r \in Routes : Served(r) => Served(r)'
  BY <1>4, ServedInTable, ServedInTableNext DEF IInv, Table
<1>6. Served(q)'  BY <1>4, ServedInTableNext DEF IInv, Table
<1>7. \A r \in Routes : r # q => Coming(r)' = Coming(r)
  BY <1>1 DEF Coming, IInv, Registry, RegistryTyped, Table, TableTyped
<1>8. Removing' <=> Removing  BY <1>1 DEF Removing
<1> QED
  BY <1>1, <1>2, <1>3, <1>5, <1>6, <1>7, <1>8 DEF ReadIsServed, ServedOrNot, Reliable

\* The refresh starts an adder for each reliable route that is not in the table.
LEMMA RefreshKeepsServed ==
  ASSUME IInv, RefreshRoutes
  PROVE  ReadIsServed'
<1>1. /\ refresh' = [refresh EXCEPT !.at = "adding", !.pkg = stored]
      /\ adder' = [r \in Routes |-> IF r \in stored /\ ~InTable(r) /\ Url[r] \notin Disallowed
                                      THEN "check" ELSE "none"]
      /\ UNCHANGED routes
  BY DEF RefreshRoutes, tableVars
<1>2. /\ refresh \in Pass /\ stored \subseteq Routes /\ TableTyped /\ OwnKey
  BY DEF IInv, Table, TableTyped
<1>3. refresh'.at = "adding" /\ refresh'.pkg = stored  BY <1>1, <1>2 DEF Pass
<1>4. ASSUME NEW r \in stored, Reliable(r)  PROVE Served(r)' \/ Coming(r)'
  <2>1. CASE InTable(r)
    <3>1. Served(r)  BY <1>2, <2>1, ServedInTable
    <3> QED  BY <1>1, <1>2, <3>1, ServedUnchanged
  <2>2. CASE ~InTable(r)
    BY <1>1, <1>2, <1>4, <2>2 DEF Coming, Reliable
  <2> QED  BY <2>1, <2>2
<1> QED  BY <1>3, <1>4 DEF ReadIsServed, ServedOrNot, Reliable

\* The removal starts when no adder is left: what was read is served then.
LEMMA PassKeepsServed ==
  ASSUME IInv, ReadIsServed, RefreshWaited \/ RefreshNextKey \/ RefreshKeep
  PROVE  ReadIsServed'
<1>1. UNCHANGED <<routes, stored, issued, adder>>
  BY DEF RefreshWaited, RefreshNextKey, RefreshKeep, tableVars, storageVars
<1>2. refresh \in Pass /\ refresh.pkg \subseteq Routes  BY DEF IInv, Table, TableTyped, Pass
<1>3. refresh'.pkg = refresh.pkg
  <2>1. CASE RefreshWaited \/ RefreshKeep
    BY <1>2, <2>1 DEF RefreshWaited, RefreshKeep, Pass
  <2>2. CASE RefreshNextKey
    <3>1. CASE refresh' = Resting(refresh.pkg)  BY <3>1 DEF Resting
    <3>2. CASE refresh' # Resting(refresh.pkg)
      BY <1>2, <2>2, <3>2 DEF RefreshNextKey, Pass
    <3> QED  BY <3>1, <3>2
  <2> QED  BY <2>1, <2>2
<1>4. \A r : Displaced(r)' <=> Displaced(r)  BY <1>1, <1>3 DEF Displaced
<1>5. \A r \in Routes : Served(r)' <=> Served(r)  BY <1>1, ServedUnchanged
<1>6. CASE RefreshWaited
  <2>1. \A r \in Routes : ~Coming(r)  BY <1>6 DEF RefreshWaited, Coming
  <2>2. ~Removing  BY <1>6 DEF RefreshWaited, Removing
  <2> QED  BY <1>2, <1>3, <1>5, <2>1, <2>2 DEF ReadIsServed, ServedOrNot, Reliable
<1>7. CASE RefreshNextKey \/ RefreshKeep
  <2>1. refresh.at = "removing"  BY <1>7 DEF RefreshNextKey, RefreshKeep
  <2>2. Removing => Removing'
    <3>1. CASE RefreshNextKey
      <4>1. \/ refresh'.at = "idle"
            \/ refresh'.at = "removing" /\ refresh'.key = refresh.key + 1
        BY <1>2, <2>1, <3>1 DEF RefreshNextKey, Resting, Pass
      <4>2. refresh.key \in Nat  BY <1>2 DEF Pass
      <4> QED  BY <4>1, <4>2 DEF Removing
    <3>2. CASE RefreshKeep
      <4>1. refresh'.at = refresh.at /\ refresh'.key = refresh.key
        BY <1>2, <3>2 DEF RefreshKeep, Pass
      <4> QED  BY <4>1 DEF Removing
    <3> QED  BY <1>7, <3>1, <3>2
  <2> QED
    BY <1>2, <1>3, <1>4, <1>5, <2>1, <2>2 DEF ReadIsServed, ServedOrNot, Reliable
<1> QED  BY <1>6, <1>7

\* A cut takes a destination from a route only as its displaced duplicate.
LEMMA RemoveKeepsServed ==
  ASSUME IInv, IInv', ReadIsServed, RefreshRemove
  PROVE  ReadIsServed'
<1> DEFINE k == route_keys[refresh.key]
           q == routes[k][refresh.ndx].route
<1>1. /\ k \in Keys /\ refresh.view = routes[k] /\ refresh.ndx \in 1..Len(routes[k])
      /\ q \in Routes /\ q \notin refresh.pkg
  BY RemoveFinds DEF IInv
<1>2. \A s \in Routes : InTable(s)' <=> InTable(s) /\ s # q
  BY RemoveEffect DEF IInv
<1>3. InTable(q)
  <2>1. routes[k] \in Seq(Destination)  BY <1>1 DEF IInv, Table, TableTyped
  <2>2. refresh.ndx \in DOMAIN routes[k]  BY <1>1, <2>1
  <2>3. Key[q] = k  BY <1>1, <2>2 DEF IInv, Table, OwnKey
  <2> QED  BY <2>2, <2>3 DEF InTable, TableIds
<1>4. refresh.at = "removing"  BY DEF RefreshRemove
<1>5. q \in issued \ (stored \cup refresh.pkg)
  BY <1>1, <1>3, <1>4 DEF IInv, Refreshed, TableRead
<1>6. refresh \in Pass /\ refresh.pkg \subseteq Routes  BY DEF IInv, Table, TableTyped, Pass
<1>7. UNCHANGED <<stored, issued>>  BY DEF RefreshRemove, storageVars
<1>8. refresh'.at = refresh.at /\ refresh'.key = refresh.key /\ refresh'.pkg = refresh.pkg
  BY <1>6 DEF RefreshRemove, Pass
<1>9. Removing /\ Removing'
  <2>1. Len(routes[k]) # 0  BY <1>1
  <2>2. routes[k] # <<>>  BY <2>1
  <2>3. refresh.key # 0  BY <1>1, <1>4, <2>2 DEF IInv, Refreshed, PassPlace
  <2> QED  BY <1>4, <1>8, <2>3 DEF Removing
<1> HIDE DEF q
<1>10. \A r : Displaced(r) => Displaced(r)'  BY <1>7, <1>8 DEF Displaced
<1>11. ASSUME NEW r \in Routes, Served(r)  PROVE Served(r)' \/ Displaced(r)'
  <2>1. PICK s \in Routes : Key[s] = Key[r] /\ Url[s] = Url[r] /\ InTable(s)
    BY <1>11, ServedInTable DEF IInv, Table
  <2>2. CASE s = q  BY <1>5, <1>7, <1>8, <2>1, <2>2 DEF Displaced
  <2>3. CASE s # q
    <3>1. InTable(s)'  BY <1>2, <2>1, <2>3
    <3> QED  BY <2>1, <3>1, ServedInTableNext DEF IInv, Table
  <2> QED  BY <2>2, <2>3
<1> QED
  BY <1>4, <1>6, <1>8, <1>9, <1>10, <1>11 DEF ReadIsServed, ServedOrNot, Reliable

LEMMA NextReadIsServed ==
  ASSUME IInv, IInv', Bounded, ReadIsServed, [Next]_vars
  PROVE  ReadIsServed'
<1>1. CASE RefreshFatal  BY <1>1 DEF RefreshFatal, NotStarted, ReadIsServed
<1>2. ASSUME NEW q \in Routes, Api(q) \/ Adder(q) \/ AdderAcquire(q)  PROVE ReadIsServed'
  BY <1>2, ApiKeepsServed, DialKeepsServed, AddKeepsServed DEF Adder
<1>3. CASE RefreshStep
  BY <1>3, RefreshKeepsServed, PassKeepsServed, RemoveKeepsServed DEF RefreshStep
<1>4. CASE \/ UNCHANGED vars \/ ClearBadHosts
           \/ \E f \in Forwarders : Forward(f) \/ \E k \in Keys : Snapshot(f, k)
  <2>1. UNCHANGED <<routes, refresh, stored, issued, adder, call, handle>>
    BY <1>4 DEF vars, tableVars, storageVars, drainVars, ClearBadHosts, D!ClearBadHosts, Forward,
       PickDestination, SendPacket, SendDone, Snapshot
  <2>2. refresh.pkg \subseteq Routes  BY DEF IInv, Table, TableTyped, Pass
  <2>3. \A r \in Routes : Served(r)' <=> Served(r)  BY <2>1, ServedUnchanged
  <2>4. \A r : Displaced(r)' <=> Displaced(r)  BY <2>1 DEF Displaced
  <2> QED
    BY <2>1, <2>2, <2>3, <2>4 DEF ReadIsServed, ServedOrNot, Removing, Coming, Reliable
<1> QED  BY <1>1, <1>2, <1>3, <1>4 DEF Next

LEMMA SpecReadIsServed == MaxStale <= 1 => (Spec => []ReadIsServed)
<1>1. Init => ReadIsServed  BY DEF Init, NotStarted, ReadIsServed
<1>2. IInv /\ IInv' /\ Bounded /\ ReadIsServed /\ [Next]_vars => ReadIsServed'
  BY NextReadIsServed
<1> QED  BY <1>1, <1>2, SpecIInv, SpecBounded, PTL DEF Spec

(***************************************************************************)
(* What follows from the invariant.                                        *)
(***************************************************************************)
\* A slice without a repeated route has as many routes as destinations.
LEMMA IdsCounted ==
  ASSUME NEW s \in Seq(Destination),
         \A i, j \in DOMAIN s : s[i].route = s[j].route => i = j
  PROVE  Cardinality(Ids(s)) = Len(s)
<1> DEFINE f == [i \in 1..Len(s) |-> s[i].route]
<1>1. DOMAIN s = 1..Len(s) /\ Len(s) \in Nat  OBVIOUS
<1>2. IsFiniteSet(1..Len(s)) /\ Cardinality(1..Len(s)) = Len(s)
  BY <1>1, FS_Interval
<1>3. f \in Surjection(1..Len(s), Ids(s))  BY <1>1 DEF Surjection, Ids
<1>4. f \in Injection(1..Len(s), Ids(s))  BY <1>1, <1>3 DEF Surjection, Injection, IsInjective
<1> HIDE DEF f
<1> QED  BY <1>2, <1>3, <1>4, FS_Surjection

\* The positions of the table that send to a URL are as many as its routes in
\* the table.
LEMMA EntriesCounted ==
  ASSUME TableTyped, OwnKey, Once, NEW url
  PROVE  Cardinality(Entries(url)) = Cardinality({r \in Routes : Url[r] = url /\ InTable(r)})
<1> DEFINE T == {r \in Routes : Url[r] = url /\ InTable(r)}
           f == [p \in Entries(url) |-> routes[p[1]][p[2]].route]
<1>1. IsFiniteSet(T)
  <2>1. T \in SUBSET Routes  OBVIOUS
  <2> QED  BY <2>1, FS_Subset, RoutesFinite
<1>2. ASSUME NEW p \in Entries(url)
      PROVE  /\ p[1] \in Keys /\ p[2] \in DOMAIN routes[p[1]] /\ p = <<p[1], p[2]>>
             /\ f[p] \in T /\ Key[f[p]] = p[1]
  <2>1. /\ p[1] \in Keys /\ p[2] \in DOMAIN routes[p[1]] /\ p = <<p[1], p[2]>>
        /\ Url[routes[p[1]][p[2]].route] = url
    BY DEF Entries
  <2>2. routes[p[1]] \in Seq(Destination)  BY <2>1 DEF TableTyped
  <2>3. routes[p[1]][p[2]] \in Destination  BY <2>1, <2>2
  <2>4. f[p] \in Routes  BY <2>3 DEF Destination
  <2>5. Key[f[p]] = p[1]  BY <2>1 DEF OwnKey
  <2>6. InTable(f[p])  BY <2>1, <2>5 DEF InTable, TableIds
  <2> QED  BY <2>1, <2>4, <2>5, <2>6
<1>3. f \in [Entries(url) -> T]  BY <1>2
<1>4. ASSUME NEW p \in Entries(url), NEW q \in Entries(url), f[p] = f[q]  PROVE p = q
  <2>1. p[1] = q[1]  BY <1>2, <1>4
  <2>2. routes[p[1]][p[2]].route = routes[p[1]][q[2]].route  BY <1>4, <2>1
  <2>3. p[2] = q[2]  BY <1>2, <2>1, <2>2 DEF Once
  <2> QED  BY <1>2, <2>1, <2>3
<1>5. f \in Injection(Entries(url), T)  BY <1>3, <1>4 DEF Injection, IsInjective
<1>6. ASSUME NEW r \in T  PROVE \E p \in Entries(url) : f[p] = r
  <2>1. Key[r] \in Keys  BY RoutesHaveKeys
  <2>2. PICK i \in DOMAIN routes[Key[r]] : routes[Key[r]][i].route = r  BY DEF InTable, TableIds
  <2>3. <<Key[r], i>> \in Entries(url)  BY <2>1, <2>2 DEF Entries
  <2> QED  BY <2>2, <2>3
<1>7. f \in Surjection(Entries(url), T)  BY <1>3, <1>6 DEF Surjection
<1> HIDE DEF f, T
<1>8. Cardinality(Entries(url)) = Cardinality(T)  BY <1>1, <1>5, <1>7, FS_Injection
<1> QED  BY <1>8 DEF T

LEMMA RefsCounted == IInv => CountIsRefs
<1> SUFFICES ASSUME IInv, NEW url \in Urls
             PROVE  drains_count[url] = Cardinality(Entries(url)) + Cardinality(D!Holders(url))
  BY DEF CountIsRefs
<1> DEFINE T == {r \in Routes : Url[r] = url /\ InTable(r)}
           H == D!Holders(url)
<1>1. Cardinality(Entries(url)) = Cardinality(T)  BY EntriesCounted DEF IInv, Table
<1>2. IsFiniteSet(T) /\ IsFiniteSet(H)
  <2>1. T \in SUBSET Routes /\ H \in SUBSET Routes  BY DEF D!Holders
  <2> QED  BY <2>1, FS_Subset, RoutesFinite
<1>3. T \cap H = {}
  <2>1. \A r \in Routes : handle[r] # 0 => ~InTable(r)  BY DEF IInv, Table, AddersAdd
  <2> QED  BY <2>1 DEF D!Holders
<1>4. Users(url) = T \cup H  BY DEF Users, D!Holders
<1>5. drains_count[url] = Cardinality(T \cup H)  BY <1>4 DEF IInv, Registry, CountIsUsers
<1>6. Cardinality(T \cap H) = 0  BY <1>3, FS_EmptySet
<1> HIDE DEF T, H
<1>7. Cardinality(T \cup H) = Cardinality(T) + Cardinality(H) - Cardinality(T \cap H)
  BY <1>2, FS_Union
<1>8. Cardinality(T) \in Nat /\ Cardinality(H) \in Nat  BY <1>2, FS_CardinalityType
<1> QED  BY <1>1, <1>5, <1>6, <1>7, <1>8 DEF H

\* The slices of the table and the copies that forwarders walk are well formed,
\* and only a goroutine in drains.Dial is known to the registry.
THEOREM SpecTypeOK == MaxStale <= 1 => (Spec => []TypeOK)
<1>1. IInv /\ Bounded /\ MessagesInside => TypeOK
  <2> SUFFICES ASSUME IInv, Bounded, MessagesInside  PROVE TypeOK  OBVIOUS
  <2>1. TableTyped /\ AddersAdd /\ SendersTyped /\ RegistryTyped /\ PassPlace
    BY DEF IInv, Table, Senders, Registry, Refreshed
  <2>2. D!TypeOK  BY <2>1 DEF RegistryTyped, Bounded, D!TypeOK
  <2>3. refresh.key \in 0..Len(route_keys) /\ refresh.ndx \in 1..(Len(refresh.view) + 1)
    BY <2>1 DEF TableTyped, PassPlace
  <2>4. ASSUME NEW f \in Forwarders, fwd[f].at # "wait"
        PROVE  fwd[f].next \in 1..(Len(fwd[f].view) + 1)
    <3>1. fwd[f] \in Message  BY <2>1, <2>4 DEF SendersTyped, Waiting
    <3>2. fwd[f].next \in Nat \ {0} /\ Len(fwd[f].view) \in Nat  BY <3>1 DEF Message
    <3> QED  BY <2>4, <3>2 DEF MessagesInside
  <2>5. \A r \in Routes : adder[r] # "dial" => call[r] = "idle" /\ handle[r] = 0
    BY <2>1 DEF AddersAdd
  <2> QED  BY <2>1, <2>2, <2>3, <2>4, <2>5 DEF TypeOK, TableTyped, SendersTyped, Bounded
<1> QED  BY <1>1, SpecIInv, SpecBounded, PTL

\* shuttle.go and drains.go agree on who uses a pool: the count that Dial and
\* Undial keep of a URL is the number of destinations of the table, over all
\* apps, that send to it, and of adders that did not append theirs yet.
THEOREM SpecCountIsRefs == MaxStale <= 1 => (Spec => []CountIsRefs)
BY SpecIInv, RefsCounted, PTL

\* A destination of the table sends to the registered pool of its URL, which
\* was not closed (Undial is called only with the cut of the last user).
THEOREM SpecServedPoolsOpen == MaxStale <= 1 => (Spec => []ServedPoolsOpen)
<1>1. IInv => ServedPoolsOpen
  <2> SUFFICES ASSUME IInv, NEW k \in Keys, NEW i \in DOMAIN routes[k]
               PROVE  LET d == routes[k][i]
                      IN d.pool = drains[Url[d.route]] /\ d.pool \notin closing[Url[d.route]]
    BY DEF ServedPoolsOpen
  <2> DEFINE url == Url[routes[k][i].route]
  <2>1. url \in Urls  BY EntryUsed DEF IInv, Table
  <2>2. routes[k][i].pool = drains[url]  BY DEF IInv, Registry, TableOpen
  <2>3. closing[url] = (1..opened[url]) \ {drains[url]}
    BY <2>1 DEF IInv, Registry, PoolsAccounted
  <2> QED  BY <2>2, <2>3
<1> QED  BY <1>1, SpecIInv, PTL

\* When a refresh is over, the table is what RefreshRoutes read from storage: it
\* left no other route behind, and each route it read to a supported host that
\* accepts connections is served, unless it was kept out as the duplicate of a
\* deleted route that was then dropped.  When the removal starts, all are served.
THEOREM SpecRefreshedTableIsExact == MaxStale <= 1 => (Spec => []RefreshedTableIsExact)
<1>1. IInv => RefreshedTableIsStored
  <2> SUFFICES ASSUME IInv, refresh.at = "idle", NEW k \in Keys, NEW r \in TableIds(k)
               PROVE  r \in refresh.pkg
    BY DEF RefreshedTableIsStored
  <2>1. r \in Routes /\ InTable(r)  BY SliceIsKey DEF IInv, Table
  <2> QED  BY <2>1 DEF IInv, Refreshed, TableRead
<1>2. IInv /\ ReadIsServed => RefreshedTableIsExact
  BY <1>1 DEF ReadIsServed, ServedOrNot, Removing, RefreshedTableIsExact
<1> QED  BY <1>2, SpecIInv, SpecReadIsServed, PTL

\* The adders and the in-place cuts of the removal pass never leave a route
\* twice in the slice of its app.
THEOREM SpecOneEntryPerRoute == MaxStale <= 1 => (Spec => []OneEntryPerRoute)
<1>1. IInv => OneEntryPerRoute
  <2> SUFFICES ASSUME IInv, NEW k \in Keys
               PROVE  Cardinality(TableIds(k)) = Len(routes[k])
    BY DEF OneEntryPerRoute
  <2>1. routes[k] \in Seq(Destination)  BY DEF IInv, Table, TableTyped
  <2>2. \A i, j \in DOMAIN routes[k] : routes[k][i].route = routes[k][j].route => i = j
    BY DEF IInv, Table, Once
  <2>3. TableIds(k) = Ids(routes[k])  BY DEF TableIds, Ids
  <2> QED  BY <2>1, <2>2, <2>3, IdsCounted
<1> QED  BY <1>1, SpecIInv, PTL

\* The loop of SendMessage, over a slice that adders append to, sends a message
\* once to each route of its app, unless a route of the app was cut meanwhile.
THEOREM SpecSentOnceToEach == MaxStale <= 1 => (Spec => []SentOnceToEach)
<1>1. IInv => SentOnceToEach
  <2> SUFFICES ASSUME IInv, NEW f \in Forwarders,
                      fwd[f].at = "pick", fwd[f].next > Len(fwd[f].view), ~fwd[f].torn
               PROVE  /\ ToSet(fwd[f].sent) = fwd[f].due
                      /\ Len(fwd[f].sent) = Cardinality(fwd[f].due)
    BY DEF SentOnceToEach
  <2> DEFINE m == fwd[f]
  <2>1. m \in Message  BY DEF IInv, Senders, SendersTyped, Waiting
  <2>2. Sending(m)  BY DEF IInv, Senders, MessagesPlaced, Placed
  <2> HIDE DEF m
  <2>3. m.view \in Seq(Destination) /\ m.sent \in Seq(Routes)  BY <2>1 DEF Message
  <2>4. DOMAIN m.view = 1..Len(m.view) /\ DOMAIN m.sent = 1..Len(m.sent) /\ Len(m.view) \in Nat
    BY <2>3
  <2>5. m.at = "pick" /\ m.next > Len(m.view)  BY DEF m
  <2>6. m.next - 1 = Len(m.view)  BY <2>2, <2>4, <2>5 DEF Sending
  <2>7. /\ m.due = Ids(m.view) /\ Len(m.sent) = Len(m.view)
        /\ \A i \in 1..Len(m.view) : m.sent[i] = m.view[i].route
        /\ \A i, j \in DOMAIN m.view : m.view[i].route = m.view[j].route => i = j
    BY <2>2, <2>5, <2>6 DEF Sending
  <2>8. ToSet(m.sent) = m.due  BY <2>4, <2>7 DEF ToSet, Ids
  <2>9. Cardinality(m.due) = Len(m.sent)  BY <2>3, <2>7, IdsCounted
  <2> QED  BY <2>8, <2>9 DEF m
<1> QED  BY <1>1, SpecIInv, PTL

LEMMA RestartsCounted == Spec => [](restarts \in Nat)
<1>1. Init => restarts \in Nat  BY DEF Init
<1>2. restarts \in Nat /\ [Next]_vars => (restarts \in Nat)'
  <2> SUFFICES ASSUME restarts \in Nat, [Next]_vars  PROVE restarts' \in Nat
    OBVIOUS
  <2>1. CASE RefreshFatal  BY <2>1 DEF RefreshFatal
  <2>2. CASE ~RefreshFatal
    BY <2>2 DEF Next, vars, Api, CreateLogDrain, DeleteLogDrain, Adder, AdderCheck, AdderDial,
       AdderGiveUp, AdderAdd, AdderAcquire, RefreshStep, RefreshRoutes, RefreshWaited,
       RefreshNextKey, RefreshKeep, RefreshRemove, Forward, PickDestination, SendPacket, SendDone,
       Snapshot, ClearBadHosts
  <2> QED  BY <2>1, <2>2
<1> QED  BY <1>1, <1>2, PTL DEF Spec

\* Which steps take a route out of the table.
LEMMA OnlyRemoved ==
  ASSUME IInv, restarts \in Nat, [Next]_vars, NEW r \in Routes, InTable(r), ~InTable(r)'
  PROVE  r \notin refresh.pkg \/ restarts' # restarts
<1>1. CASE RefreshRemove
  <2>1. r = routes[route_keys[refresh.key]][refresh.ndx].route
    BY <1>1, RemoveEffect DEF IInv
  <2> QED  BY <1>1, <2>1, RemoveFinds DEF IInv
<1>2. CASE RefreshFatal  BY <1>2 DEF RefreshFatal
<1>3. ASSUME NEW s \in Routes, AdderAdd(s)  PROVE FALSE
  BY <1>3, AddEffect DEF IInv, Table, Registry
<1>4. CASE ~RefreshRemove /\ ~RefreshFatal /\ \A s \in Routes : ~AdderAdd(s)
  <2>1. UNCHANGED routes
    BY <1>4 DEF Next, vars, tableVars, Api, CreateLogDrain, DeleteLogDrain, Adder, AdderCheck,
       AdderDial, AdderGiveUp, AdderAcquire, RefreshStep, RefreshRoutes, RefreshWaited,
       RefreshNextKey, RefreshKeep, Forward, PickDestination, SendPacket, SendDone, Snapshot,
       ClearBadHosts
  <2> QED  BY <2>1, InTableUnchanged
<1> QED  BY <1>1, <1>2, <1>3, <1>4

\* RefreshRoutes drops no route that it read from storage: the cut of another
\* destination shifts a route in the slice and never overwrites it for good.
THEOREM SpecStoredRoutesStay == MaxStale <= 1 => (Spec => StoredRoutesStay)
<1> DEFINE Stays == \A r \in Routes : InTable(r) /\ ~InTable(r)' =>
                      r \notin refresh.pkg \/ restarts' # restarts
<1>1. IInv /\ restarts \in Nat /\ [Next]_vars => [Stays]_vars  BY OnlyRemoved
<1> QED  BY <1>1, SpecIInv, RestartsCounted, PTL DEF Spec, StoredRoutesStay

(***************************************************************************)
(* The shuttle and the registry: who calls what.                           *)
(***************************************************************************)
\* The drain of a route in the table is the one in its destination.
LEMMA HeldAt ==
  Table =>
    /\ \A k \in Keys : \A i \in DOMAIN routes[k] :
         /\ routes[k][i].route \in Routes
         /\ Held[routes[k][i].route] = routes[k][i].pool
    /\ \A r \in Routes : ~InTable(r) => Held[r] = handle[r]
<1> SUFFICES ASSUME Table
             PROVE  /\ \A k \in Keys : \A i \in DOMAIN routes[k] :
                         /\ routes[k][i].route \in Routes
                         /\ Held[routes[k][i].route] = routes[k][i].pool
                    /\ \A r \in Routes : ~InTable(r) => Held[r] = handle[r]
  OBVIOUS
<1>1. ASSUME NEW k \in Keys, NEW i \in DOMAIN routes[k]
      PROVE  routes[k][i].route \in Routes /\ Held[routes[k][i].route] = routes[k][i].pool
  <2> DEFINE r == routes[k][i].route
  <2>1. r \in Routes
    <3>1. routes[k] \in Seq(Destination)  BY DEF Table, TableTyped
    <3>2. routes[k][i] \in Destination  BY <3>1
    <3> QED  BY <3>2 DEF Destination
  <2>2. Key[r] = k  BY DEF Table, OwnKey
  <2>3. InTable(r)  BY <2>2 DEF InTable, TableIds
  <2>4. \A j \in DOMAIN routes[k] : routes[k][j].route = r => j = i  BY DEF Table, Once
  <2>5. (CHOOSE j \in DOMAIN routes[k] : routes[k][j].route = r) = i  BY <2>4
  <2> QED  BY <2>1, <2>2, <2>3, <2>5 DEF Held
<1>2. \A r \in Routes : ~InTable(r) => Held[r] = handle[r]  BY DEF Held
<1> QED  BY <1>1, <1>2

LEMMA HeldAtNext ==
  (Table =>
     /\ \A k \in Keys : \A i \in DOMAIN routes[k] :
          /\ routes[k][i].route \in Routes
          /\ Held[routes[k][i].route] = routes[k][i].pool
     /\ \A r \in Routes : ~InTable(r) => Held[r] = handle[r])'
BY HeldAt, PTL

\* While the table stays, drains come and go with the results of Dial.
LEMMA HeldFollows ==
  ASSUME UNCHANGED routes
  PROVE  /\ UNCHANGED handle => UNCHANGED Held
         /\ \A r \in Routes : \A g : ~InTable(r) /\ handle \in [Routes -> Nat]
              /\ handle' = [handle EXCEPT ![r] = g] => Held' = [Held EXCEPT ![r] = g]
<1> DEFINE Entry(s) == routes[Key[s]][CHOOSE i \in DOMAIN routes[Key[s]] :
                                        routes[Key[s]][i].route = s].pool
<1>1. \A s : InTable(s)' <=> InTable(s)  BY DEF InTable, TableIds
<1>2. Held = [s \in Routes |-> IF InTable(s) THEN Entry(s) ELSE handle[s]]  BY DEF Held
<1>3. Held' = [s \in Routes |-> IF InTable(s)' THEN Entry(s) ELSE handle'[s]]  BY DEF Held
<1> HIDE DEF Entry
<1>4. Held' = [s \in Routes |-> IF InTable(s) THEN Entry(s) ELSE handle'[s]]  BY <1>1, <1>3
<1>5. UNCHANGED handle => UNCHANGED Held  BY <1>2, <1>4
<1>6. ASSUME NEW r \in Routes, NEW g, ~InTable(r), handle \in [Routes -> Nat],
             handle' = [handle EXCEPT ![r] = g]
      PROVE  Held' = [Held EXCEPT ![r] = g]
  <2>1. \A s \in Routes : s # r => handle'[s] = handle[s]  BY <1>6
  <2>2. handle'[r] = g  BY <1>6
  <2>3. \A s \in Routes : Held'[s] = IF s = r THEN g ELSE Held[s]
    BY <1>2, <1>4, <1>6, <2>1, <2>2
  <2> QED  BY <1>2, <1>4, <2>3
<1> QED  BY <1>5, <1>6

\* A step of an adder in Dial is the same step of the registry.
LEMMA DialIsCall ==
  ASSUME IInv, UNCHANGED routes, NEW r \in Routes, ~InTable(r),
         D!DialBegin(r) \/ D!DialStep(r) \/ D!Acquire(r)
  PROVE  R!DialBegin(r) \/ R!DialStep(r) \/ R!Acquire(r)
<1>1. Held[r] = handle[r]  BY HeldAt DEF IInv
<1>2. handle \in [Routes -> Nat]  BY DEF IInv, Registry, RegistryTyped
<1>3. UNCHANGED handle => UNCHANGED Held  BY HeldFollows
<1>4. \A g : handle' = [handle EXCEPT ![r] = g] => Held' = [Held EXCEPT ![r] = g]
  BY <1>2, HeldFollows
<1>5. CASE D!DialBegin(r)
  <2>1. R!DialBegin(r)
    BY <1>1, <1>3, <1>5 DEF D!DialBegin, R!DialBegin, D!Goto, R!Goto, D!registry, R!registry
  <2> QED  BY <2>1
<1>6. CASE D!DialRefused(r) \/ D!DialQueue(r) \/ D!DialFailed(r)
  <2>1. R!DialRefused(r) \/ R!DialQueue(r) \/ R!DialFailed(r)
    BY <1>3, <1>6 DEF D!DialRefused, D!DialQueue, D!DialFailed, R!DialRefused, R!DialQueue,
       R!DialFailed, D!Goto, R!Goto, D!registry, R!registry
  <2> QED  BY <2>1 DEF R!DialStep
<1>7. CASE D!DialConnected(r)
  <2>1. R!DialConnected(r)
    BY <1>4, <1>7 DEF D!DialConnected, R!DialConnected, D!Goto, R!Goto
  <2> QED  BY <2>1 DEF R!DialStep
<1>8. CASE D!DialShare(r)
  <2>1. R!DialShare(r)
    BY <1>4, <1>8 DEF D!DialShare, R!DialShare, D!Goto, R!Goto
  <2> QED  BY <2>1 DEF R!Acquire
<1>9. CASE D!DialUnsupported(r) \/ D!DialOpen(r)
  <2>1. R!DialUnsupported(r) \/ R!DialOpen(r)
    BY <1>3, <1>9 DEF D!DialUnsupported, D!DialOpen, R!DialUnsupported, R!DialOpen, D!Goto,
       R!Goto, D!registry, R!registry
  <2> QED  BY <2>1 DEF R!Acquire
<1> QED  BY <1>5, <1>6, <1>7, <1>8, <1>9 DEF D!DialStep, D!Acquire

\* To append a destination is to move its drain: nothing for the registry.
LEMMA AddIsSilent ==
  ASSUME IInv, NEW r \in Routes, AdderAdd(r)
  PROVE  UNCHANGED R!vars
<1>1. Table /\ RegistryTyped /\ TableTyped  BY DEF IInv, Registry, Table
<1>2. Table'  BY <1>1, AddKeepsTable
<1>3. ~InTable(r) /\ Held[r] = handle[r]
  <2>1. adder[r] # "none"  BY DEF AdderAdd
  <2> QED  BY <1>1, <2>1, HeldAt DEF Table, AddersAdd
<1> DEFINE k == Key[r]
           n == Len(routes[k]) + 1
<1>4. /\ k \in Keys /\ DOMAIN routes[k] = 1..Len(routes[k]) /\ DOMAIN routes'[k] = 1..n
      /\ Len(routes[k]) \in Nat
      /\ \A i \in DOMAIN routes[k] : routes'[k][i] = routes[k][i]
      /\ routes'[k][n].route = r /\ routes'[k][n].pool = handle[r]
      /\ \A j \in Keys \ {k} : routes'[j] = routes[j]
      /\ \A s \in Routes : InTable(s)' <=> InTable(s) \/ s = r
  <2>1. k \in Keys /\ routes[k] \in Seq(Destination)  BY <1>1, RoutesHaveKeys DEF TableTyped
  <2>2. Len(routes[k]) \in Nat  BY <2>1
  <2>3. routes'[k][n] = [route |-> r, pool |-> handle[r]]  BY <1>1, AddEffect
  <2>4. routes'[k][n].route = r /\ routes'[k][n].pool = handle[r]  BY <2>3
  <2>5. /\ DOMAIN routes[k] = 1..Len(routes[k]) /\ DOMAIN routes'[k] = 1..n
        /\ \A i \in DOMAIN routes[k] : routes'[k][i] = routes[k][i]
        /\ \A j \in Keys \ {k} : routes'[j] = routes[j]
        /\ \A s \in Routes : InTable(s)' <=> InTable(s) \/ s = r
    BY <1>1, AddEffect, Zenon
  <2> QED  BY <2>1, <2>2, <2>4, <2>5
<1>5. ASSUME NEW s \in Routes  PROVE Held'[s] = Held[s]
  <2>1. CASE s = r
    <3>1. n \in DOMAIN routes'[k]  BY <1>4
    <3>2. Held'[r] = handle[r]  BY <1>2, <1>4, <3>1, HeldAtNext
    <3> QED  BY <1>3, <2>1, <3>2
  <2>2. CASE s # r /\ InTable(s)
    <3>1. PICK j \in Keys : \E i \in DOMAIN routes[j] : routes[j][i].route = s
      BY <2>2, RoutesHaveKeys DEF InTable, TableIds
    <3> PICK i \in DOMAIN routes[j] : routes[j][i].route = s  BY <3>1
    <3>2. i \in DOMAIN routes'[j] /\ routes'[j][i] = routes[j][i]
      <4>1. CASE j = k  BY <1>4, <3>1, <4>1
      <4>2. CASE j # k  BY <1>4, <3>1, <4>2
      <4> QED  BY <4>1, <4>2
    <3>3. Held'[s] = routes[j][i].pool  BY <1>2, <3>1, <3>2, HeldAtNext
    <3>4. Held[s] = routes[j][i].pool  BY <1>1, <3>1, HeldAt
    <3> QED  BY <3>3, <3>4
  <2>3. CASE s # r /\ ~InTable(s)
    <3>1. Held'[s] = handle'[s]  BY <1>2, <1>4, <2>3, HeldAtNext
    <3>2. handle'[s] = handle[s]  BY <1>1, <2>3 DEF AdderAdd, RegistryTyped
    <3>3. Held[s] = handle[s]  BY <1>1, <2>3, HeldAt
    <3> QED  BY <3>1, <3>2, <3>3
  <2> QED  BY <2>1, <2>2, <2>3
<1>6. Held' = Held
  <2>1. Held = [s \in Routes |-> Held[s]]  BY DEF Held
  <2>2. Held' = [s \in Routes |-> Held'[s]]  BY DEF Held
  <2> QED  BY <1>5, <2>1, <2>2, Zenon
<1> QED  BY <1>6 DEF AdderAdd, R!vars, R!registry

LEMMA SameUndial ==
  ASSUME NEW url, D!Undial(url)
  PROVE  R!Undial(url)
<1>1. R!KeysWithout(url) = D!KeysWithout(url)
  BY DEF R!KeysWithout, D!KeysWithout, R!SelectLastInSeq, D!SelectLastInSeq, R!Max, D!Max,
         R!RemoveAt, D!RemoveAt
<1>2. D!ClosePool(url) => R!ClosePool(url)  BY <1>1 DEF D!ClosePool, R!ClosePool
<1> QED  BY <1>2 DEF R!Undial, D!Undial, R!Counted, D!Counted

\* To cut a destination out is to give back the drain of its route.
LEMMA CutIsRelease ==
  ASSUME IInv, RefreshRemove
  PROVE  \E r \in Routes : R!Release(r)
<1> DEFINE k == route_keys[refresh.key]
           n == refresh.ndx
           r == routes[k][n].route
<1>1. Table /\ Refreshed /\ Registry  BY DEF IInv
<1>2. Table'  BY <1>1, RemoveKeepsTable
<1>3. /\ k \in Keys /\ refresh.view = routes[k] /\ n \in 1..Len(routes[k]) /\ r \in Routes
  BY <1>1, RemoveFinds
<1>4. n \in DOMAIN routes[k]
  <2>1. routes[k] \in Seq(Destination)  BY <1>1, <1>3 DEF Table, TableTyped
  <2> QED  BY <1>3, <2>1
<1>5. \A s \in Routes : InTable(s)' <=> InTable(s) /\ s # r
  BY <1>1, RemoveEffect
<1>6. D!Undial(Url[r]) /\ UNCHANGED <<call, handle>>
  BY <1>3 DEF RefreshRemove, GiveBack
<1>7. InTable(r) /\ Held[r] # 0
  <2>1. TableOpen /\ OwnKey  BY <1>1 DEF Registry, Table
  <2>2. Held[r] = routes[k][n].pool  BY <1>1, <1>3, <1>4, HeldAt
  <2>3. routes[k][n].pool # 0  BY <1>3, <1>4, <2>1 DEF TableOpen
  <2>4. Key[r] = k  BY <1>3, <1>4, <2>1 DEF OwnKey
  <2>5. InTable(r)  BY <1>4, <2>4 DEF InTable, TableIds
  <2> QED  BY <2>2, <2>3, <2>5
<1>8. call[r] = "idle" /\ handle[r] = 0
  BY <1>1, <1>3, <1>7 DEF Table, AddersAdd
<1>9. \A j \in Keys : \A i \in DOMAIN routes'[j] :
        \E m \in DOMAIN routes[j] : routes'[j][i] = routes[j][m]
  BY <1>1, LeftWasThere
<1> HIDE DEF r
<1>10. ASSUME NEW s \in Routes  PROVE Held'[s] = IF s = r THEN 0 ELSE Held[s]
  <2>1. CASE ~InTable(s)'
    <3>1. Held'[s] = handle[s]  BY <1>2, <1>6, <2>1, HeldAtNext
    <3>2. s # r => Held[s] = handle[s]  BY <1>1, <1>5, <2>1, HeldAt
    <3> QED  BY <1>8, <3>1, <3>2
  <2>2. CASE InTable(s)'
    <3>1. PICK j \in Keys : \E i \in DOMAIN routes'[j] : routes'[j][i].route = s
      BY <2>2, RoutesHaveKeys DEF InTable, TableIds
    <3> PICK i \in DOMAIN routes'[j] : routes'[j][i].route = s  BY <3>1
    <3> PICK m \in DOMAIN routes[j] : routes'[j][i] = routes[j][m]  BY <1>9
    <3>2. Held'[s] = routes'[j][i].pool  BY <1>2, HeldAtNext
    <3>3. Held[s] = routes[j][m].pool  BY <1>1, HeldAt
    <3>4. s # r  BY <1>5, <2>2
    <3> QED  BY <3>2, <3>3, <3>4
  <2> QED  BY <2>1, <2>2
<1>11. Held' = [Held EXCEPT ![r] = 0]
  <2>1. DOMAIN Held = Routes /\ Held = [s \in Routes |-> Held[s]]  BY DEF Held
  <2>2. Held' = [s \in Routes |-> Held'[s]]  BY DEF Held
  <2>3. Held' = [s \in Routes |-> IF s = r THEN 0 ELSE Held[s]]  BY <1>10, <2>2, Zenon
  <2> QED  BY <2>1, <2>3
<1>12. R!Undial(Url[r])  BY <1>6, SameUndial
<1>13. R!Release(r)  BY <1>6, <1>7, <1>8, <1>11, <1>12 DEF R!Release
<1> QED  BY <1>3, <1>13 DEF r

\* Before the first destination nobody holds a drain.
LEMMA StartedEmpty == Started /\ bad_hosts = {} /\ drain_keys = <<>> => R!Init
<1> SUFFICES ASSUME Started, bad_hosts = {}, drain_keys = <<>>  PROVE R!Init
  OBVIOUS
<1>1. \A r \in Routes : ~InTable(r)  BY RoutesHaveKeys DEF Started, InTable, TableIds
<1>2. Held = [r \in Routes |-> 0]  BY <1>1 DEF Held, Started
<1> QED  BY <1>2 DEF Started, R!Init

LEMMA StartedEmptyNext == (Started /\ bad_hosts = {} /\ drain_keys = <<>> => R!Init)'
BY StartedEmpty, PTL

LEMMA AdderCalls ==
  ASSUME IInv, NEW r \in Routes, Adder(r) \/ AdderAcquire(r)
  PROVE  R!Next \/ UNCHANGED R!vars
<1>1. CASE AdderAdd(r)  BY <1>1, AddIsSilent
<1>2. CASE AdderDial(r) \/ AdderAcquire(r) \/ (AdderCheck(r) /\ ~Served(r))
  <2>1. UNCHANGED routes /\ adder[r] # "none"
    BY <1>2 DEF AdderDial, AdderAcquire, AdderCheck, tableVars
  <2>2. ~InTable(r)  BY <2>1 DEF IInv, Table, AddersAdd
  <2>3. D!DialBegin(r) \/ D!DialStep(r) \/ D!Acquire(r)
    BY <1>2 DEF AdderDial, AdderAcquire, AdderCheck
  <2>4. R!DialBegin(r) \/ R!DialStep(r) \/ R!Acquire(r)  BY <2>1, <2>2, <2>3, DialIsCall
  <2> QED  BY <2>4 DEF R!Next
<1>3. CASE AdderGiveUp(r) \/ (AdderCheck(r) /\ Served(r))
  <2>1. UNCHANGED <<drainVars, routes>>  BY <1>3 DEF AdderGiveUp, AdderCheck, tableVars
  <2>2. UNCHANGED Held  BY <2>1, HeldFollows DEF drainVars
  <2> QED  BY <2>1, <2>2 DEF drainVars, R!vars, R!registry
<1> QED  BY <1>1, <1>2, <1>3 DEF Adder

LEMMA StepCalls ==
  ASSUME IInv, restarts \in Nat, [Next]_vars
  PROVE  R!Next \/ (restarts' # restarts /\ R!Init') \/ UNCHANGED R!vars
<1>1. CASE RefreshRemove
  <2>1. \E r \in Routes : R!Release(r)  BY <1>1, CutIsRelease
  <2> QED  BY <2>1 DEF R!Next
<1>2. CASE RefreshFatal
  <2>1. (Started /\ bad_hosts = {} /\ drain_keys = <<>>)'  BY <1>2 DEF RefreshFatal, Started
  <2> QED  BY <1>2, <2>1, StartedEmptyNext DEF RefreshFatal
<1>3. ASSUME NEW r \in Routes, Adder(r) \/ AdderAcquire(r)
      PROVE  R!Next \/ UNCHANGED R!vars
  BY <1>3, AdderCalls
<1>4. CASE ClearBadHosts
  <2>1. UNCHANGED routes /\ UNCHANGED handle /\ D!ClearBadHosts
    BY <1>4 DEF ClearBadHosts, D!ClearBadHosts, tableVars
  <2>2. UNCHANGED Held  BY <2>1, HeldFollows
  <2>3. R!ClearBadHosts
    BY <2>1, <2>2 DEF D!ClearBadHosts, R!ClearBadHosts, D!registry, R!registry
  <2> QED  BY <2>3 DEF R!Next
<1>5. CASE \/ UNCHANGED vars
           \/ \E r \in Routes : Api(r)
           \/ RefreshRoutes \/ RefreshWaited \/ RefreshNextKey \/ RefreshKeep
           \/ \E f \in Forwarders : Forward(f) \/ \E k \in Keys : Snapshot(f, k)
  <2>1. UNCHANGED <<drainVars, routes>>
    BY <1>5 DEF vars, tableVars, Api, CreateLogDrain, DeleteLogDrain, RefreshRoutes, RefreshWaited,
       RefreshNextKey, RefreshKeep, Forward, PickDestination, SendPacket, SendDone, Snapshot
  <2>2. UNCHANGED Held  BY <2>1, HeldFollows DEF drainVars
  <2> QED  BY <2>1, <2>2 DEF drainVars, R!vars, R!registry
<1> QED  BY <1>1, <1>2, <1>3, <1>4, <1>5 DEF Next, RefreshStep

\* The shuttle is a proper caller of drains.go: its adders and its removal pass
\* take only steps that Drains allows to routes, so that what holds of the
\* registry holds of it here, from one start of the process to the next.
THEOREM SpecUsesRegistry == MaxStale <= 1 => (Spec => UsesRegistry)
<1> DEFINE Calls == R!Next \/ (restarts' # restarts /\ R!Init')
<1>1. Init => R!Init
  <2> SUFFICES ASSUME Init  PROVE R!Init  OBVIOUS
  <2>1. Started /\ bad_hosts = {} /\ drain_keys = <<>>  BY DEF Init, D!Init, Started
  <2> QED  BY <2>1, StartedEmpty
<1>2. IInv /\ restarts \in Nat /\ [Next]_vars => [Calls]_(R!vars)  BY StepCalls
<1> QED  BY <1>1, <1>2, SpecIInv, RestartsCounted, PTL DEF Spec, UsesRegistry
=============================================================================
