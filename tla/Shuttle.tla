------------------------------- MODULE Shuttle ------------------------------
(***************************************************************************)
(* The route table of shuttle/shuttle.go with everything that touches it:  *)
(* the log-drain API that edits storage, the refresh that follows storage  *)
(* (one adder goroutine per new route, then a removal pass), the drains    *)
(* registry of drains/drains.go, and the forwarders that send each message *)
(* to the destinations of its app.                                         *)
(*                                                                         *)
(* The table maps a route key (an app) to a Go slice of destinations.  A   *)
(* forwarder copies the slice header under routes_mutex and then walks it  *)
(* without the lock, while the removal pass shifts the elements of the     *)
(* same array: see GoSlices.                                               *)
(***************************************************************************)
EXTENDS Integers, FiniteSets, SequencesExt, GoSlices

CONSTANTS
  Routes, Urls, Url, Supported, Flaky, MaxPools,  \* as in Drains
  Keys,        \* the route keys: App+Space, or the site
  Key,         \* the key of each route
  Disallowed,  \* URLs a refresh never adds (the one of the test case)
  Forwarders,  \* the goroutines that read a topic channel and call SendMessage
  Slots,       \* how many packets a closed pool of a URL still accepts
  MaxStale,    \* bound: deleted routes of one key that still are in the table
  MaxRestarts  \* bound: how often the process exits and is started again

ASSUME RoutesHaveUrls == Url \in [Routes -> Urls]
ASSUME RoutesFinite == IsFiniteSet(Routes)
ASSUME RoutesHaveKeys == Key \in [Routes -> Keys]
ASSUME ForwardersFinite == IsFiniteSet(Forwarders)
ASSUME SlotsNat == Slots \in [Urls -> Nat]
ASSUME BoundsNat == MaxStale \in Nat /\ MaxRestarts \in Nat

VARIABLES
  drains, drains_count, drain_keys, drains_mutex,
  bad_hosts, opened, closing, call, handle,  \* the registry, see Drains
  stored,      \* the routes in storage
  issued,      \* the routes that were ever created: an id is used once
  routes,      \* routes[key]: the slice of destinations
  route_keys,  \* the keys of the table, oldest first
  refresh,     \* where the main goroutine is in RefreshRoutes
  adder,       \* adder[r]: where the goroutine that adds r is
  fwd,         \* fwd[f]: the message forwarder f is sending
  swallowed,   \* swallowed[url][g]: packets pool g of url took after its close
  restarts     \* how often the process was started again

D == INSTANCE Drains

drainVars == <<drains, drains_count, drain_keys, drains_mutex,
               bad_hosts, opened, closing, call, handle>>
storageVars == <<stored, issued>>
tableVars == <<routes, route_keys>>
sendVars == <<fwd, swallowed>>
vars == <<drainVars, storageVars, tableVars, refresh, adder, sendVars, restarts>>

(***************************************************************************)
(* Types and helpers.                                                      *)
(***************************************************************************)
\* type Destination struct { drain; route }
Destination == [route : Routes, pool : Nat]

\* A forwarder that waits for a message, and one that sends it: it walks the view
\* of the slice it copied, next is its position after the one it is at.
Waiting == [at |-> "wait"]
Message == [at : {"pick", "send"}, key : Keys, view : Seq(Destination), shared : BOOLEAN,
            next : Nat \ {0}, dest : Destination, due : SUBSET Routes, sent : Seq(Routes),
            torn : BOOLEAN]

\* The main goroutine: what the refresh read, and where its removal pass is.
Pass == [up : BOOLEAN, at : {"idle", "adding", "removing"}, pkg : SUBSET Routes,
         key : Nat, view : Seq(Destination), ndx : Nat]

\* The main goroutine before its first refresh, which Init of the shuttle does
\* before it starts the consumer and the forwarders, and after one that read pkg.
NotStarted == [up |-> FALSE, at |-> "idle", pkg |-> {}, key |-> 0, view |-> <<>>, ndx |-> 1]
Resting(pkg) == [up |-> TRUE, at |-> "idle", pkg |-> pkg, key |-> 0, view |-> <<>>, ndx |-> 1]

TableIds(k) == {routes[k][i].route : i \in DOMAIN routes[k]}

InTable(r) == r \in TableIds(Key[r])

Served(r) == \E i \in DOMAIN routes[Key[r]] : Url[routes[Key[r]][i].route] = Url[r]

\* The positions <<key, i>> of the whole table that send to url.
Entries(url) ==
  {p \in UNION {{k} \X DOMAIN routes[k] : k \in Keys} : Url[routes[p[1]][p[2]].route] = url}

\* A route to a supported host that accepts connections.
Reliable(r) == Url[r] \in Supported \ (Flaky \cup Disallowed)

\* A deleted route of the same app has the same URL: if it was in the table yet,
\* it kept the destination of r out as a duplicate, and was then dropped.
Displaced(r) ==
  \E s \in issued \ (stored \cup refresh.pkg) : Key[s] = Key[r] /\ Url[s] = Url[r]

\* A deleted route that the shuttle did not drop yet.
Stale(r) == r \in issued \ stored /\ (InTable(r) \/ adder[r] # "none" \/ r \in refresh.pkg)

Init ==
  /\ D!Init
  /\ stored = {} /\ issued = {}
  /\ routes = [k \in Keys |-> <<>>]
  /\ route_keys = <<>>
  /\ refresh = NotStarted
  /\ adder = [r \in Routes |-> "none"]
  /\ fwd = [f \in Forwarders |-> Waiting]
  /\ swallowed = [url \in Urls |-> [g \in 1..MaxPools |-> 0]]
  /\ restarts = 0

(***************************************************************************)
(* The log-drain API.                                                      *)
(***************************************************************************)
CreateLogDrain(r) ==
  /\ r \notin issued
  /\ stored' = stored \cup {r}
  /\ issued' = issued \cup {r}
  /\ UNCHANGED <<drainVars, tableVars, refresh, adder, sendVars, restarts>>

DeleteLogDrain(r) ==
  /\ r \in stored
  /\ Cardinality({s \in Routes : Key[s] = Key[r] /\ Stale(s)}) < MaxStale
  /\ stored' = stored \ {r}
  /\ UNCHANGED <<issued, drainVars, tableVars, refresh, adder, sendVars, restarts>>

(***************************************************************************)
(* RefreshRoutes: add what storage has and the table has not.              *)
(***************************************************************************)
\* Read storage and start an adder for each route not found.  A route is found
\* by its id, and only its own adder adds an id: one step for the whole loop.
RefreshRoutes ==
  /\ refresh.at = "idle"
  /\ refresh' = [refresh EXCEPT !.at = "adding", !.pkg = stored]
  /\ adder' = [r \in Routes |-> IF r \in stored /\ ~InTable(r) /\ Url[r] \notin Disallowed
                                  THEN "check" ELSE "none"]
  /\ UNCHANGED <<drainVars, storageVars, tableVars, sendVars, restarts>>

\* GetRoutes fails: the process exits, and is started again with empty tables.
RefreshFatal ==
  /\ refresh.at = "idle"
  /\ restarts < MaxRestarts
  /\ drains' = [url \in Urls |-> 0] /\ drains_count' = [url \in Urls |-> 0]
  /\ drain_keys' = <<>> /\ drains_mutex' = FALSE /\ bad_hosts' = {}
  /\ opened' = [url \in Urls |-> 0] /\ closing' = [url \in Urls |-> {}]
  /\ call' = [r \in Routes |-> "idle"] /\ handle' = [r \in Routes |-> 0]
  /\ routes' = [k \in Keys |-> <<>>]
  /\ route_keys' = <<>>
  /\ refresh' = NotStarted
  /\ adder' = [r \in Routes |-> "none"]
  /\ fwd' = [f \in Forwarders |-> Waiting]
  /\ swallowed' = [url \in Urls |-> [g \in 1..MaxPools |-> 0]]
  /\ restarts' = restarts + 1
  /\ UNCHANGED storageVars

\* The adder looks for another destination of the key with the same URL.
AdderCheck(r) ==
  /\ adder[r] = "check"
  /\ IF Served(r)
       THEN adder' = [adder EXCEPT ![r] = "none"] /\ UNCHANGED drainVars
       ELSE adder' = [adder EXCEPT ![r] = "dial"] /\ D!DialBegin(r)
  /\ UNCHANGED <<storageVars, tableVars, refresh, sendVars, restarts>>

\* The adder is in drains.Dial, which does not touch the table.
AdderDial(r) ==
  /\ adder[r] = "dial"
  /\ D!DialStep(r)
  /\ UNCHANGED <<storageVars, tableVars, refresh, adder, sendVars, restarts>>

AdderAcquire(r) ==
  /\ adder[r] = "dial"
  /\ D!Acquire(r)
  /\ UNCHANGED <<storageVars, tableVars, refresh, adder, sendVars, restarts>>

\* Dial returned an error: the route is left to a later refresh.
AdderGiveUp(r) ==
  /\ adder[r] = "dial" /\ call[r] = "idle" /\ handle[r] = 0
  /\ adder' = [adder EXCEPT ![r] = "none"]
  /\ UNCHANGED <<drainVars, storageVars, tableVars, refresh, sendVars, restarts>>

\* The forwarders that walk the array behind routes[k].
Sharing(k) == {f \in Forwarders : fwd[f].at # "wait" /\ fwd[f].key = k /\ fwd[f].shared}

\* routes[k] moved to another array: who walks the old one sees it unchanged.
Detach(k) == [f \in Forwarders |->
                IF f \in Sharing(k) THEN [fwd[f] EXCEPT !.shared = FALSE] ELSE fwd[f]]

\* The array behind routes[k] was rewritten to start with s.
Rewrite(k, s) == [f \in Forwarders |->
                    IF f \in Sharing(k) THEN [fwd[f] EXCEPT !.view = Seen(@, s)] ELSE fwd[f]]

\* Mutant: the destination is put in front of the others.
Longer_front(k, d) == <<d>> \o routes[k]

Longer(k, d) == Append(routes[k], d)

\* Dial returned a drain: append the destination.  Whether append moves the
\* slice depends on its capacity, which is at least the longest view of it.
AdderAdd(r) ==
  LET k == Key[r]
      longer == Longer(k, [route |-> r, pool |-> handle[r]])
  IN /\ adder[r] = "dial" /\ call[r] = "idle" /\ handle[r] # 0
     /\ routes' = [routes EXCEPT ![k] = longer]
     /\ \/ fwd' = Rewrite(k, longer)
        \/ /\ \A f \in Sharing(k) : Len(fwd[f].view) < Len(longer)
           /\ fwd' = Detach(k)
     /\ route_keys' = IF Contains(route_keys, k) THEN route_keys ELSE Append(route_keys, k)
     /\ adder' = [adder EXCEPT ![r] = "none"]
     /\ handle' = [handle EXCEPT ![r] = 0]
     /\ UNCHANGED <<drains, drains_count, drain_keys, drains_mutex, bad_hosts, opened,
                    closing, call, storageVars, refresh, swallowed, restarts>>

(***************************************************************************)
(* RefreshRoutes: drop what storage has no longer.  The pass holds         *)
(* routes_mutex from its first step to its last.                           *)
(***************************************************************************)
\* Mutant: the removal starts before the adders are done.
RefreshWaited_early ==
  /\ refresh.at = "adding"
  /\ refresh' = [refresh EXCEPT !.at = "removing"]
  /\ UNCHANGED <<drainVars, storageVars, tableVars, adder, sendVars, restarts>>

\* wg.Wait() returned.
RefreshWaited ==
  /\ refresh.at = "adding"
  /\ \A r \in Routes : adder[r] = "none"
  /\ refresh' = [refresh EXCEPT !.at = "removing"]
  /\ UNCHANGED <<drainVars, storageVars, tableVars, adder, sendVars, restarts>>

\* Mutant: the pass ends before the last key.
RefreshNextKey_short ==
  /\ refresh.at = "removing"
  /\ refresh.ndx > Len(refresh.view)
  /\ refresh' = IF refresh.key + 1 >= Len(route_keys)
                  THEN Resting(refresh.pkg)
                  ELSE [refresh EXCEPT !.key = @ + 1, !.ndx = 1,
                                       !.view = routes[route_keys[refresh.key + 1]]]
  /\ UNCHANGED <<drainVars, storageVars, tableVars, adder, sendVars, restarts>>

\* The loop over the destinations of a key is over: take the next key, whose
\* slice header is copied now, or end the pass.
RefreshNextKey ==
  /\ refresh.at = "removing"
  /\ refresh.ndx > Len(refresh.view)
  /\ refresh' = IF refresh.key = Len(route_keys)
                  THEN Resting(refresh.pkg)
                  ELSE [refresh EXCEPT !.key = @ + 1, !.ndx = 1,
                                       !.view = routes[route_keys[refresh.key + 1]]]
  /\ UNCHANGED <<drainVars, storageVars, tableVars, adder, sendVars, restarts>>

RefreshKeep ==
  /\ refresh.at = "removing"
  /\ refresh.ndx <= Len(refresh.view)
  /\ refresh.view[refresh.ndx].route \in refresh.pkg
  /\ refresh' = [refresh EXCEPT !.ndx = @ + 1]
  /\ UNCHANGED <<drainVars, storageVars, tableVars, adder, sendVars, restarts>>

\* Mutants: the slice is shifted and not truncated, or the next destination is
\* cut out instead.
Cut_noshrink(destinations, ndx) == Seen(destinations, RemoveAt(destinations, ndx))
Cut_next(destinations, ndx) ==
  RemoveAt(destinations, IF ndx < Len(destinations) THEN ndx + 1 ELSE ndx)

\* append(destinations[:ndx], destinations[ndx+1:]...), or an empty slice.
Cut(destinations, ndx) == RemoveAt(destinations, ndx)

\* Mutant: the use of the pool is never given back.
GiveBack_never(url) ==
  UNCHANGED <<drains, drains_count, drain_keys, drains_mutex, bad_hosts, opened, closing>>

GiveBack(url) == D!Undial(url)

\* The destination at ndx has no route in storage: give its drain back and cut
\* it out of the slice, in place unless it is the only one.
RefreshRemove ==
  LET k == route_keys[refresh.key]
      destinations == refresh.view
      shorter == Cut(destinations, refresh.ndx)
      r == destinations[refresh.ndx].route
  IN /\ refresh.at = "removing"
     /\ refresh.ndx <= Len(destinations)
     /\ r \notin refresh.pkg
     /\ GiveBack(Url[r])
     /\ routes' = [routes EXCEPT ![k] = shorter]
     /\ IF Len(destinations) = 1
          THEN /\ fwd' = Detach(k)
               /\ refresh' = [refresh EXCEPT !.ndx = @ + 1]
          ELSE /\ fwd' = [f \in Forwarders |->
                            IF f \in Sharing(k) THEN [Rewrite(k, shorter)[f] EXCEPT !.torn = TRUE]
                                                ELSE fwd[f]]
               /\ refresh' = [refresh EXCEPT !.ndx = @ + 1, !.view = Seen(@, shorter)]
     /\ UNCHANGED <<call, handle, storageVars, route_keys, adder, swallowed, restarts>>

(***************************************************************************)
(* SendMessage.                                                            *)
(***************************************************************************)
\* A message for the app k arrives: copy the slice header under routes_mutex.
\* (With no destination SendMessage returns at once.)
Snapshot(f, k) ==
  /\ fwd[f].at = "wait"
  /\ refresh.up
  /\ refresh.at # "removing"
  /\ routes[k] # <<>>
  /\ fwd' = [fwd EXCEPT ![f] =
       [at |-> "pick", key |-> k, view |-> routes[k], shared |-> TRUE, next |-> 1,
        dest |-> routes[k][1], due |-> TableIds(k), sent |-> <<>>, torn |-> FALSE]]
  /\ UNCHANGED <<drainVars, storageVars, tableVars, refresh, adder, swallowed, restarts>>

\* The next iteration of `for _, d := range r'.
PickDestination(f) ==
  /\ fwd[f].at = "pick"
  /\ fwd[f].next <= Len(fwd[f].view)
  /\ fwd' = [fwd EXCEPT ![f].at = "send", ![f].next = @ + 1,
                        ![f].dest = fwd[f].view[fwd[f].next]]
  /\ UNCHANGED <<drainVars, storageVars, tableVars, refresh, adder, swallowed, restarts>>

\* `d.drain.Packets() <- p': a live pool takes the packet; a closed one has
\* room for a few more, then the send blocks for ever.
SendPacket(f) ==
  LET url == Url[fwd[f].dest.route]
      g == fwd[f].dest.pool
  IN /\ fwd[f].at = "send"
     /\ IF g \in closing[url]
          THEN /\ swallowed[url][g] < Slots[url]
               /\ swallowed' = [swallowed EXCEPT ![url][g] = @ + 1]
          ELSE UNCHANGED swallowed
     /\ fwd' = [fwd EXCEPT ![f].at = "pick", ![f].sent = Append(@, fwd[f].dest.route)]
     /\ UNCHANGED <<drainVars, storageVars, tableVars, refresh, adder, restarts>>

\* The message went to every destination.
SendDone(f) ==
  /\ fwd[f].at = "pick"
  /\ fwd[f].next > Len(fwd[f].view)
  /\ fwd' = [fwd EXCEPT ![f] = Waiting]
  /\ UNCHANGED <<drainVars, storageVars, tableVars, refresh, adder, swallowed, restarts>>

\* The ticker of drains.Init.
ClearBadHosts ==
  /\ D!ClearBadHosts
  /\ UNCHANGED <<storageVars, tableVars, refresh, adder, sendVars, restarts>>

(***************************************************************************)
(* The specification.                                                      *)
(***************************************************************************)
Api(r) == CreateLogDrain(r) \/ DeleteLogDrain(r)

Adder(r) == AdderCheck(r) \/ AdderDial(r) \/ AdderGiveUp(r) \/ AdderAdd(r)

RefreshStep == RefreshRoutes \/ RefreshWaited \/ RefreshNextKey \/ RefreshKeep \/ RefreshRemove

Forward(f) == PickDestination(f) \/ SendPacket(f) \/ SendDone(f)

Next == \/ \E r \in Routes : Api(r) \/ Adder(r) \/ AdderAcquire(r)
        \/ RefreshStep
        \/ RefreshFatal
        \/ \E f \in Forwarders : Forward(f) \/ \E k \in Keys : Snapshot(f, k)
        \/ ClearBadHosts

Spec == Init /\ [][Next]_vars

(***************************************************************************)
(* The minute ticker keeps the refresh going, the five-minute ticker       *)
(* clears the bad hosts, goroutines run, and drains_mutex is handed to a   *)
(* starving waiter.  Nothing is assumed of the API or of messages.         *)
(***************************************************************************)
FairSpec ==
  /\ Spec
  /\ WF_vars(RefreshStep) /\ WF_vars(ClearBadHosts)
  /\ \A r \in Routes : WF_vars(Adder(r)) /\ SF_vars(AdderAcquire(r))
  /\ \A f \in Forwarders : WF_vars(Forward(f))

(***************************************************************************)
(* Properties.                                                             *)
(***************************************************************************)
\* The variables have their types: the removal pass is at a known key, it and each
\* message are at a destination of the slice they walk or one past its end, and
\* no count is negative.
TypeOK ==
  /\ D!TypeOK
  /\ stored \subseteq issued /\ issued \subseteq Routes
  /\ routes \in [Keys -> Seq(Destination)]
  /\ route_keys \in Seq(Keys)
  /\ refresh \in Pass
  /\ refresh.key \in 0..Len(route_keys) /\ refresh.ndx \in 1..(Len(refresh.view) + 1)
  /\ adder \in [Routes -> {"none", "check", "dial"}]
  /\ fwd \in [Forwarders -> {Waiting} \cup Message]
  /\ \A f \in Forwarders : fwd[f].at # "wait" => fwd[f].next \in 1..(Len(fwd[f].view) + 1)
  /\ swallowed \in [Urls -> [1..MaxPools -> Nat]]
  /\ restarts \in 0..MaxRestarts
  /\ \A r \in Routes : adder[r] # "dial" => call[r] = "idle" /\ handle[r] = 0

\* shuttle.go and drains.go agree on who uses a pool: the reference count of a
\* URL is the number of destinations in the table that send to it, plus the
\* adders that were given its pool and did not append their destination yet.
CountIsRefs ==
  \A url \in Urls :
    drains_count[url] = Cardinality(Entries(url)) + Cardinality(D!Holders(url))

\* Every destination of the table sends to the registered pool of its URL, which
\* is not closed: Undial and the cut of the slice go together, route by route.
ServedPoolsOpen ==
  \A k \in Keys : \A i \in DOMAIN routes[k] :
    LET d == routes[k][i]
    IN d.pool = drains[Url[d.route]] /\ d.pool \notin closing[Url[d.route]]

\* shuttle_test.go:216 "Ensure route is removed from logshuttle when changed in
\* storage": after a refresh the table has no route that the refresh did not
\* read from storage.
RefreshedTableIsStored ==
  refresh.at = "idle" => \A k \in Keys : TableIds(k) \subseteq refresh.pkg

\* After a refresh the table is what the refresh read: it has no other route, and
\* each route it read is served, by its own destination or by one of the same app
\* with the same URL, unless its host was bad.  All are served when the removal
\* starts, after the adders are done; the removal can then drop the destination
\* in whose favour a duplicate was kept out.
RefreshedTableIsExact ==
  /\ RefreshedTableIsStored
  /\ refresh.at = "removing" /\ refresh.key = 0 =>
       \A r \in refresh.pkg : Reliable(r) => Served(r)
  /\ refresh.at = "idle" =>
       \A r \in refresh.pkg : Reliable(r) => Served(r) \/ Displaced(r)

\* A route is in the table at most once, whatever adders and removal passes did
\* to the slice (two entries would send each message twice).
OneEntryPerRoute ==
  \A k \in Keys : Cardinality(TableIds(k)) = Len(routes[k])

\* A refresh drops no route that it read from storage: the in-place shift of
\* the slice never overwrites another destination for good.
StoredRoutesStay ==
  [][\A r \in Routes : InTable(r) /\ ~InTable(r)' =>
        r \notin refresh.pkg \/ restarts' # restarts]_vars

\* SendMessage ranges over a slice that adders append to: unless a destination
\* of the app is removed meanwhile, the message goes exactly once to each route
\* the table had when the message came.
SentOnceToEach ==
  \A f \in Forwarders :
    fwd[f].at = "pick" /\ fwd[f].next > Len(fwd[f].view) /\ ~fwd[f].torn =>
      ToSet(fwd[f].sent) = fwd[f].due /\ Len(fwd[f].sent) = Cardinality(fwd[f].due)

\* A route deleted through the API leaves the table and does not come back.
DeletedRouteLeaves ==
  \A r \in Routes : r \in issued \ stored ~> [](~InTable(r))

\* A route to a supported host that accepts connections is served in the end,
\* by its own destination or by one of the same app with the same URL.
StoredRouteServed ==
  \A r \in Routes : Reliable(r) => (r \in stored ~> r \notin stored \/ Served(r))

\* shuttle_test.go:233 "Ensure two routes with the same drain, removing one
\* route doesnt remove the drain": the pool of a route that the last refresh read
\* from storage is not closed, whatever other routes of the URL were removed.
SharedDrainStays ==
  \A k \in Keys : \A i \in DOMAIN routes[k] :
    LET d == routes[k][i]
    IN d.route \in refresh.pkg => d.pool \notin closing[Url[d.route]]

\* README.md:7 "users can dynamically specify syslog end points they'd like
\* logs for specific applications to be sent": a route that is in the table
\* from the time a message comes until it was sent gets it exactly once, also
\* when another route of the app is removed meanwhile.
SentOnceDespiteRemoval ==
  \A f \in Forwarders :
    fwd[f].at = "pick" /\ fwd[f].next > Len(fwd[f].view) =>
      \A r \in fwd[f].due : InTable(r) =>
        Cardinality({i \in DOMAIN fwd[f].sent : fwd[f].sent[i] = r}) = 1

\* README.md:13 "Adding and removing destinations or routes should be as simple
\* as a REST interface call.": removing a route does not stop a forwarder.
ForwarderReturns ==
  \A f \in Forwarders : fwd[f].at # "wait" ~> fwd[f].at = "wait"

\* shuttle.go:283 "Not adding duplicate route": no app has two destinations
\* with the same URL.
DuplicatesRejected ==
  \A k \in Keys : \A i, j \in DOMAIN routes[k] :
    Url[routes[k][i].route] = Url[routes[k][j].route] => i = j

(***************************************************************************)
(* The route table is a caller of the registry as Drains has it: a route   *)
(* holds the drain that Dial returned, first in its adder and then in its  *)
(* destination, until the removal pass gives it back.                      *)
(***************************************************************************)
Held == [r \in Routes |->
           IF InTable(r)
             THEN routes[Key[r]][CHOOSE i \in DOMAIN routes[Key[r]] :
                                   routes[Key[r]][i].route = r].pool
             ELSE handle[r]]

R == INSTANCE Drains WITH handle <- Held

\* Refinement: whatever refreshes, adders and cuts do, a route calls Dial only
\* when it has no drain and gives back only one it has, once; an exit forgets all.
UsesRegistry ==
  R!Init /\ [][R!Next \/ (restarts' # restarts /\ R!Init')]_(R!vars)
=============================================================================
