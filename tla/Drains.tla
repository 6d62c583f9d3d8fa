------------------------------- MODULE Drains -------------------------------
(***************************************************************************)
(* The registry of drains/drains.go: a reference-counted table with one    *)
(* pool of connections per destination URL.  Dial joins or opens the pool  *)
(* of a URL, Undial gives one use of it back.  drains_mutex is held while  *)
(* a new pool connects; the bad-host list has a mutex of its own and is    *)
(* read before drains_mutex is taken.                                      *)
(*                                                                         *)
(* A pool is named by its URL and a generation number, so that a pool that *)
(* was closed and a later one to the same URL are told apart.              *)
(***************************************************************************)
EXTENDS Integers, FiniteSets, SequencesExt

CONSTANTS Routes,     \* the callers of Dial, one per stored route
          Urls,       \* the destination URLs
          Url,        \* the destination of each route
          Supported,  \* the URLs whose scheme is http, syslog or ssh
          Flaky,      \* the URLs whose host may refuse a connection
          MaxPools    \* bound: no Dial starts after this many pools of a URL

ASSUME RoutesHaveUrls == Url \in [Routes -> Urls]
ASSUME RoutesFinite == IsFiniteSet(Routes)
ASSUME SupportedUrls == Supported \subseteq Urls
ASSUME MaxPoolsPositive == MaxPools \in Nat \ {0}

VARIABLES drains,        \* drains[url]: the registered pool, 0 if none
          drains_count,  \* drains_count[url]: its reference count
          drain_keys,    \* the registered URLs, oldest first
          drains_mutex,  \* TRUE while a Dial connects with the lock held
          bad_hosts,     \* the URLs whose last connection failed
          opened,        \* opened[url]: how many pools were ever registered
          closing,       \* closing[url]: the pools `go drain.Close()' was run on
          call,          \* call[r]: where the Dial of route r is
          handle         \* handle[r]: the pool Dial returned to r, 0 if none

registry == <<drains, drains_count, drain_keys, opened, closing>>
vars == <<registry, drains_mutex, bad_hosts, call, handle>>

(***************************************************************************)
(* Types and helpers.                                                      *)
(***************************************************************************)
CallState == {"idle",   \* not in Dial
              "check",  \* about to read bad_hosts
              "lock",   \* waiting for drains_mutex
              "init"}   \* in drain.Init, holding drains_mutex

\* The keys of the drains_count map: an entry outlives its pool.
Counted(url) == opened[url] > 0

Holders(url) == {r \in Routes : Url[r] = url /\ handle[r] # 0}

Init ==
  /\ drains = [url \in Urls |-> 0]
  /\ drains_count = [url \in Urls |-> 0]
  /\ drain_keys = <<>>
  /\ drains_mutex = FALSE
  /\ bad_hosts = {}
  /\ opened = [url \in Urls |-> 0]
  /\ closing = [url \in Urls |-> {}]
  /\ call = [r \in Routes |-> "idle"]
  /\ handle = [r \in Routes |-> 0]

(***************************************************************************)
(* Dial.                                                                   *)
(***************************************************************************)
Goto(r, state) == call' = [call EXCEPT ![r] = state]

\* A route without a drain calls Dial.
DialBegin(r) ==
  /\ call[r] = "idle"
  /\ handle[r] = 0
  /\ opened[Url[r]] < MaxPools
  /\ Goto(r, "check")
  /\ UNCHANGED <<registry, drains_mutex, bad_hosts, handle>>

\* The host is on the bad-host list: Dial fails before it takes drains_mutex.
DialRefused(r) ==
  /\ call[r] = "check"
  /\ Url[r] \in bad_hosts
  /\ Goto(r, "idle")
  /\ UNCHANGED <<registry, drains_mutex, bad_hosts, handle>>

DialQueue(r) ==
  /\ call[r] = "check"
  /\ Url[r] \notin bad_hosts
  /\ Goto(r, "lock")
  /\ UNCHANGED <<registry, drains_mutex, bad_hosts, handle>>

\* Mutant: the caller gets the pool and is not counted.
DialShare_uncounted(r) ==
  /\ call[r] = "lock" /\ ~drains_mutex
  /\ drains[Url[r]] # 0
  /\ handle' = [handle EXCEPT ![r] = drains[Url[r]]]
  /\ Goto(r, "idle")
  /\ UNCHANGED <<registry, drains_mutex, bad_hosts>>

\* There is a pool for this URL already: count one more use and return it.
DialShare(r) ==
  /\ call[r] = "lock" /\ ~drains_mutex
  /\ drains[Url[r]] # 0
  /\ drains_count' = [drains_count EXCEPT ![Url[r]] = @ + 1]
  /\ handle' = [handle EXCEPT ![r] = drains[Url[r]]]
  /\ Goto(r, "idle")
  /\ UNCHANGED <<drains, drain_keys, opened, closing, drains_mutex, bad_hosts>>

DialUnsupported(r) ==
  /\ call[r] = "lock" /\ ~drains_mutex
  /\ drains[Url[r]] = 0
  /\ Url[r] \notin Supported
  /\ Goto(r, "idle")
  /\ UNCHANGED <<registry, drains_mutex, bad_hosts, handle>>

\* Mutant: the lookup is made before the lock, and a pool is opened although
\* another caller registered one in between.
DialOpen_norecheck(r) ==
  /\ call[r] = "lock" /\ ~drains_mutex
  /\ Url[r] \in Supported
  /\ drains_mutex' = TRUE
  /\ Goto(r, "init")
  /\ UNCHANGED <<registry, bad_hosts, handle>>

\* No pool yet: connect one, and keep drains_mutex meanwhile.
DialOpen(r) ==
  /\ call[r] = "lock" /\ ~drains_mutex
  /\ drains[Url[r]] = 0
  /\ Url[r] \in Supported
  /\ drains_mutex' = TRUE
  /\ Goto(r, "init")
  /\ UNCHANGED <<registry, bad_hosts, handle>>

\* Init succeeded: register the pool with one use.
DialConnected(r) ==
  /\ call[r] = "init"
  /\ opened' = [opened EXCEPT ![Url[r]] = @ + 1]
  /\ drains' = [drains EXCEPT ![Url[r]] = opened[Url[r]] + 1]
  /\ drains_count' = [drains_count EXCEPT ![Url[r]] = 1]
  /\ drain_keys' = Append(drain_keys, Url[r])
  /\ handle' = [handle EXCEPT ![r] = opened[Url[r]] + 1]
  /\ drains_mutex' = FALSE
  /\ Goto(r, "idle")
  /\ UNCHANGED <<closing, bad_hosts>>

\* Mutant: the early return on a failed Init leaves drains_mutex locked.
DialFailed_locked(r) ==
  /\ call[r] = "init"
  /\ Url[r] \in Flaky
  /\ bad_hosts' = bad_hosts \cup {Url[r]}
  /\ Goto(r, "idle")
  /\ UNCHANGED <<registry, drains_mutex, handle>>

\* Init failed: remember the host as bad.
DialFailed(r) ==
  /\ call[r] = "init"
  /\ Url[r] \in Flaky
  /\ bad_hosts' = bad_hosts \cup {Url[r]}
  /\ drains_mutex' = FALSE
  /\ Goto(r, "idle")
  /\ UNCHANGED <<registry, handle>>

(***************************************************************************)
(* Undial.                                                                 *)
(***************************************************************************)
\* drain_keys without the last entry equal to url (index_to_remove).
KeysWithout(url) ==
  LET n == SelectLastInSeq(drain_keys, LAMBDA key : key = url)
  IN IF n = 0 THEN drain_keys ELSE RemoveAt(drain_keys, n)

\* Mutant: the entry of the URL stays in drain_keys.
ClosePool_keepkey(url) ==
  /\ drains' = [drains EXCEPT ![url] = 0]
  /\ closing' = [closing EXCEPT ![url] = @ \cup {drains[url]}]
  /\ UNCHANGED drain_keys

\* The last use is gone: `go drain.Close()', and forget the pool.
ClosePool(url) ==
  /\ drains' = [drains EXCEPT ![url] = 0]
  /\ closing' = [closing EXCEPT ![url] = @ \cup {drains[url]}]
  /\ drain_keys' = KeysWithout(url)

\* Mutant: the pool is closed while one more use is counted.
Undial_early(url) ==
  /\ ~drains_mutex
  /\ drains_count' = [drains_count EXCEPT ![url] = IF Counted(url) THEN @ - 1 ELSE @]
  /\ IF drains_count[url] \in {1, 2} /\ drains[url] # 0
       THEN ClosePool(url)
       ELSE UNCHANGED <<drains, closing, drain_keys>>
  /\ UNCHANGED <<drains_mutex, bad_hosts, opened>>

\* Mutant: the test for the last use is off by one, and no pool is ever closed.
Undial_late(url) ==
  /\ ~drains_mutex
  /\ drains_count' = [drains_count EXCEPT ![url] = IF Counted(url) THEN @ - 1 ELSE @]
  /\ IF drains_count[url] = 0 /\ drains[url] # 0
       THEN ClosePool(url)
       ELSE UNCHANGED <<drains, closing, drain_keys>>
  /\ UNCHANGED <<drains_mutex, bad_hosts, opened>>

\* One use of url is given back; an unknown URL is only an error.
Undial(url) ==
  /\ ~drains_mutex
  /\ drains_count' = [drains_count EXCEPT ![url] = IF Counted(url) THEN @ - 1 ELSE @]
  /\ IF drains_count[url] = 1 /\ drains[url] # 0
       THEN ClosePool(url)
       ELSE UNCHANGED <<drains, closing, drain_keys>>
  /\ UNCHANGED <<drains_mutex, bad_hosts, opened>>

\* A route gives its drain back, once.
Release(r) ==
  /\ call[r] = "idle"
  /\ handle[r] # 0
  /\ Undial(Url[r])
  /\ handle' = [handle EXCEPT ![r] = 0]
  /\ UNCHANGED call

\* Every five minutes the bad-host list is emptied.
ClearBadHosts ==
  /\ bad_hosts' = {}
  /\ UNCHANGED <<registry, drains_mutex, call, handle>>

(***************************************************************************)
(* The specification.                                                      *)
(***************************************************************************)
Acquire(r) == DialShare(r) \/ DialUnsupported(r) \/ DialOpen(r)

DialStep(r) == \/ DialRefused(r) \/ DialQueue(r)
               \/ DialConnected(r) \/ DialFailed(r)

Next == \/ \E r \in Routes : \/ DialBegin(r)
                             \/ DialStep(r)
                             \/ Acquire(r)
                             \/ Release(r)
        \/ ClearBadHosts

Spec == Init /\ [][Next]_vars

(***************************************************************************)
(* A goroutine in Dial keeps running, and a connection attempt ends: both  *)
(* syslog.Dial and url.Parse return (the dialers have a 4 s timeout).  The *)
(* lock is strongly fair: a sync.Mutex hands itself to a waiter that       *)
(* starved for a millisecond.                                              *)
(***************************************************************************)
FairSpec == /\ Spec
            /\ \A r \in Routes : WF_vars(DialStep(r)) /\ SF_vars(Acquire(r))

(***************************************************************************)
(* Properties.                                                             *)
(***************************************************************************)
\* The variables have their types; a count is never negative, and exactly the
\* Dial in Init holds drains_mutex.
TypeOK ==
  /\ drains \in [Urls -> Nat]
  /\ drains_count \in [Urls -> Nat]
  /\ drain_keys \in Seq(Urls)
  /\ drains_mutex \in BOOLEAN
  /\ bad_hosts \subseteq Urls
  /\ opened \in [Urls -> Nat]
  /\ closing \in [Urls -> SUBSET Nat]
  /\ call \in [Routes -> CallState]
  /\ handle \in [Routes -> Nat]

\* The reference count of a URL is the number of routes Dial gave its pool to
\* and that did not Undial it yet (drains_count in Dial and Undial).
CountIsHolders == \A url \in Urls : drains_count[url] = Cardinality(Holders(url))

\* A route never holds a pool that was closed or replaced: what Dial returned
\* stays the registered pool until the route calls Undial (the `val == 1' test
\* of Undial and the lookup under the lock of Dial).
NoUseAfterClose ==
  \A r \in Routes : handle[r] # 0 => /\ handle[r] = drains[Url[r]]
                                     /\ handle[r] \notin closing[Url[r]]

\* No pool is lost: each pool ever opened is the registered one or was closed,
\* never both, so a URL has one live pool and its connections are accounted for.
PoolsAccounted ==
  \A url \in Urls :
    /\ closing[url] = (1..opened[url]) \ {drains[url]}
    /\ drains[url] \in {0, opened[url]}

\* drain_keys, which the flush ticker, PrintMetrics and CloseAll walk to reach
\* every drain, lists each registered URL once and nothing else (append in Dial,
\* index_to_remove in Undial): a walk that holds drains_mutex finds every drain.
KeysMatchDrains ==
  /\ ToSet(drain_keys) = {url \in Urls : drains[url] # 0}
  /\ IsInjective(drain_keys)

\* Every Dial returns to its caller, whatever other callers do with the lock.
DialReturns == \A r \in Routes : call[r] # "idle" ~> call[r] = "idle"

\* drains.go:54 "If we already have a pool for this, go ahead and return.": a
\* caller whose destination has a live pool is not refused as a bad host.
LivePoolNotRefused ==
  \A r \in Routes : call[r] = "check" /\ Url[r] \in bad_hosts => drains[Url[r]] = 0

(***************************************************************************)
(* The registry implements the shared pools: its map is the pools, the     *)
(* drains it returned are the uses.                                        *)
(***************************************************************************)
GivenUp == [url \in Urls |-> IF drains[url] = 0 THEN opened[url] ELSE opened[url] - 1]

Abstract == INSTANCE SharedPools WITH pool <- drains, uses <- handle, given_up <- GivenUp

\* Refinement: each step of Dial and Undial is a Join, a Leave, or invisible.
ImplementsSharedPools == Abstract!Spec
=============================================================================
