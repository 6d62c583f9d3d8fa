------------------------------ MODULE Services ------------------------------
(***************************************************************************)
(* The HTTP services of logshuttle-server.go and logsession-server.go over *)
(* one storage: the log-drain API of the shuttle service, and the creation *)
(* and the reading of log sessions.  Requests run in parallel; a handler   *)
(* is one step for each call of the storage, with what it does up to the    *)
(* next, and the service can exit between two of them.  An answer counts   *)
(* as given once its status is settled.                                    *)
(*                                                                         *)
(* A panic in a handler is answered 500 by the server's own recovery.      *)
(***************************************************************************)
EXTENDS LogLines, FiniteSets

CONSTANTS
  Requests,    \* the requests that are ever made
  Calls,       \* what the requests can ask, together: a set of functions on Requests
  Ids,         \* the ids of routes
  SessionIds, MaxFaults,        \* as in Storage
  Lines, MaxLoops, MaxHeard,    \* as in Session
  MaxExits     \* bound: how often a service exits and is started again

ASSUME BoundsNat == {MaxFaults, MaxLoops, MaxHeard, MaxExits} \subseteq Nat

\* What stands for no id is no id.
ASSUME NoneIsNoId == "none" \notin Ids

\* SessionIds has every id that is asked for, given out or not.
ASSUME SessionsAsked ==
  \A c \in Calls, q \in Requests : c[q].kind = "readsession" => c[q].session \in SessionIds

VARIABLES
  backend, rows, sessions, faults,                                        \* Storage
  subject, client, consumer, loop, event, shown, passed, quiet,           \* Session
  call,     \* call[q]: what request q asks, from the start: it arrives when its handler runs
  at,       \* at[q]: where its handler is
  found,    \* found[q]: the route or session the handler works on
  reply,    \* reply[q]: the status it answers and the route it names
  used,     \* the ids that were given out
  issued,   \* the ids of the routes that ever were in storage
  producer, \* whether the Kafka producer of the shuttle service is open
  exits     \* how often a service exited

Store == INSTANCE Storage
S == INSTANCE Session WITH Readers <- Requests

storeVars == <<backend, rows, sessions, faults>>
sessionVars == <<subject, client, consumer, loop, event, shown, passed, quiet>>
requestVars == <<call, at, found, reply>>
vars == <<storeVars, sessionVars, requestVars, used, issued, producer, exits>>

NoReply == [status |-> 0, id |-> "none"]

SessionKinds == {"newsession", "readsession"}
Service(q) == IF call[q].kind \in SessionKinds THEN "session" ELSE "shuttle"

Init ==
  /\ Store!Init /\ S!Init
  /\ call \in Calls
  /\ at = [q \in Requests |-> "arrived"]
  /\ found = [q \in Requests |-> Store!NoRoute]
  /\ reply = [q \in Requests |-> NoReply]
  /\ used = {} /\ issued = {}
  /\ producer = "open"
  /\ exits = 0

Is(q, kind, place) == at[q] = place /\ call[q].kind = kind

Goto(q, place) == at' = [at EXCEPT ![q] = place]

\* The handler goes on to its next call with route r.
GoesOn(q, place, r) ==
  /\ Goto(q, place)
  /\ found' = [found EXCEPT ![q] = r]
  /\ UNCHANGED <<call, reply>>

Replies(q, status, id) ==
  /\ Goto(q, "answered")
  /\ reply' = [reply EXCEPT ![q] = [status |-> status, id |-> id]]
  /\ UNCHANGED <<call, found>>

(***************************************************************************)
(* CreateLogDrain.                                                         *)
(***************************************************************************)
\* The app and space, or the site, of a key.
Subject(c) ==
  IF c.isSite THEN [app |-> <<>>, space |-> <<>>, site |-> c.key]
  ELSE [app |-> SplitName(c.key).app, space |-> SplitName(c.key).space, site |-> <<>>]

\* app_keys[1] of a key without a dash does not exist.
Indexed(c) == c.isSite \/ Dashes(c.key) # {}

Wellformed(c) == c.isSite \/ (Subject(c).app # <<>> /\ Subject(c).space # <<>>)

Panics == 500
Malformed == 200

RouteOf(id, s) == [id |-> id, app |-> s.app, space |-> s.space, site |-> s.site]

\* The body is decoded, the key taken apart, and a new id drawn.
CreateLogDrain(q) ==
  LET c == call[q]
  IN /\ Is(q, "create", "arrived")
     /\ IF c.decoded /\ Indexed(c) /\ Wellformed(c)
          THEN \E id \in Ids \ used :
                 GoesOn(q, "add", RouteOf(id, Subject(c))) /\ used' = used \cup {id}
          ELSE /\ Replies(q, IF c.decoded /\ ~Indexed(c) THEN Panics ELSE Malformed, "none")
               /\ UNCHANGED used
     /\ UNCHANGED <<storeVars, sessionVars, issued, producer, exits>>

\* Mutant: the error of AddRoute is not looked at.
AddLogDrain_unchecked(q) ==
  /\ Is(q, "create", "add")
  /\ \E ok \in BOOLEAN : Store!AddRoute(found[q], ok)
  /\ issued' = issued \cup {r.id : r \in rows'}
  /\ Replies(q, 201, found[q].id)
  /\ UNCHANGED <<sessionVars, used, producer, exits>>

AddLogDrain(q) ==
  /\ Is(q, "create", "add")
  /\ \E ok \in BOOLEAN :
       /\ Store!AddRoute(found[q], ok)
       /\ IF ok THEN Replies(q, 201, found[q].id) ELSE Replies(q, 500, "none")
  /\ issued' = issued \cup {r.id : r \in rows'}
  /\ UNCHANGED <<sessionVars, used, producer, exits>>

(***************************************************************************)
(* DeleteLogDrain, GetLogDrain and ListLogDrains.                          *)
(***************************************************************************)
\* The route is looked up, and the error of the lookup is not looked at:
\* dereferencing the nil of Redis panics.
FindLogDrain(q) ==
  /\ Is(q, "delete", "arrived")
  /\ \E r \in rows \cup {Store!NoRoute} :
       /\ Store!GetRouteById(call[q].id, r)
       /\ IF r = Store!NoRoute /\ backend = "redis"
            THEN Replies(q, Panics, "none")
            ELSE GoesOn(q, "remove", r)
  /\ UNCHANGED <<sessionVars, used, issued, producer, exits>>

\* Mutant: the error of RemoveRoute is not looked at.
DeleteLogDrain_unchecked(q) ==
  /\ Is(q, "delete", "remove")
  /\ \E ok \in BOOLEAN : Store!RemoveRoute(found[q], ok)
  /\ Replies(q, 200, found[q].id)
  /\ UNCHANGED <<sessionVars, used, issued, producer, exits>>

DeleteLogDrain(q) ==
  /\ Is(q, "delete", "remove")
  /\ \E ok \in BOOLEAN :
       /\ Store!RemoveRoute(found[q], ok)
       /\ IF ok THEN Replies(q, 200, found[q].id) ELSE Replies(q, 500, "none")
  /\ UNCHANGED <<sessionVars, used, issued, producer, exits>>

\* params["key"] of a route.
KeyMatches(key, r) == key = r.site \/ key = r.app \o <<Dash>> \o r.space

GetLogDrain(q) ==
  /\ Is(q, "get", "arrived")
  /\ \E r \in rows \cup {Store!NoRoute} :
       /\ Store!GetRouteById(call[q].id, r)
       /\ IF r # Store!NoRoute /\ KeyMatches(call[q].key, r)
            THEN Replies(q, 200, r.id)
            ELSE Replies(q, 404, "none")
  /\ UNCHANGED <<sessionVars, used, issued, producer, exits>>

\* GetRoutes comes before the key is taken apart.
ListLogDrains(q) ==
  LET c == call[q]
  IN /\ Is(q, "list", "arrived")
     /\ \E ok \in BOOLEAN :
          /\ Store!GetRoutes(ok)
          /\ Replies(q, IF ok /\ Indexed(c) THEN 200 ELSE 500,
                     IF ok /\ Indexed(c) /\ Wellformed(c)
                       THEN {r.id : r \in {s \in rows : s = RouteOf(s.id, Subject(c))}} ELSE {})
     /\ UNCHANGED <<sessionVars, used, issued, producer, exits>>

(***************************************************************************)
(* CreateLogEvent, with AddLog of events/producer.go.                      *)
(***************************************************************************)
\* The message is put into the queue of the producer, which can be full; AddLog
\* does not look at IsOpen.
CreateLogEvent(q) ==
  /\ Is(q, "event", "arrived")
  /\ IF call[q].decoded THEN \E status \in {201, 500} : Replies(q, status, "none")
     ELSE Replies(q, Malformed, "none")
  /\ UNCHANGED <<storeVars, sessionVars, used, issued, producer, exits>>

(***************************************************************************)
(* The log sessions.                                                       *)
(***************************************************************************)
CreateLogSession(q) ==
  /\ Is(q, "newsession", "arrived") /\ call[q].decoded
  /\ \E ok \in BOOLEAN, k \in {j \in SessionIds \ used : sessions[j] = Store!Absent} :
       /\ Store!SetSession(k, call[q].subject, ok)
       /\ IF ok THEN Replies(q, 201, k) ELSE Replies(q, 500, "none")
       /\ used' = used \cup {k}
  /\ UNCHANGED <<sessionVars, issued, producer, exits>>

MalformedLogSession(q) ==
  /\ Is(q, "newsession", "arrived") /\ ~call[q].decoded
  /\ Replies(q, Malformed, "none")
  /\ UNCHANGED <<storeVars, sessionVars, used, issued, producer, exits>>

\* The status is written before the session starts: what comes later cannot
\* change it.
ReadLogSession(q) ==
  LET k == call[q].session
  IN /\ Is(q, "readsession", "arrived")
     /\ \E ok \in BOOLEAN :
          /\ Store!GetSession(k, ok)
          /\ IF ok
               THEN Goto(q, "reading") /\ S!Begin(q, sessions[k].subject) /\ UNCHANGED <<call, found, reply>>
               ELSE Replies(q, 404, "none") /\ UNCHANGED sessionVars
     /\ UNCHANGED <<used, issued, producer, exits>>

Read(q) ==
  /\ at[q] = "reading"
  /\ S!SessionStep(q)
  /\ UNCHANGED <<storeVars, requestVars, used, issued, producer, exits>>

(***************************************************************************)
(* What happens to the services.                                           *)
(***************************************************************************)
\* A signal reaches the shuttle service: it closes its producer, and will exit.
Signal ==
  /\ producer = "open" /\ exits < MaxExits
  /\ producer' = "closed"
  /\ UNCHANGED <<storeVars, sessionVars, requestVars, used, issued, exits>>

\* A service exits: its requests get no answer.  It is started again.
Exits(service) ==
  /\ exits < MaxExits
  /\ exits' = exits + 1
  /\ at' = [q \in Requests |->
              IF at[q] # "answered" /\ Service(q) = service THEN "lost" ELSE at[q]]
  /\ IF service = "session" THEN S!SessionsExit /\ UNCHANGED producer
     ELSE producer' = "open" /\ UNCHANGED sessionVars
  /\ UNCHANGED <<storeVars, call, found, reply, used, issued>>

Elsewhere ==
  /\ \/ \E k \in SessionIds : Store!SessionExpires(k) /\ UNCHANGED sessionVars
     \/ Store!DeleteExpired /\ UNCHANGED sessionVars
     \/ S!GoQuiet /\ UNCHANGED storeVars
  /\ UNCHANGED <<requestVars, used, issued, producer, exits>>

Handle(q) ==
  \/ CreateLogDrain(q) \/ AddLogDrain(q)
  \/ FindLogDrain(q) \/ DeleteLogDrain(q)
  \/ GetLogDrain(q) \/ ListLogDrains(q) \/ CreateLogEvent(q)
  \/ CreateLogSession(q) \/ MalformedLogSession(q) \/ ReadLogSession(q)

Next ==
  \/ \E q \in Requests : Handle(q) \/ Read(q)
  \/ Signal
  \/ \E service \in {"shuttle", "session"} : Exits(service)
  \/ Elsewhere

Spec == Init /\ [][Next]_vars

(***************************************************************************)
(* The goroutine of a request that reads a session runs; polls that bring  *)
(* nothing are only sure to come when there are no lines any more.         *)
(***************************************************************************)
Turn(q) == Read(q) /\ S!Turn(q)
EmptyPoll(q) == Read(q) /\ S!EmptyPoll(q)

FairSpec == Spec /\ \A q \in Requests : WF_vars(Turn(q)) /\ WF_vars(EmptyPoll(q))

(***************************************************************************)
(* Properties.                                                             *)
(***************************************************************************)
\* The requests and the store have their types.
TypeOK ==
  /\ call \in Calls
  /\ at \in [Requests -> {"arrived", "add", "remove", "reading", "answered", "lost"}]
  /\ used \subseteq Ids \cup SessionIds
  /\ {r.id : r \in rows} \subseteq issued /\ issued \subseteq used
  /\ faults \in 0..MaxFaults /\ exits \in 0..MaxExits

\* A drain whose creation was answered 201 is in storage, as it was asked for,
\* until a request to delete it has been at storage: whatever failed or was
\* deleted meanwhile, and in either storage.
CreatedStays ==
  \A q \in Requests : call[q].kind = "create" /\ reply[q].status = 201 =>
    \/ found[q] \in rows
    \/ \E d \in Requests : /\ call[d].kind = "delete" /\ call[d].id = reply[q].id
                           /\ found[d] = found[q]

\* A deletion that is answered with the drain it deleted has deleted it, for
\* good, although two deletions of a drain find it and both are answered so.
DeletedIsGone ==
  \A q \in Requests : call[q].kind = "delete" /\ reply[q].status = 200 /\ reply[q].id # "none" =>
    \A r \in rows : r.id # call[q].id

\* What Shuttle assumes of storage holds of the API over either storage.
R == INSTANCE RouteStore WITH Routes <- Ids, stored <- {r.id : r \in rows}
ImplementsRouteStore == R!Spec

\* A session of an app or site shows the lines that a drain of the same app or
\* site is sent, and no other: session.go compares names, shuttle.go looks up
\* a key it puts together.
ShownAsDrained ==
  \A q \in Requests :
    /\ \A i \in DOMAIN shown[q] : DrainedBy(subject[q], shown[q][i])
    /\ \A l \in passed[q] : ~DrainedBy(subject[q], l)

\* A session whose client went away, or whose topics fell silent, ends and
\* closes its Kafka client, wherever it was.
SessionEnds ==
  \A q \in Requests :
    loop[q].at \in {"poll", "write"} /\ (client[q] = "gone" \/ quiet) ~> consumer[q] = "closed"

\* session.go:197 "we've timed out, 1 minute with no messages.": a session that
\* has no lines to show ends.
IdleSessionEnds ==
  \A q \in Requests : loop[q].at = "poll" ~> consumer[q] = "closed" \/ shown[q] # <<>>

\* README.md:228 "Disconnects a log drain from forwarding.": a deletion that is
\* answered 200 deletes the drain it was asked to.
DeletionMeansGone ==
  \A q \in Requests : call[q].kind = "delete" /\ reply[q].status = 200 =>
    \A r \in rows : r.id # call[q].id

\* README.md:230 "DELETE /apps/{appname}-{space}/log-drains/{log_drain_id}": a
\* request names the app of the drain it deletes, as GetLogDrain checks.
DeletesOfItsKey ==
  \A q \in Requests : call[q].kind = "delete" /\ reply[q].status = 200 /\ found[q] # Store!NoRoute =>
    KeyMatches(call[q].key, found[q])

\* A creation that is answered 500 leaves no drain behind.
FailedLeavesNothing ==
  \A q \in Requests : call[q].kind = "create" /\ reply[q].status = 500 => found[q] \notin rows

\* events/producer.go:107 "Close": no message is given to a producer that is
\* closed, although requests are served until the process exits.
ProducerUsedOpen ==
  [][\A q \in Requests : call[q].kind = "event" /\ reply'[q].status \in {201, 500} /\ reply[q].status = 0
       => producer = "open"]_vars
=============================================================================
