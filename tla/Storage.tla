------------------------------- MODULE Storage ------------------------------
(***************************************************************************)
(* The two storages a service can run on, storage/storage.go: Postgres     *)
(* (tables drains and sessions) or Redis (the list routes, and one key per *)
(* session).  Each operation is one atomic call that a handler makes.  A   *)
(* call can fail, and a call that fails may have been carried out.         *)
(*                                                                         *)
(* No value is in the list twice, because each id is used by one AddRoute: *)
(* a set stands for the table and for the list.                            *)
(***************************************************************************)
EXTENDS Naturals

CONSTANTS
  SessionIds,  \* the ids of sessions
  MaxFaults    \* bound: how many calls fail

VARIABLES
  backend,   \* "postgres" or "redis", as main chose
  rows,      \* the routes that are stored
  sessions,  \* sessions[k]: the subject and the state of a session
  faults     \* how many calls failed

Absent == [state |-> "absent"]

\* What GetRouteById returns beside an error: nil, or a route without an id.
NoRoute == [id |-> "none"]

Init ==
  /\ backend \in {"postgres", "redis"}
  /\ rows = {}
  /\ sessions = [k \in SessionIds |-> Absent]
  /\ faults = 0

Fault == faults < MaxFaults /\ faults' = faults + 1

\* A call that changes the rows to after, when it is carried out.
Changes(after, ok) ==
  \/ ok /\ rows' = after /\ UNCHANGED faults
  \/ ~ok /\ Fault /\ rows' \in {rows, after}

AddRoute(route, ok) ==
  /\ Changes(rows \cup {route}, ok)
  /\ UNCHANGED <<backend, sessions>>

\* Mutant: the row is found by its app, not by its id.
Matching_app(route) == {r \in rows : r.id = route.id \/ (route # NoRoute /\ r.app = route.app)}

\* Postgres deletes by id; Redis removes the value, which holds every field.
Matching(route) ==
  {r \in rows : IF backend = "postgres" THEN r.id = route.id ELSE r = route}

RemoveRoute(route, ok) ==
  /\ Changes(rows \ Matching(route), ok)
  /\ UNCHANGED <<backend, sessions>>

\* A row that is not there and a call that failed look the same to the caller.
GetRouteById(id, route) ==
  /\ \/ route \in rows /\ route.id = id /\ UNCHANGED faults
     \/ (\A r \in rows : r.id # id) /\ route = NoRoute /\ UNCHANGED faults
     \/ Fault /\ route = NoRoute
  /\ UNCHANGED <<backend, rows, sessions>>

GetRoutes(ok) ==
  /\ IF ok THEN UNCHANGED faults ELSE Fault
  /\ UNCHANGED <<backend, rows, sessions>>

SetSession(k, subject, ok) ==
  LET after == [sessions EXCEPT ![k] = [state |-> "live", subject |-> subject]]
  IN /\ \/ ok /\ sessions' = after /\ UNCHANGED faults
        \/ ~ok /\ Fault /\ sessions' \in {sessions, after}
     /\ UNCHANGED <<backend, rows>>

\* Postgres keeps a row past its time, until the ticker finds it, and its
\* query leaves such rows out.
Readable(k) == sessions[k].state = "live"

GetSession(k, ok) ==
  /\ IF ok THEN Readable(k) /\ UNCHANGED faults
     ELSE (~Readable(k) /\ UNCHANGED faults) \/ Fault
  /\ UNCHANGED <<backend, rows, sessions>>

\* The five minutes of a session are over.
SessionExpires(k) ==
  /\ sessions[k].state = "live"
  /\ sessions' = [sessions EXCEPT ![k] =
                    IF backend = "redis" THEN Absent ELSE [@ EXCEPT !.state = "expired"]]
  /\ UNCHANGED <<backend, rows, faults>>

\* The one-minute ticker of Postgres; whether its statement fails is not looked at.
DeleteExpired ==
  /\ backend = "postgres"
  /\ \E k \in SessionIds : sessions[k].state = "expired"
  /\ sessions' = [k \in SessionIds |-> IF sessions[k].state = "expired" THEN Absent ELSE sessions[k]]
  /\ UNCHANGED <<backend, rows, faults>>
=============================================================================
