----------------------------- MODULE RouteStore -----------------------------
(***************************************************************************)
(* What the log-drain API makes of storage, for those who only read it:    *)
(* routes come one at a time, go one at a time, and a route that is gone   *)
(* never comes back, because every creation takes a new id.                *)
(***************************************************************************)
CONSTANTS Routes   \* the routes that are ever asked for

VARIABLES stored,  \* the routes in storage
          issued   \* the routes that ever were

Init == stored = {} /\ issued = {}

Create(r) ==
  /\ r \notin issued
  /\ stored' = stored \cup {r}
  /\ issued' = issued \cup {r}

Delete(r) ==
  /\ r \in stored
  /\ stored' = stored \ {r}
  /\ UNCHANGED issued

Next == \E r \in Routes : Create(r) \/ Delete(r)

Spec == Init /\ [][Next]_<<stored, issued>>
=============================================================================
