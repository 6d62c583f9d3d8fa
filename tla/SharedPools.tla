---------------------------- MODULE SharedPools ----------------------------
(***************************************************************************)
(* What the drains package promises its callers, without its bookkeeping:  *)
(* routes that send to the same destination share one pool of connections, *)
(* the pool exists exactly while some route uses it, and a pool that was   *)
(* given up is never handed out again.                                     *)
(***************************************************************************)
EXTENDS Naturals

CONSTANTS Routes,     \* the callers of Dial, one per stored route
          Urls,       \* the destination URLs
          Url         \* the destination of each route

VARIABLES pool,       \* pool[url]: the live pool of url, 0 when it has none
          uses,       \* uses[r]: the pool route r sends to, 0 when it has none
          given_up    \* given_up[url]: how many pools of url came before

poolVars == <<pool, uses, given_up>>

UsersOf(url) == {r \in Routes : Url[r] = url /\ uses[r] # 0}

Init == /\ pool = [url \in Urls |-> 0]
        /\ uses = [r \in Routes |-> 0]
        /\ given_up = [url \in Urls |-> 0]

\* A route joins the live pool of its destination, or starts the next one.
Join(r) ==
  LET g == IF pool[Url[r]] # 0 THEN pool[Url[r]] ELSE given_up[Url[r]] + 1
  IN /\ uses[r] = 0
     /\ pool' = [pool EXCEPT ![Url[r]] = g]
     /\ uses' = [uses EXCEPT ![r] = g]
     /\ UNCHANGED given_up

\* A route leaves; the last one to leave closes the pool.
Leave(r) ==
  /\ uses[r] # 0
  /\ uses' = [uses EXCEPT ![r] = 0]
  /\ IF UsersOf(Url[r]) = {r}
       THEN /\ given_up' = [given_up EXCEPT ![Url[r]] = pool[Url[r]]]
            /\ pool' = [pool EXCEPT ![Url[r]] = 0]
       ELSE UNCHANGED <<given_up, pool>>

Next == \E r \in Routes : Join(r) \/ Leave(r)

Spec == Init /\ [][Next]_poolVars
=============================================================================
