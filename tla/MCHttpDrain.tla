---------------------------- MODULE MCHttpDrain -----------------------------
(***************************************************************************)
(* Model-checking instance of HttpDrain: a flush starts at two buffered    *)
(* packets, and no more flushes can be started than there are goroutines.  *)
(***************************************************************************)
EXTENDS HttpDrain

CONSTANTS t, g1, g2, g3

MCSpawned == {g1, g2, g3}
=============================================================================
