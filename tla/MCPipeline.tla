----------------------------- MODULE MCPipeline -----------------------------
(***************************************************************************)
(* Model-checking instances of Pipeline: a syslog and an http pool, with   *)
(* channels of one.                                                        *)
(***************************************************************************)
EXTENDS Pipeline

CONSTANTS s1, h1, f1, f2

Scene(rs, ds, signal) == [routes |-> rs, deletes |-> ds, signal |-> signal]

\* The syslog pool with a deletion and a signal, the http pool with either, and
\* both pools together.
MCScenes ==
  {Scene({s1}, {s1}, TRUE), Scene({h1}, {}, TRUE), Scene({h1}, {h1}, FALSE), Scene({s1, h1}, {}, FALSE)}

DeletionScenes == {Scene({s1, h1}, {s1}, FALSE)}
SignalScenes == {Scene({s1, h1}, {}, TRUE)}
TwiceScenes == {Scene({s1}, {s1}, TRUE)}
QuietScenes == {Scene({s1, h1}, {}, FALSE)}
=============================================================================
