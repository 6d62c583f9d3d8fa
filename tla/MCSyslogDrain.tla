--------------------------- MODULE MCSyslogDrain ----------------------------
(***************************************************************************)
(* Model-checking instance of SyslogDrain: two tags that share the first   *)
(* connection and part when there are two or more.                         *)
(***************************************************************************)
EXTENDS SyslogDrain

CONSTANTS web, worker, c1, c2

MCTags == {web, worker}
MCHash == [tag \in MCTags |-> IF tag = web THEN 5 ELSE 2]
MCTag == [p \in 1..MaxPackets |-> IF p = 2 THEN worker ELSE web]
=============================================================================
