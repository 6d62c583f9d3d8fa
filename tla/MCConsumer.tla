----------------------------- MODULE MCConsumer -----------------------------
(***************************************************************************)
(* A model-checking instance of Consumer: the topic of a space, and one of *)
(* Kafka's own.  Two polls fail, so that a client that replaced another is *)
(* replaced again, and a subscription and a last commit.                   *)
(***************************************************************************)
EXTENDS Consumer

CONSTANTS space, offsets, AppLogs

MCTopics == {space, offsets}
MCChannels == {AppLogs}
MCChannel == [t \in {space} |-> AppLogs]
MCMessages == [t \in MCTopics |-> IF t = space THEN 2 ELSE 1]
MCFaults == [k \in FaultKinds |-> IF k = "poll" THEN 2 ELSE 1]
=============================================================================
