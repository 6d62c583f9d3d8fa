---------------------------- MODULE OrderedLine ----------------------------
(***************************************************************************)
(* What an http pool, and one connection of a syslog pool, promise of the  *)
(* packets they accept, whatever goroutines do it and whatever fails: they *)
(* leave in the order they came, one or several at a time, each once, to   *)
(* the service or, when the network fails, to nowhere.                     *)
(***************************************************************************)
EXTENDS Naturals, SequencesExt

VARIABLES accepted,  \* how many packets were accepted; they are numbered
          line,      \* those that wait, in order
          arrived,   \* those that the service got, in order
          gone       \* those that it did not get

lineVars == <<accepted, line, arrived, gone>>

Init == accepted = 0 /\ line = <<>> /\ arrived = <<>> /\ gone = {}

\* The next packet is accepted: it joins the line at the end.
Accept ==
  /\ accepted' = accepted + 1
  /\ line' = Append(line, accepted + 1)
  /\ UNCHANGED <<arrived, gone>>

\* The first n packets, and what they leave.
First(n) == SubSeq(line, 1, n)
Behind(n) == SubSeq(line, n + 1, Len(line))

Deliver(n) ==
  /\ arrived' = arrived \o First(n)
  /\ line' = Behind(n)
  /\ UNCHANGED <<accepted, gone>>

Lose(n) ==
  /\ gone' = gone \cup ToSet(First(n))
  /\ line' = Behind(n)
  /\ UNCHANGED <<accepted, arrived>>

Next == Accept \/ \E n \in DOMAIN line : Deliver(n) \/ Lose(n)

Spec == Init /\ [][Next]_lineVars
=============================================================================
