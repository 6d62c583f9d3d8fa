------------------------------- MODULE Session ------------------------------
(***************************************************************************)
(* ConsumeAndRespond of shuttle/session.go: a request that reads a log     *)
(* session gets a Kafka client of its own and writes the lines of its      *)
(* subject to the response, until the client of the request goes away, a   *)
(* write fails, Kafka reports an error, or polls have brought nothing for  *)
(* a minute.                                                               *)
(*                                                                         *)
(* The group of a session is new and so starts at the end of its topics: a *)
(* poll may give any line that Kafka gives the session, at any time.       *)
(***************************************************************************)
EXTENDS LogLines, FiniteSets

CONSTANTS
  Readers,   \* the requests that can read a session
  Lines,     \* the lines the topics can hold
  MaxLoops,  \* empty polls a session survives in a row: 600 in the code
  MaxHeard   \* bound: the lines shown, and those passed over, per session

VARIABLES
  subject,   \* subject[q]: app, space and site of the session q reads
  client,    \* client[q]: whether the context of the request is in error
  consumer,  \* consumer[q]: the state of the Kafka client of q
  loop,      \* loop[q]: where ConsumeAndRespond is, IsOpen and loops
  event,     \* event[q]: the line it is writing
  shown,     \* shown[q]: the lines that were written
  passed,    \* passed[q]: the lines that were polled and are not of the subject
  quiet      \* no line comes any more

Nobody == [app |-> <<>>, space |-> <<>>, site |-> <<>>]
NoLine == [source |-> "none"]
NotReading == [at |-> "off", is_open |-> FALSE, loops |-> 0]

Init ==
  /\ subject = [q \in Readers |-> Nobody]
  /\ client = [q \in Readers |-> "here"]
  /\ consumer = [q \in Readers |-> "none"]
  /\ loop = [q \in Readers |-> NotReading]
  /\ event = [q \in Readers |-> NoLine]
  /\ shown = [q \in Readers |-> <<>>]
  /\ passed = [q \in Readers |-> {}]
  /\ quiet = FALSE

Goto(q, at) == loop' = [loop EXCEPT ![q].at = at]

\* The loop ends at its next check.
Stop(q) == loop' = [loop EXCEPT ![q].is_open = FALSE, ![q].at = "poll"]

\* The Kafka client is created; that it cannot subscribe is not looked at.  A
\* session of neither a site nor a space closes it and returns.
Begin(q, s) ==
  /\ loop[q].at = "off"
  /\ subject' = [subject EXCEPT ![q] = s]
  /\ IF Listens(s) = {}
       THEN /\ consumer' = [consumer EXCEPT ![q] = "closed"]
            /\ loop' = [loop EXCEPT ![q] = [at |-> "end", is_open |-> TRUE, loops |-> 0]]
       ELSE /\ \E c \in {"subscribed", "unsubscribed"} : consumer' = [consumer EXCEPT ![q] = c]
            /\ loop' = [loop EXCEPT ![q] = [at |-> "poll", is_open |-> TRUE, loops |-> 0]]
  /\ UNCHANGED <<client, event, shown, passed, quiet>>

(***************************************************************************)
(* The loop: one action for each way an iteration can go.  The context is  *)
(* looked at after the poll, so that a line polled then is dropped.        *)
(***************************************************************************)
Polling(q) == loop[q].at = "poll" /\ loop[q].is_open

Overdue(q) == loop[q].loops > MaxLoops

PollGone(q) ==
  /\ Polling(q)
  /\ client[q] = "gone"
  /\ Stop(q)
  /\ UNCHANGED <<subject, client, consumer, event, shown, passed, quiet>>

PollOverdue(q) ==
  /\ Polling(q)
  /\ client[q] = "here" /\ Overdue(q)
  /\ Stop(q)
  /\ UNCHANGED <<subject, client, consumer, event, shown, passed, quiet>>

\* An iteration that gets to the event of its poll.
Polled(q) == Polling(q) /\ client[q] = "here" /\ ~Overdue(q)

\* Mutant: an empty poll is not counted.
PollNothing_uncounted(q) ==
  /\ Polled(q)
  /\ UNCHANGED <<subject, client, consumer, loop, event, shown, passed, quiet>>

\* Nothing came for 100 ms, or an event that is neither message nor error.
PollNothing(q) ==
  /\ Polled(q)
  /\ loop' = [loop EXCEPT ![q].loops = @ + 1]
  /\ UNCHANGED <<subject, client, consumer, event, shown, passed, quiet>>

PollError(q) ==
  /\ Polled(q)
  /\ loop' = [loop EXCEPT ![q].is_open = FALSE, ![q].at = "return"]
  /\ UNCHANGED <<subject, client, consumer, event, shown, passed, quiet>>

\* Kafka gives the session line l.
Comes(q, l) == Polled(q) /\ consumer[q] = "subscribed" /\ ~quiet /\ Hears(subject[q], l)

\* A line of the subject: it ends the idle time, and is written.
PollOwn(q, l) ==
  /\ Comes(q, l) /\ Shows(subject[q], l)
  /\ Len(shown[q]) < MaxHeard
  /\ loop' = [loop EXCEPT ![q].loops = 0, ![q].at = "write"]
  /\ event' = [event EXCEPT ![q] = l]
  /\ UNCHANGED <<subject, client, consumer, shown, passed, quiet>>

\* Any other line leaves the count of empty polls as it is.
PollOther(q, l) ==
  /\ Comes(q, l) /\ ~Shows(subject[q], l) /\ l.form # "odd"
  /\ l \in passed[q] \/ Cardinality(passed[q]) < MaxHeard
  /\ passed' = [passed EXCEPT ![q] = @ \cup {l}]
  /\ UNCHANGED <<subject, client, consumer, loop, event, shown, quiet>>

\* The parser panics: the deferred Close runs, and the server goes on.
PollPanics(q, l) ==
  /\ Comes(q, l) /\ l.form = "odd"
  /\ Goto(q, "return")
  /\ UNCHANGED <<subject, client, consumer, event, shown, passed, quiet>>

Write(q) ==
  /\ loop[q].at = "write"
  /\ shown' = [shown EXCEPT ![q] = Append(@, event[q])]
  /\ event' = [event EXCEPT ![q] = NoLine]
  /\ Goto(q, "poll")
  /\ UNCHANGED <<subject, client, consumer, passed, quiet>>

\* The connection broke, which the context may show later: `break' leaves the
\* switch, and the loop ends.
WriteFails(q) ==
  /\ loop[q].at = "write"
  /\ event' = [event EXCEPT ![q] = NoLine]
  /\ Stop(q)
  /\ UNCHANGED <<subject, client, consumer, shown, passed, quiet>>

LoopEnds(q) ==
  /\ loop[q].at = "poll" /\ ~loop[q].is_open
  /\ Goto(q, "return")
  /\ UNCHANGED <<subject, client, consumer, event, shown, passed, quiet>>

\* defer consumer.Close().
Return(q) ==
  /\ loop[q].at = "return"
  /\ consumer' = [consumer EXCEPT ![q] = "closed"]
  /\ Goto(q, "end")
  /\ UNCHANGED <<subject, client, event, shown, passed, quiet>>

(***************************************************************************)
(* The client and the topics.                                              *)
(***************************************************************************)
ClientLeaves(q) ==
  /\ loop[q].at \in {"poll", "write"} /\ client[q] = "here"
  /\ client' = [client EXCEPT ![q] = "gone"]
  /\ UNCHANGED <<subject, consumer, loop, event, shown, passed, quiet>>

GoQuiet ==
  /\ ~quiet
  /\ quiet' = TRUE
  /\ UNCHANGED <<subject, client, consumer, loop, event, shown, passed>>

\* The process ends with all its sessions, and with it their Kafka clients.
SessionsExit ==
  /\ loop' = [q \in Readers |-> IF loop[q].at = "off" THEN loop[q] ELSE [loop[q] EXCEPT !.at = "end"]]
  /\ consumer' = [q \in Readers |-> IF loop[q].at = "off" THEN consumer[q] ELSE "closed"]
  /\ event' = [q \in Readers |-> NoLine]
  /\ UNCHANGED <<subject, client, shown, passed, quiet>>

\* What the loop does on its own.
Turn(q) == PollGone(q) \/ PollOverdue(q) \/ Write(q) \/ WriteFails(q) \/ LoopEnds(q) \/ Return(q)

\* When lines go on coming, every poll may bring one.
EmptyPoll(q) == quiet /\ PollNothing(q)

SessionStep(q) ==
  \/ Turn(q) \/ PollNothing(q) \/ PollError(q) \/ ClientLeaves(q)
  \/ \E l \in Lines : PollOwn(q, l) \/ PollOther(q, l) \/ PollPanics(q, l)

=============================================================================
