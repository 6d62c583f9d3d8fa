------------------------------ MODULE LogLines -----------------------------
(***************************************************************************)
(* Which lines belong to which app, space and site: the parsers and the    *)
(* name matching of shuttle/common.go, the keys under which the forwarders *)
(* of shuttle/shuttle.go send a line, and the lines that a session of      *)
(* shuttle/session.go writes.  A name is a sequence of characters, because *)
(* the code splits and joins names at dashes; <<>> is the empty string.    *)
(*                                                                         *)
(* A line is a record: its source (the kind of topic), name (the container *)
(* of an app or istio line, the first label of the hostname of a web line, *)
(* the metadata of a build line), space (of an app or istio line), site    *)
(* (the site_domain of a web line) and form: "whole"; "partial", which the *)
(* parser refuses; or "odd", which it does not refuse and panics on.       *)
(***************************************************************************)
EXTENDS Integers, Sequences, SequencesExt

CONSTANTS
  Dash,     \* the character "-"
  Default   \* the name "default"

Dashes(s) == {i \in DOMAIN s : s[i] = Dash}

\* Where s contains "--".
DoubleDashes(s) == {i \in Dashes(s) : i + 1 \in Dashes(s)}

First(positions) == CHOOSE i \in positions : \A j \in positions : i <= j

Before(s, i) == SubSeq(s, 1, i - 1)
After(s, i) == SubSeq(s, i + 1, Len(s))

\* strings.SplitN(name, "-", 2) where a second part may be missing.
SplitName(name) ==
  IF Dashes(name) = {}
    THEN [app |-> name, space |-> Default]
    ELSE [app |-> Before(name, First(Dashes(name))), space |-> After(name, First(Dashes(name)))]

\* ContainerToProc, and the same lines in SendMessage: the app of a container.
App(container) ==
  IF DoubleDashes(container) = {} THEN container
    ELSE Before(container, First(DoubleDashes(container)))

\* Mutant: any container whose name starts with the name of the app.
IsAppMatch_prefix(potential, app) == IsPrefix(app, potential)

IsAppMatch(potential, app) ==
  potential = app \/ IsPrefix(app \o <<Dash, Dash>>, potential)

(***************************************************************************)
(* Parsing.                                                                *)
(***************************************************************************)
\* What a parser makes of a line that it accepts.
Parsed(l) ==
  LET split == SplitName(l.name)
  IN CASE l.source \in {"app", "istio"} -> [container |-> l.name, topic |-> l.space, site |-> <<>>]
       [] l.source = "web"   -> [container |-> split.app, topic |-> split.space, site |-> l.site]
       [] l.source = "build" -> [container |-> split.app, topic |-> split.space, site |-> <<>>]

\* The parsers of web and build lines refuse an empty app or space.
Decoded(l) ==
  /\ l.form = "whole"
  /\ l.source \in {"web", "build"} => Parsed(l).container # <<>> /\ Parsed(l).topic # <<>>

(***************************************************************************)
(* Drains.                                                                 *)
(***************************************************************************)
\* A subject is what a route or a session is for: an app of a space, or a site.
RouteKey(subject) == IF subject.site # <<>> THEN subject.site ELSE subject.app \o subject.space

\* The lookup of SendMessage.
SendKey(container, topic) == App(container) \o topic

\* The keys a forwarder sends l to: of its app, and of its site if it has one.
KeysOf(l) ==
  LET p == Parsed(l)
  IN IF ~Decoded(l) THEN {}
     ELSE {SendKey(p.container, p.topic)} \cup
          (IF l.source \in {"web", "istio"} /\ p.site # <<>> THEN {SendKey(p.site, <<>>)} ELSE {})

DrainedBy(subject, l) == RouteKey(subject) \in KeysOf(l)

(***************************************************************************)
(* Sessions.                                                               *)
(***************************************************************************)
\* The topics a session subscribes to: that of its space, and the shared ones.
Listens(subject) ==
  IF subject.site # <<>> THEN {"web", "istio"}
  ELSE IF subject.space # <<>> THEN {"app", "web", "istio", "build"}
  ELSE {}

\* The lines that Kafka gives a session: an app line is on the topic of its space.
Hears(subject, l) ==
  l.source \in Listens(subject) /\ (l.source = "app" => l.space = subject.space)

OfApp(subject, p) == IsAppMatch(p.container, subject.app) /\ p.topic = subject.space

OfSite(subject, p) == p.site # <<>> /\ p.site = subject.site

\* RespondWithAppLog, RespondWithBuildLog, and the three for web lines.
Shows(subject, l) ==
  /\ Decoded(l)
  /\ \/ OfApp(subject, Parsed(l)) /\ (l.source = "build" => subject.space # <<>>)
     \/ l.source \in {"web", "istio"} /\ OfSite(subject, Parsed(l))
=============================================================================
