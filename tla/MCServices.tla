----------------------------- MODULE MCServices -----------------------------
(***************************************************************************)
(* Model-checking instances of Services: two apps, one of whose names      *)
(* starts with the other, in a space whose name has a dash, and a site.    *)
(***************************************************************************)
EXTENDS Services

CONSTANTS a, b, s, d, k1, i1, i2

NameDefault == <<s, d>>
App1 == <<a>>
App2 == <<a, b>>
Space == <<s, Dash, s>>
Site == <<d, Dash, b>>
Joined(app, space) == app \o <<Dash>> \o space

AppSubject == [app |-> App1, space |-> Space, site |-> <<>>]
SiteSubject == [app |-> <<>>, space |-> <<>>, site |-> Site]

Create(key, isSite) == [kind |-> "create", key |-> key, isSite |-> isSite, decoded |-> TRUE]
Delete(key, id) == [kind |-> "delete", key |-> key, id |-> id]
Get(key, id) == [kind |-> "get", key |-> key, id |-> id]
List(key, isSite) == [kind |-> "list", key |-> key, isSite |-> isSite]
NewSession(subj) == [kind |-> "newsession", subject |-> subj, decoded |-> TRUE]
ReadSession(k) == [kind |-> "readsession", session |-> k]

Deletes == {Delete(Joined(App1, Space), id) : id \in Ids}

\* Two creations and a deletion, or a creation and two requests for its drain.
DrainCalls ==
  {<<c1, c2, c3>> : c1 \in {Create(Joined(App1, Space), FALSE), Create(App1, FALSE)},
                    c2 \in Deletes \cup {Create(Joined(App1, Space), FALSE), Create(Site, TRUE), List(Joined(App1, Space), FALSE)},
                    c3 \in Deletes \cup {Get(Site, i1)}}

NoCall == [kind |-> "none"]

\* A session is created and one is read; or a request for one is malformed.
SessionCalls ==
  {<<NewSession(subj), ReadSession(k1), NoCall>> :
     subj \in {AppSubject, SiteSubject, [AppSubject EXCEPT !.space = <<>>]}}
  \cup {<<[NewSession(AppSubject) EXCEPT !.decoded = FALSE], NoCall, NoCall>>}

EventCalls == {<<[kind |-> "event", decoded |-> d1], NoCall, NoCall>> : d1 \in BOOLEAN}

MCCalls == EventCalls \cup DrainCalls \cup SessionCalls

\* A line of each kind for each app, with and without a process type or a site.
Line(source, name, space, site, form) ==
  [source |-> source, name |-> name, space |-> space, site |-> site, form |-> form]

MCLines ==
  {Line("app", App1, Space, <<>>, "whole"), Line("app", App1 \o <<Dash, Dash, b, Dash, Dash, b>>, Space, <<>>, "whole"),
   Line("app", App2, Space, <<>>, "whole"), Line("app", App1, Space, <<>>, "partial"),
   Line("istio", App1, Space, <<>>, "whole"), Line("istio", App1, Space, <<>>, "odd"),
   Line("web", Joined(App1, Space), <<>>, Site, "whole"), Line("web", Joined(App2, Space), <<>>, Site, "whole"),
   Line("web", App1, <<>>, <<>>, "whole"), Line("build", Joined(App1, Space), <<>>, <<>>, "whole"),
   Line("build", <<Dash>> \o Space, <<>>, <<>>, "whole")}

\* A site whose name has "--", as an internationalised one does.
DashedSite == <<s, Dash, Dash, b>>
DashedCalls == {<<NewSession([SiteSubject EXCEPT !.site = DashedSite]), ReadSession(k1), NoCall>>}
DashedLines == {Line("web", Joined(App1, Space), <<>>, DashedSite, "whole")}

\* Two apps whose names and spaces, put together, are the same.
JoinedCalls == {<<NewSession([AppSubject EXCEPT !.space = <<b, s>>]), ReadSession(k1), NoCall>>}
JoinedLines == {Line("build", Joined(App2, <<s>>), <<>>, <<>>, "whole")}
=============================================================================
