----------------------------- MODULE MCShuttle ------------------------------
(***************************************************************************)
(* Model-checking instances of Shuttle.                                    *)
(***************************************************************************)
EXTENDS Shuttle

CONSTANTS r1, r2, r3, r4, app, site, syslog, http, f1, f2

\* Three routes of one app, two of them to the same destination, which a site
\* sends to as well.  The other destination refuses connections at times.
MCRoutes == {r1, r2, r3, r4}
MCUrls == {syslog, http}
MCUrl == [r \in MCRoutes |-> IF r = r2 THEN syslog ELSE http]
MCFewRoutes == {r1, r2, r3}
MCFewUrl == [r \in MCFewRoutes |-> MCUrl[r]]
MCKeys == {app, site}
MCKey == [r \in MCRoutes |-> IF r = r4 THEN site ELSE app]
MCFewKey == [r \in MCFewRoutes |-> app]
MCSlots == [url \in MCUrls |-> IF url = http THEN 1 ELSE 2]
=============================================================================
