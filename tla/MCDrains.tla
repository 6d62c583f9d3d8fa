------------------------------ MODULE MCDrains ------------------------------
(***************************************************************************)
(* Model-checking instance of Drains: three routes share a destination     *)
(* that may refuse connections, a fourth has a reliable one of its own and *)
(* a fifth a scheme that is not supported.                                 *)
(***************************************************************************)
EXTENDS Drains

CONSTANTS r1, r2, r3, r4, r5, syslog, http, ftp

MCRoutes == {r1, r2, r3, r4, r5}
MCUrls == {syslog, http, ftp}
MCUrl == [r \in MCRoutes |-> CASE r = r4 -> http
                               [] r = r5 -> ftp
                               [] OTHER -> syslog]
MCSupported == {syslog, http}
MCFlaky == {syslog}
=============================================================================
