------------------------------ MODULE MCLogger ------------------------------
(***************************************************************************)
(* Model-checking instances of Logger: three packets, two connections that may fail.   *)
(***************************************************************************)
EXTENDS Logger
=============================================================================
