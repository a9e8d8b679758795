----------------------------- MODULE MCService -----------------------------
(* Service: the constants are given in the configurations.                 *)
EXTENDS Service
=============================================================================
