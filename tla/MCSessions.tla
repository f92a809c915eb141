----------------------------- MODULE MCSessions -----------------------------
(* Small instances of SignInSessions for TLC. *)
EXTENDS SessionProperties

CONSTANTS t1, t2, h1
=============================================================================
