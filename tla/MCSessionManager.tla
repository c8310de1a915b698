-------------------------- MODULE MCSessionManager --------------------------
(* Small instances of SessionManager for TLC.                               *)
EXTENDS SessionManager

CONSTANTS l1, o1, o2
=============================================================================
