-------------------------- MODULE MCSessionRecovery --------------------------
(* One connection loop with two notices, a settings edit and two commands. *)
EXTENDS SessionRecovery
=============================================================================
