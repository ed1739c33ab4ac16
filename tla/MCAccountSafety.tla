--------------------------- MODULE MCAccountSafety ---------------------------
(* The runners an account has one after the other. *)
EXTENDS AccountSafety
==============================================================================
