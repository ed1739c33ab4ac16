-------------------------- MODULE MCRedeemAttempts --------------------------
(* One code that two workers try on two accounts.                          *)
EXTENDS RedeemAttempts
=============================================================================
