---------------------------- MODULE MCGameClient ----------------------------
(* A connection with its login and a heartbeat or an operation.            *)
EXTENDS GameClient, TLC

CONSTANTS attempt, conn, login, other

AllWork == {attempt, conn, login, other}
Modes == (login :> "manual") @@ (other :> "hook")
=============================================================================
