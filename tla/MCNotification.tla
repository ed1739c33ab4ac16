---------------------------- MODULE MCNotification ----------------------------
(* One user with the lane of an account and the lane of test messages.     *)
EXTENDS NotificationOutbox, TLC

WorkerSymmetry == Permutations(Workers)
=============================================================================
