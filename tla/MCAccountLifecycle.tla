------------------------- MODULE MCAccountLifecycle -------------------------
(* One account, the scope of every lock, with as many concurrent commands  *)
(* as the run's configuration names.                                       *)
EXTENDS AccountLifecycle, TLC

CONSTANT a1

OneAccount == {a1}
AllAtOne == [c \in Commands |-> a1]
Symmetry == Permutations(Commands)
=============================================================================
