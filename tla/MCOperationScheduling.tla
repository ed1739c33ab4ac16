----------------------- MODULE MCOperationScheduling -----------------------
(* Instances of OperationScheduling for TLC.                               *)
EXTENDS OperationScheduling, TLC

CONSTANTS u1, y1, f1, s1, s2, race, list, harvest, order, wheel

KindOf == (u1 :> race) @@ (y1 :> list) @@ (f1 :> harvest) @@ (s1 :> order) @@ (s2 :> order)
RankOf == (u1 :> 1) @@ (y1 :> 2) @@ (f1 :> 3) @@ (s1 :> 4) @@ (s2 :> 5)
=============================================================================
