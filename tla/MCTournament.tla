---------------------------- MODULE MCTournament ----------------------------
(***************************************************************************)
(* Small brackets for TLC, cut from the one of battle.c 19: the half of B  *)
(* with the battles G and H, and the agents 8 and 11 in one battle.        *)
(***************************************************************************)
EXTENDS Tournament, TLC

CONSTANTS A, B, C, F, G, H

FourLeft == (A :> B) @@ (B :> G) @@ (C :> F) @@ (F :> 8) @@ (G :> 0) @@ (H :> 2)
FourRight == (A :> C) @@ (B :> H) @@ (C :> 14) @@ (F :> 11) @@ (G :> 1) @@ (H :> 3)
FourLoser == (G :> 8) @@ (H :> 11) @@ (B :> 14)
FourField == (A :> "FIRE") @@ (B :> "GRASS") @@ (C :> "WATER") @@ (F :> "GRASS")
             @@ (G :> "FIRE") @@ (H :> "WATER")
FourAttr == (0 :> "FIRE") @@ (1 :> "GRASS") @@ (2 :> "FIRE") @@ (3 :> "GRASS")
FourAtk == (0 :> 2) @@ (1 :> 3) @@ (2 :> 1) @@ (3 :> 1)

\* Two players: the loser of B meets the winner again in the final.
TwoLeft == (A :> B) @@ (B :> 0)
TwoRight == (A :> 14) @@ (B :> 1)
TwoLoser == (B :> 14)
TwoField == (A :> "FIRE") @@ (B :> "GRASS")
TwoAttr == (0 :> "FIRE") @@ (1 :> "GRASS")
TwoAtk == (0 :> 2) @@ (1 :> 1)
=============================================================================
