---------------------------- MODULE MCGroundItems ----------------------------
(* The configurations ground_*.cfg bound GroundItems to few players and ids. *)
EXTENDS GroundItems, TLC
Symmetry == Permutations(Character)
==============================================================================
