--------------------------- MODULE MCPersistWorker ---------------------------
(* Small instances of PersistWorker.                                       *)
EXTENDS PersistWorker, TLC

CONSTANTS c1, c2

CharacterSymmetry == Permutations({c1, c2})
=============================================================================
