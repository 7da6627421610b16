--------------------------- MODULE MCCharacterLease ---------------------------
(* Small instances of CharacterLease: who shares a process with whom.      *)
EXTENDS CharacterLease, TLC

CONSTANTS s1, s2, p1, p2

TwoProcesses == s1 :> p1 @@ s2 :> p2

OneProcess == s1 :> p1 @@ s2 :> p1

(* Sound for OneProcess, where nothing tells the two connections apart.    *)
SessionSymmetry == Permutations({s1, s2})

(* Sound for TwoProcesses when both or neither may crash: the connections  *)
(* change places together with their processes.                            *)
ProcessSymmetry == {s1 :> s2 @@ s2 :> s1 @@ p1 :> p2 @@ p2 :> p1}
=============================================================================
