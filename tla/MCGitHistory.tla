---------------------------- MODULE MCGitHistory ----------------------------
(* Instances of GitHistory for TLC: nothing tells two contents apart, nor *)
(* two notes that can both be purged.                                      *)
EXTENDS GitHistory, TLC

CONSTANTS n1, n2, c1, c2

Alike == {f @@ g : f \in Permutations({c1, c2}), g \in Permutations({n1, n2})}
=============================================================================
