----------------------------- MODULE MCSessions ------------------------------
(* Instances of Sessions.                                                  *)
EXTENDS Sessions, TLC

Symmetry == Permutations(Tokens) \cup Permutations(Threads)
=============================================================================
