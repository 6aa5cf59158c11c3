----------------------------- MODULE MCFileStore -----------------------------
(* Instances of FileStore: one file differs in size from the others, so    *)
(* that one wrong charge does not cancel another.                          *)
EXTENDS FileStore, TLC

CONSTANT f1

Sizes == [f \in Files |-> IF f = f1 THEN 1 ELSE 2]
Symmetry == Permutations(Threads) \cup Permutations(Codes)
=============================================================================
