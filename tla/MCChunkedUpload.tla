--------------------------- MODULE MCChunkedUpload ---------------------------
(* Instances of ChunkedUpload for TLC.                                     *)
EXTENDS ChunkedUpload, TLC

Sizes == [u \in Uploads |-> 2]
Symmetry == Permutations(Threads) \cup Permutations(Paths)
=============================================================================
