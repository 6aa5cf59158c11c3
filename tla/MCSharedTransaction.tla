------------------------ MODULE MCSharedTransaction -------------------------
(* Instances of SharedTransaction, hence of ConnectionPool, for TLC.       *)
EXTENDS SharedTransaction, TLC
=============================================================================
