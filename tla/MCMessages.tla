----------------------------- MODULE MCMessages ------------------------------
(* Instances of Messages for TLC.                                          *)
EXTENDS Messages, TLC
=============================================================================
