------------------------------ MODULE MCServer -------------------------------
(* Instances of Server: the descriptors are small numbers, as the kernel   *)
(* gives the lowest free one.                                              *)
EXTENDS Server
=============================================================================
