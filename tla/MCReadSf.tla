------------------------------ MODULE MCReadSf ------------------------------
(* readsf~ with buffers of two ticks.                                       *)
EXTENDS ReadSf
=============================================================================
