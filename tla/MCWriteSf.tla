----------------------------- MODULE MCWriteSf ------------------------------
(* writesf~ with buffers of two ticks.                                      *)
EXTENDS WriteSf
=============================================================================
