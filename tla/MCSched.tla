------------------------------- MODULE MCSched -------------------------------
(* Two objects that register for always, or to read or write on one         *)
(* descriptor: enough for two callbacks to wait for the same descriptor and *)
(* for one object to own two callbacks.                                     *)
EXTENDS Sched
=============================================================================
