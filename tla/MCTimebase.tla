----------------------------- MODULE MCTimebase -----------------------------
(* Two objects, three alarms with delays shorter than, equal to and longer  *)
(* than a tick, two ticks, one flush inside a tick.                         *)
EXTENDS Timebase

MCDelays == {-1, 1, 2}
=============================================================================
