---------------------------- MODULE MCDspControl ----------------------------
(* Two DSP objects, connected directly and through a third object.          *)
EXTENDS DspControl

CONSTANTS osc, dac, inlet

MCWires == {<<osc, dac>>, <<osc, inlet>>, <<inlet, dac>>}
=============================================================================
