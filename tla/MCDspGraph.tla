----------------------------- MODULE MCDspGraph -----------------------------
(* Four objects with two inlets and two outlets, the first of which doubles *)
(* the vector size.  The wires lead forward on several ways, to one inlet   *)
(* from several outlets, back, to the object itself, and force an order.    *)
EXTENDS DspGraph

CONSTANTS o1, o2, o3, o4

MCObjects == {o1, o2, o3, o4}

MCResamp == [o \in Objects |-> IF o = o1 THEN 1 ELSE 0]

Signal(dst, inlet) == [dst |-> dst, inlet |-> inlet, kind |-> "signal"]
Order(dst) == [dst |-> dst, inlet |-> 1, kind |-> "order"]

MCWires == {<<o1, 1, Signal(o3, 1)>>, <<o1, 1, Signal(o4, 1)>>,
            <<o2, 1, Signal(o3, 1)>>, <<o2, 1, Signal(o3, 2)>>, <<o2, 1, Signal(o4, 1)>>,
            <<o2, 2, Signal(o3, 1)>>, <<o2, 2, Signal(o4, 1)>>,
            <<o3, 1, Signal(o4, 1)>>, <<o3, 2, Signal(o4, 2)>>,
            <<o3, 1, Signal(o2, 1)>>, <<o4, 1, Signal(o4, 1)>>,
            <<o1, 1, Order(o2)>>, <<o3, 1, Order(o4)>>, <<o4, 1, Order(o2)>>}
=============================================================================
