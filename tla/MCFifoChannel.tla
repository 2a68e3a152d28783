--------------------------- MODULE MCFifoChannel ----------------------------
(* A fifo of Slots elements of Elem bytes, written round more than twice.   *)
EXTENDS FifoChannel
=============================================================================
