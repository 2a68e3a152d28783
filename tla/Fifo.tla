-------------------------------- MODULE Fifo --------------------------------
(***************************************************************************)
(* The fixed-size fifo of fts/fifo.c: a read and a write index, in bytes,   *)
(* into a buffer of Size bytes that holds elements of Elem bytes.  There is *)
(* no mutex: "there is only one reader and one writer", each of which       *)
(* changes its own index only (include/fts/fifo.h).  The operators below    *)
(* are the five functions of the file; the modules of the fifo's users      *)
(* (FifoChannel, ThreadManager) are built from them.                        *)
(***************************************************************************)
EXTENDS Integers

CONSTANTS Elem,   \* sizeof an element (an atom, a midi fifo entry), in bytes
          Slots   \* elements the buffer has room for

\* Every user of the fifo allocates a whole number of elements.
ASSUME FifoAssumption == Elem \in Nat \ {0} /\ Slots \in Nat \ {0}

Size == Slots * Elem

\* The byte offsets at which an element of the buffer starts.
Offsets == {k * Elem : k \in 0 .. Slots - 1}

FifoType == [read_index : Offsets, write_index : Offsets]

fts_fifo_init == [read_index |-> 0, write_index |-> 0]

\* Adding size once to a negative difference of indices.
Wrapped(n) == IF n < 0 THEN n + Size ELSE n

\* The bytes that are there to be read.
fts_fifo_read_level(f) == Wrapped(f.write_index - f.read_index)

\* Mutant: no byte is kept back, so that a full fifo may be written.
fts_fifo_write_level_NoSpare(f) ==
  LET n == f.read_index - f.write_index IN IF n <= 0 THEN n + Size ELSE n

\* The bytes that may be written: one byte is kept back, so that a full fifo
\* is not taken for an empty one.
fts_fifo_write_level(f) == Wrapped(f.read_index - f.write_index - 1)

\* Mutant: the wrap test is off by one, the index may reach the end.
Incremented_Late(i) == IF i + Elem > Size THEN i + Elem - Size ELSE i + Elem

\* An index moved on by one element, wrapping at the end of the buffer.
Incremented(i) == IF i + Elem >= Size THEN i + Elem - Size ELSE i + Elem

fts_fifo_incr_read(f) == [f EXCEPT !.read_index = Incremented(f.read_index)]

fts_fifo_incr_write(f) == [f EXCEPT !.write_index = Incremented(f.write_index)]

\* Mutant of HasElement: the level test lets an empty fifo through.
HasElement_Any(f) == fts_fifo_read_level(f) >= 0

\* Mutant of HasElement: the level test holds back the last element.
HasElement_Strict(f) == fts_fifo_read_level(f) > Elem

\* The two tests every user makes before it touches the buffer.
HasElement(f) == fts_fifo_read_level(f) >= Elem
HasRoom(f)    == fts_fifo_write_level(f) >= Elem
=============================================================================
