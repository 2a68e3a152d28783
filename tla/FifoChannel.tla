---------------------------- MODULE FifoChannel -----------------------------
(***************************************************************************)
(* One writer thread and one reader thread on one fts_fifo_t, interleaved   *)
(* at the accesses to shared memory.  The writer is the one of              *)
(* fts_thread_manager_create_thread, add_symbol_to_fifo (jack) and          *)
(* fts_midififo_get_event / fts_midififo_write: test the level, fill the    *)
(* slot at the write pointer, move the write index.  The reader has two     *)
(* forms in the code: thread_manager_main and the jack manager move the     *)
(* read index first and fetch the element afterwards through the pointer    *)
(* they kept; fts_midififo_poll fetches first and moves the index last.     *)
(*                                                                          *)
(* The content of an element is its place in the stream of all elements     *)
(* written, counted in bytes; Torn is a slot that is being filled.          *)
(***************************************************************************)
EXTENDS Fifo

CONSTANT MaxStream   \* bound on the bytes ever written (model checking)

ASSUME ChannelAssumption == MaxStream \in Nat

VARIABLES fifo,      \* the indices of the fts_fifo_t
          buffer,    \* content of every slot of fifo->buffer
          wpc,       \* the writer: "idle", "filling" or "filled" a slot
          rpc,       \* the reader: "idle", "taken" or "peeked" an element
          held,      \* the read pointer the reader keeps
          written,   \* bytes of the elements published by the writer
          consumed,  \* bytes of the elements fetched by the reader
          got        \* the element fetched last (-Elem: none yet)

vars == <<fifo, buffer, wpc, rpc, held, written, consumed, got>>
writerVars == <<wpc, written>>
readerVars == <<rpc, held, consumed, got>>

Torn == -1

Init == /\ fifo = fts_fifo_init
        /\ buffer = [o \in Offsets |-> Torn]
        /\ wpc = "idle"
        /\ rpc = "idle"
        /\ held = 0
        /\ written = 0
        /\ consumed = 0
        /\ got = -Elem

-----------------------------------------------------------------------------
(* The writer.                                                              *)

\* The level is tested and the slot at the write pointer is opened.  When
\* there is no room the writer gives up: nothing changes.
WriteBegin == /\ wpc = "idle"
              /\ written < MaxStream
              /\ HasRoom(fifo)
              /\ wpc' = "filling"
              /\ buffer' = [buffer EXCEPT ![fifo.write_index] = Torn]
              /\ UNCHANGED <<fifo, written, readerVars>>

WriteEnd == /\ wpc = "filling"
            /\ wpc' = "filled"
            /\ buffer' = [buffer EXCEPT ![fifo.write_index] = written]
            /\ UNCHANGED <<fifo, written, readerVars>>

Publish == /\ wpc = "filled"
           /\ wpc' = "idle"
           /\ fifo' = fts_fifo_incr_write(fifo)
           /\ written' = written + Elem
           /\ UNCHANGED <<buffer, readerVars>>

-----------------------------------------------------------------------------
(* The reader that moves the index first.                                   *)

Take == /\ rpc = "idle"
        /\ HasElement(fifo)
        /\ rpc' = "taken"
        /\ held' = fifo.read_index
        /\ fifo' = fts_fifo_incr_read(fifo)
        /\ UNCHANGED <<buffer, writerVars, consumed, got>>

FetchTaken == /\ rpc = "taken"
              /\ rpc' = "idle"
              /\ got' = buffer[held]
              /\ consumed' = consumed + Elem
              /\ UNCHANGED <<fifo, buffer, writerVars, held>>

(* The reader that moves the index last.                                    *)

Peek == /\ rpc = "idle"
        /\ HasElement(fifo)
        /\ rpc' = "peeked"
        /\ held' = fifo.read_index
        /\ UNCHANGED <<fifo, buffer, writerVars, consumed, got>>

\* Mutant of Consume: the read index is not moved.
Consume_Again == /\ rpc = "peeked"
                 /\ rpc' = "idle"
                 /\ got' = buffer[held]
                 /\ consumed' = consumed + Elem
                 /\ UNCHANGED <<fifo, buffer, writerVars, held>>

Consume == /\ rpc = "peeked"
           /\ rpc' = "idle"
           /\ got' = buffer[held]
           /\ consumed' = consumed + Elem
           /\ fifo' = fts_fifo_incr_read(fifo)
           /\ UNCHANGED <<buffer, writerVars, held>>

-----------------------------------------------------------------------------
Writer == WriteBegin \/ WriteEnd \/ Publish
Reader == Take \/ FetchTaken \/ Peek \/ Consume
Next == Writer \/ Reader

\* The reader is a polling loop (thread_manager_main, fts_midififo_poll from
\* the scheduler), so it always comes back; the writer writes when it likes,
\* but does not stop in the middle of a write.
Spec == Init /\ [][Next]_vars /\ WF_vars(Reader) /\ WF_vars(WriteEnd \/ Publish)

-----------------------------------------------------------------------------
(* Properties.                                                              *)

\* Type invariant: both indices stay on element boundaries inside the buffer
\* (the range the asserts of fts_fifo_read_level and _write_level rely on).
TypeOK == /\ fifo \in FifoType
          /\ buffer \in [Offsets -> Int]
          /\ wpc \in {"idle", "filling", "filled"}
          /\ rpc \in {"idle", "taken", "peeked"}
          /\ held \in Offsets
          /\ written \in Nat /\ consumed \in Nat /\ got \in Int

\* The writer is never inside the slot the reader still has a pointer to,
\* although thread_manager_main gives the slot back before it looks at it:
\* the byte fts_fifo_write_level keeps back protects exactly that slot.
NoOverwrite == (rpc # "idle" /\ wpc # "idle") => held # fifo.write_index

\* Whatever the reader fetches is the oldest element it has not fetched yet:
\* nothing is torn, lost, repeated or reordered, for both forms of reader.
InOrder == [][consumed' # consumed => got' = consumed]_vars

\* Everything published is fetched in the end: an element never gets stuck
\* behind the level test when the fifo wraps or is full.
Delivered == \A n \in {k * Elem : k \in 1 .. MaxStream \div Elem} :
               (written >= n) ~> (consumed >= n)

\* The fifo implements the bounded channel, whose capacity is the whole
\* buffer: Slots - 1 elements in the ring and one in the reader's hands.
Abstract == INSTANCE Channel WITH Unit <- Elem, Capacity <- Size,
                                  sent <- written, received <- consumed,
                                  last <- got
Implements == Abstract!ChannelSpec
=============================================================================
