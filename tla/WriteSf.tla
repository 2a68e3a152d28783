------------------------------ MODULE WriteSf -------------------------------
(***************************************************************************)
(* writesf~ (packages/dtd/c/src/writesf.c) and the method of its disk       *)
(* thread (dtd_thread_write of dtd_thread.c).  The DSP tick records into    *)
(* one of two communication buffers and gives it away when it is full; the  *)
(* disk thread writes the other one to the file and, once is_eof is set,    *)
(* the current one too.  There is no lock: FTS and the disk thread          *)
(* interleave between any two accesses to the shared fields.                *)
(*                                                                          *)
(* The unit of a buffer is a tick, of which the size of the buffers is a    *)
(* multiple.  Threads come and go as in ThreadManager; here there is one,   *)
(* which calls the method while is_dead is not set.                         *)
(***************************************************************************)
EXTENDS Naturals, Sequences, SequencesExt

CONSTANTS Size,      \* ticks of a communication buffer
          MaxTicks,  \* bound on the ticks recorded
          MaxOpen,   \* bounds on the messages
          MaxOrders

ASSUME WriteAssumption == /\ Size \in Nat \ {0}
                          /\ {MaxTicks, MaxOpen, MaxOrders} \subseteq Nat

VARIABLES slot, full, end_index,   \* the fields of com_buffer[0] and [1]
          buffer_index, write_index, is_open, is_started, is_eof,
          file,                    \* the ticks in the file opened last
          is_dead,                 \* of the thread function
          fpc,                     \* where FTS is in a tick or in a stop
          tpc, target, wfile, level, \* the disk thread and the locals of its method
          opened, orders,          \* messages so far
          recorded,                \* ticks recorded since the last close
          overrun, raced, failed   \* histories, see FileFaithful

bufferVars == <<slot, full, end_index>>
indexVars  == <<buffer_index, write_index>>
diskVars   == <<tpc, target, wfile, level>>
countVars  == <<opened, orders>>
vars == <<bufferVars, indexVars, is_open, is_started, is_eof, file, is_dead, fpc, diskVars,
          countVars, recorded, overrun, raced, failed>>

Buffers == {0, 1}
Other(b) == (b + 1) % 2

\* A tick is named by its number; 0 is a slot that holds none.
Init == /\ slot = [b \in Buffers |-> [i \in 1..Size |-> 0]]
        /\ full = [b \in Buffers |-> FALSE]
        /\ end_index = [b \in Buffers |-> 0]
        /\ buffer_index = 0 /\ write_index = 0
        /\ is_open = FALSE /\ is_started = FALSE /\ is_eof = FALSE
        /\ file = <<>> /\ is_dead = TRUE
        /\ fpc = "idle"
        /\ tpc = "sleep" /\ target = 0 /\ wfile = 0 /\ level = 0
        /\ opened = 0 /\ orders = 0
        /\ recorded = 0 /\ overrun = FALSE /\ raced = FALSE /\ failed = FALSE

-----------------------------------------------------------------------------
(* The messages, between two ticks.                                         *)

\* writesf_close: what is still in the buffers is dropped.
CloseFile == /\ full' = [b \in Buffers |-> FALSE]
             /\ end_index' = [b \in Buffers |-> 0]
             /\ is_started' = FALSE /\ is_eof' = FALSE
             /\ write_index' = 0

\* The record begins anew; a method that is running goes on.
Restart == /\ recorded' = 0
           /\ overrun' = FALSE
           /\ raced' = (tpc # "sleep")
           /\ failed' = FALSE

Close == /\ fpc = "idle" /\ is_open
         /\ CloseFile /\ Restart
         /\ is_open' = FALSE /\ is_dead' = TRUE
         /\ UNCHANGED <<slot, buffer_index, file, fpc, diskVars, countVars>>

\* writesf_open of a file that can be written: an open file is closed first.
\* (Without such a file it is a Close.)
Open == /\ fpc = "idle" /\ opened < MaxOpen
        /\ opened' = opened + 1
        /\ IF is_open THEN CloseFile /\ Restart
           ELSE UNCHANGED <<full, end_index, is_started, is_eof, write_index, recorded,
                            overrun, raced, failed>>
        /\ file' = <<>>
        /\ is_open' = TRUE /\ is_dead' = FALSE
        /\ UNCHANGED <<slot, buffer_index, fpc, diskVars, orders>>

Order == fpc = "idle" /\ orders < MaxOrders /\ orders' = orders + 1
OrderUnchanged == UNCHANGED <<bufferVars, indexVars, is_open, file, is_dead, diskVars, opened,
                              recorded, overrun, raced, failed>>

Start == Order /\ is_started' = TRUE /\ OrderUnchanged /\ UNCHANGED <<is_eof, fpc>>

Pause == Order /\ is_started' = ~is_started /\ OrderUnchanged /\ UNCHANGED <<is_eof, fpc>>

\* writesf_stop: "tell thread writer to write all buffer".
Stop == /\ Order
        /\ is_eof' = TRUE
        /\ fpc' = IF full[buffer_index] THEN "stopped" ELSE "stop_mark"
        /\ OrderUnchanged /\ UNCHANGED is_started

Messages == Close \/ Open \/ Start \/ Pause \/ Stop

-----------------------------------------------------------------------------
(* writesf_dsp, and the end of writesf_stop.                                *)

\* The tick is stored; a buffer that is still full is overrun.
TickStore == /\ fpc = "idle" /\ is_started /\ recorded < MaxTicks
             /\ slot' = [slot EXCEPT ![buffer_index][write_index + 1] = recorded + 1]
             /\ recorded' = recorded + 1
             /\ overrun' = (overrun \/ full[buffer_index])
             /\ write_index' = write_index + 1
             /\ fpc' = IF write_index' + 1 > Size THEN "tick_mark" ELSE "idle"
             /\ UNCHANGED <<full, end_index, buffer_index, is_open, is_started, is_eof, file,
                            is_dead, diskVars, countVars, raced, failed>>

SetFull == /\ fpc \in {"tick_mark", "stop_mark"}
           /\ full' = [full EXCEPT ![buffer_index] = TRUE]
           /\ fpc' = IF fpc = "tick_mark" THEN "tick_level" ELSE "stop_level"
           /\ UNCHANGED <<slot, end_index, indexVars, is_open, is_started, is_eof, file,
                          is_dead, diskVars, countVars, recorded, overrun, raced, failed>>

SetEnd == /\ fpc \in {"tick_level", "stop_level"}
          /\ end_index' = [end_index EXCEPT ![buffer_index] = write_index]
          /\ fpc' = IF fpc = "tick_level" THEN "swap" ELSE "stopped"
          /\ UNCHANGED <<slot, full, indexVars, is_open, is_started, is_eof, file, is_dead,
                         diskVars, countVars, recorded, overrun, raced, failed>>

\* Mutant of Swap: the next tick is stored behind the end of the buffer.
Swap_KeepIndex == /\ fpc = "swap"
                  /\ buffer_index' = Other(buffer_index)
                  /\ write_index' = write_index
                  /\ fpc' = "idle"
                  /\ overrun' = (overrun \/ full[Other(buffer_index)])
                  /\ UNCHANGED <<bufferVars, is_open, is_started, is_eof, file, is_dead,
                                 diskVars, countVars, recorded, raced, failed>>

\* Both buffers full: the disk thread would write this one, the newer, first.
Swap == /\ fpc = "swap"
        /\ buffer_index' = Other(buffer_index) /\ write_index' = 0
        /\ fpc' = "idle"
        /\ overrun' = (overrun \/ full[Other(buffer_index)])
        /\ UNCHANGED <<bufferVars, is_open, is_started, is_eof, file, is_dead, diskVars,
                       countVars, recorded, raced, failed>>

Stopped == /\ fpc = "stopped"
           /\ is_started' = FALSE /\ write_index' = 0
           /\ fpc' = "idle"
           /\ UNCHANGED <<bufferVars, buffer_index, is_open, is_eof, file, is_dead, diskVars,
                          countVars, recorded, overrun, raced, failed>>

Handler == SetFull \/ SetEnd \/ Swap \/ Stopped

-----------------------------------------------------------------------------
(* thread_manager_run_thread and dtd_thread_write.                          *)

ftsVars == <<slot, indexVars, is_open, is_started, is_eof, is_dead, fpc, countVars, recorded,
             overrun>>

Wake == /\ tpc = "sleep" /\ ~is_dead
        /\ tpc' = "other"
        /\ UNCHANGED <<ftsVars, full, end_index, file, target, wfile, level, raced, failed>>

\* The call of fts_audiofile_write takes the file and the level of the buffer.
\* The race is lost when FTS has marked the buffer and not yet told its level,
\* and when the current buffer goes before a full other one.
Begin(b, next) == /\ target' = b /\ wfile' = opened /\ level' = end_index[b]
                  /\ tpc' = next
                  /\ raced' = \/ raced
                              \/ b = buffer_index /\ fpc \in {"tick_level", "stop_level"}
                              \/ b = buffer_index /\ full[Other(b)]

\* Mutant of WriteOther: a buffer is written whether or not it is full.
WriteOther_Always == /\ tpc = "other"
                     /\ Begin(Other(buffer_index), "write_other")
                     /\ UNCHANGED <<ftsVars, full, end_index, file, failed>>

WriteOther == /\ tpc = "other"
              /\ IF full[Other(buffer_index)]
                 THEN Begin(Other(buffer_index), "write_other")
                 ELSE tpc' = "eof" /\ UNCHANGED <<target, wfile, level, raced>>
              /\ UNCHANGED <<ftsVars, full, end_index, file, failed>>

\* Mutant of WriteCurrent: the second buffer is not flushed.
WriteCurrent_Not == /\ tpc = "eof" /\ tpc' = "sleep"
                    /\ UNCHANGED <<ftsVars, full, end_index, file, target, wfile, level, raced,
                                   failed>>

\* "this is eof so I flush the second buffer"
WriteCurrent == /\ tpc = "eof"
                /\ IF is_eof /\ full[buffer_index]
                   THEN Begin(buffer_index, "write_current")
                   ELSE tpc' = "sleep" /\ UNCHANGED <<target, wfile, level, raced>>
                /\ UNCHANGED <<ftsVars, full, end_index, file, failed>>

Closed == ~is_open \/ wfile # opened

Sleep == tpc' = "sleep" /\ target' = 0 /\ wfile' = 0 /\ level' = 0

\* fts_audiofile_write returns: sf_write_float may have written less than it was
\* given (a full disk), and nobody looks at the result.  On a file that was
\* closed under it nothing is written, or the cancellation ends the thread.
WriteFile ==
  /\ tpc \in {"write_other", "write_current"}
  /\ \/ /\ ~Closed
        /\ \E n \in 0..level : /\ file' = file \o SubSeq(slot[target], 1, n)
                               /\ failed' = (failed \/ n < level)
     \/ Closed /\ UNCHANGED <<file, failed>>
  /\ \/ /\ tpc' = IF tpc = "write_other" THEN "empty_other" ELSE "empty_current"
        /\ UNCHANGED <<target, wfile, level>>
     \/ Closed /\ Sleep
  /\ UNCHANGED <<ftsVars, full, end_index, raced>>

SetEmpty == /\ tpc \in {"empty_other", "empty_current"}
            /\ full' = [full EXCEPT ![target] = FALSE]
            /\ tpc' = IF tpc = "empty_other" THEN "zero_other" ELSE "zero_current"
            /\ UNCHANGED <<ftsVars, end_index, file, target, wfile, level, raced, failed>>

\* The race is lost when FTS has marked the buffer again.
SetZero == /\ tpc \in {"zero_other", "zero_current"}
           /\ end_index' = [end_index EXCEPT ![target] = 0]
           /\ raced' = (raced \/ full[target])
           /\ tpc' = IF tpc = "zero_other" THEN "eof" ELSE "sleep"
           /\ target' = 0 /\ wfile' = 0 /\ level' = 0
           /\ UNCHANGED <<ftsVars, full, file, failed>>

Disk == Wake \/ WriteOther \/ WriteCurrent \/ WriteFile \/ SetEmpty \/ SetZero

Next == Messages \/ TickStore \/ Handler \/ Disk

\* A handler that has begun comes to its end and the disk thread is
\* scheduled; nobody has to send a message, and recording may stop.
Fairness == WF_vars(Handler) /\ WF_vars(Disk)

Spec == Init /\ [][Next]_vars /\ Fairness

-----------------------------------------------------------------------------

\* The fields hold values of their types; a tick that is stored lies inside
\* its buffer.
TypeOK == /\ {is_open, is_started, is_eof, is_dead, overrun, raced, failed} \subseteq BOOLEAN
          /\ \A b \in Buffers : /\ slot[b] \in [1..Size -> 0..MaxTicks]
                                /\ full[b] \in BOOLEAN
                                /\ end_index[b] \in 0..Size
          /\ {buffer_index, target} \subseteq Buffers
          /\ write_index \in 0..(IF fpc = "idle" THEN Size - 1 ELSE Size)
          /\ level \in 0..Size /\ wfile \in 0..opened
          /\ file \in Seq(0..MaxTicks)
          /\ fpc \in {"idle", "tick_mark", "tick_level", "swap",
                      "stop_mark", "stop_level", "stopped"}
          /\ tpc \in {"sleep", "other", "eof", "write_other", "write_current", "empty_other",
                      "empty_current", "zero_other", "zero_current"}
          /\ recorded \in 0..MaxTicks /\ opened \in 0..MaxOpen /\ orders \in 0..MaxOrders

Numbers(n) == [i \in 1..n |-> i]

\* The file holds the ticks in the order in which they were recorded, none
\* missing and none twice, however stops, pauses and restarts fall into the
\* work of the disk thread; a tick that is not in the file is still in a buffer
\* that will be written: in the current one, or below the level of a full one.
\* Not promised after an overrun (the tick does not test full), nor when the
\* race is lost (Begin, SetZero), nor after a close in the middle of the method,
\* nor after a short or failed write: its buffer is marked empty all the same.
InBuffer(t) == \/ \E i \in 1..write_index : slot[buffer_index][i] = t
               \/ \E b \in Buffers : \E i \in 1..end_index[b] : full[b] /\ slot[b][i] = t
FileFaithful == ~overrun /\ ~raced /\ ~failed /\ is_open =>
                  /\ file = Numbers(Len(file))
                  /\ \A t \in 1..recorded : Contains(file, t) \/ InBuffer(t)

\* A stop (or a pause at the end of a buffer, which leaves nothing in the
\* current one) was the last message.
AtRest == ~is_started /\ write_index = 0

\* What was recorded before a stop reaches the file, the last buffer
\* included, if the file is not closed, recording not started again and every
\* write complete.
StopFlushes == is_open /\ AtRest ~>
                 \/ Len(file) = recorded
                 \/ is_started \/ ~is_open \/ overrun \/ raced \/ failed

\* A stop makes the disk thread write all that was recorded, in order, as long
\* as the system takes what it is given: "tell thread writer to write all
\* buffer" (writesf_stop).
StopWritesAll == is_open /\ AtRest ~>
                   \/ file = Numbers(recorded)
                   \/ is_started \/ ~is_open \/ overrun \/ failed
=============================================================================
