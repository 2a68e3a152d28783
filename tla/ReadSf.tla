------------------------------- MODULE ReadSf -------------------------------
(***************************************************************************)
(* readsf~ (packages/dtd/c/src/readsf.c) and the method of its disk thread  *)
(* (dtd_thread_read of dtd_thread.c).  Two communication buffers lie        *)
(* between them, with no lock: the disk thread fills the one FTS does not   *)
(* use, the DSP tick empties the other one.  FTS (ticks, messages, the      *)
(* alarm at the end of the file) is one thread; the disk thread interleaves *)
(* with it between any two accesses to the shared fields.  Stores are seen  *)
(* in program order.                                                        *)
(*                                                                          *)
(* The creation and cancellation of the thread are ThreadManager's; here    *)
(* there is one thread, which calls the method while is_dead is not set.    *)
(***************************************************************************)
EXTENDS Integers

CONSTANTS Tick,      \* n_tick: frames of a DSP tick
          Size,      \* frames of a communication buffer (8192 in the code)
          Lengths,   \* lengths of the sound files, in frames
          Rest,      \* ticks the disk thread sleeps between two calls (34: 50 ms)
          MaxOpen,   \* bound on the files opened
          MaxCalm,   \* bounds on the start, stop and pause messages
          MaxHasty

\* With a sleep of one tick only, the disk thread could fill a buffer again
\* that a tick has marked empty between its two stores (PlaysInOrder).
ASSUME ReadAssumption == /\ {Tick, Size, MaxOpen} \subseteq Nat \ {0}
                         /\ Rest \in Nat /\ Rest >= 2
                         /\ Size % Tick = 0
                         /\ Lengths \subseteq Nat /\ {MaxCalm, MaxHasty} \subseteq Nat

VARIABLES calm,                     \* the environment, see Init
          slot, full, end_index,    \* the fields of com_buffer[0] and [1]
          buffer_index, read_index, is_open, is_started, is_eof,
          sf, length, pos,          \* the file opened last, its length and position
          is_dead,                  \* of the thread function
          alarm,                    \* readsf_eof_alarm is in the time base
          dpc,                      \* where the DSP tick is
          tpc, target, rfile, size, \* the disk thread and the locals of its method
          rest,                     \* ticks it still sleeps
          opened, orders,           \* messages so far
          heard                     \* the history of PlaysInOrder

bufferVars == <<slot, full, end_index>>
indexVars  == <<buffer_index, read_index>>
fileVars   == <<sf, length, pos>>
diskVars   == <<tpc, target, rfile, size, rest>>
userVars   == <<is_open, is_dead, opened, orders>>
vars == <<calm, bufferVars, indexVars, userVars, is_started, is_eof, fileVars, alarm,
          dpc, diskVars, heard>>

Buffers == {0, 1}
Other(b) == (b + 1) % 2

\* A frame of a buffer: frame i of the file f; silence; or what fts_malloc or
\* a read of a closed file leaves there.
Silence == <<0, 0>>
Junk    == <<0, 1>>
Frame   == {Silence, Junk} \cup (1..MaxOpen) \X Nat

\* In a calm environment the disk thread really sleeps Rest ticks between two
\* calls, and nobody closes the file while the method runs or the alarm is
\* due; the code assumes the first and leaves the second to the user.
Init == /\ calm \in BOOLEAN
        /\ slot = [b \in Buffers |-> [i \in 0..Size - 1 |-> Junk]]
        /\ full = [b \in Buffers |-> FALSE]
        /\ end_index = [b \in Buffers |-> 0]
        /\ buffer_index = 0 /\ read_index = 0
        /\ is_open = FALSE /\ is_started = FALSE /\ is_eof = FALSE
        /\ sf = 0 /\ length = 0 /\ pos = 0
        /\ is_dead = TRUE /\ alarm = FALSE
        /\ dpc = "idle"
        /\ tpc = "sleep" /\ target = 0 /\ rfile = 0 /\ size = 0 /\ rest = 0
        /\ opened = 0 /\ orders = 0
        /\ heard = 0

-----------------------------------------------------------------------------
(* The messages.                                                            *)

Spoilt == -1

\* Messages are handled between two ticks.
Between == dpc = "idle"

\* Mutant of Cleared: the old sound stays in the buffers.
Cleared_Not == slot

Cleared == [b \in Buffers |-> [i \in 0..Size - 1 |-> Silence]]

\* readsf_close, which does not reset end_index, read_index and is_eof.
CloseFile == /\ slot' = Cleared
             /\ full' = [b \in Buffers |-> FALSE]
             /\ is_started' = FALSE

Close == /\ Between /\ is_open
         /\ calm => tpc = "sleep" /\ ~alarm
         /\ CloseFile
         /\ is_open' = FALSE /\ is_dead' = TRUE
         /\ heard' = Spoilt
         /\ UNCHANGED <<calm, end_index, indexVars, is_eof, fileVars, alarm, dpc, diskVars,
                        opened, orders>>

\* readsf_open of a valid file: an open file is closed first.  (Without a
\* valid file it is a Close.)
Open(len) == /\ Between /\ opened < MaxOpen
             /\ calm /\ is_open => tpc = "sleep" /\ ~alarm
             /\ IF is_open THEN CloseFile ELSE UNCHANGED <<slot, full, is_started>>
             /\ heard' = IF is_open THEN Spoilt ELSE heard
             /\ sf' = sf + 1 /\ length' = len /\ pos' = 0
             /\ is_open' = TRUE /\ is_dead' = FALSE
             /\ opened' = opened + 1
             /\ UNCHANGED <<calm, end_index, indexVars, is_eof, alarm, dpc, diskVars, orders>>

Order == /\ Between
         /\ orders < IF calm THEN MaxCalm ELSE MaxHasty
         /\ orders' = orders + 1
OrderUnchanged == UNCHANGED <<calm, bufferVars, buffer_index, is_eof, is_open, is_dead,
                              opened, fileVars, alarm, dpc, diskVars>>

Start == Order /\ is_started' = TRUE /\ OrderUnchanged /\ UNCHANGED <<read_index, heard>>

\* readsf_stop: the next start does not begin at the head of the file.
Stop == /\ Order
        /\ is_started' = FALSE /\ read_index' = 0
        /\ heard' = Spoilt
        /\ OrderUnchanged

\* readsf_pause.  A pause in an underrun leaves a buffer that was filled but
\* marked empty to be filled again.
Pause == /\ Order /\ is_started' = ~is_started
         /\ heard' = IF is_started /\ (\A b \in Buffers : ~full[b]) THEN Spoilt ELSE heard
         /\ OrderUnchanged /\ UNCHANGED read_index

-----------------------------------------------------------------------------
(* readsf_dsp, cut where the disk thread may step in between.               *)

Enough(b) == end_index[b] >= read_index + Tick

\* The time base runs the alarm before the graph.
BeginTick == /\ Between /\ ~alarm
             /\ rest' = IF rest > 0 THEN rest - 1 ELSE 0
             /\ UNCHANGED <<calm, slot, end_index, indexVars, userVars, is_eof, fileVars,
                            tpc, target, rfile, size, heard>>

TickStopped == /\ BeginTick /\ ~is_started
               /\ UNCHANGED <<full, is_started, alarm, dpc>>

\* Mutant of Ended: the buffers are not looked at.
Ended_Early == is_eof

Ended == is_eof /\ \A b \in Buffers : ~full[b]

TickEof == /\ BeginTick /\ is_started /\ Ended
           /\ is_started' = FALSE /\ alarm' = TRUE
           /\ UNCHANGED <<full, dpc>>

TickFirst == /\ BeginTick /\ is_started /\ ~Ended
             /\ IF Enough(buffer_index)
                THEN dpc' = "copy" /\ UNCHANGED full
                ELSE dpc' = "second" /\ full' = [full EXCEPT ![buffer_index] = FALSE]
             /\ UNCHANGED <<is_started, alarm>>

TickSecond == /\ dpc = "second"
              /\ IF Enough(Other(buffer_index))
                 THEN dpc' = "copy" /\ buffer_index' = Other(buffer_index)
                 ELSE dpc' = "silence" /\ UNCHANGED buffer_index
              /\ UNCHANGED <<calm, bufferVars, read_index, userVars, is_started, is_eof,
                             fileVars, alarm, diskVars, heard>>

TickSilence == /\ dpc = "silence"
               /\ full' = [full EXCEPT ![Other(buffer_index)] = FALSE]
               /\ dpc' = "idle"
               /\ UNCHANGED <<calm, slot, end_index, indexVars, userVars, is_started, is_eof,
                              fileVars, alarm, diskVars, heard>>

\* Mutant of Emptied: the buffer that was played keeps its level.
Emptied_Level == end_index

Emptied == [end_index EXCEPT ![buffer_index] = 0]

\* Mutant of LastTick: the tick that was just copied is not counted.
LastTick_Late == read_index + Tick > Size

LastTick == read_index + 2 * Tick > Size

\* The tick is copied to the outlets, and a buffer with no further one in it
\* is given back.
TickCopy == /\ dpc = "copy" /\ dpc' = "idle"
            /\ heard' = IF heard = Spoilt THEN Spoilt ELSE heard + Tick
            /\ IF LastTick
               THEN /\ full' = [full EXCEPT ![buffer_index] = FALSE]
                    /\ end_index' = Emptied
                    /\ buffer_index' = Other(buffer_index)
                    /\ read_index' = 0
               ELSE /\ read_index' = read_index + Tick
                    /\ UNCHANGED <<full, end_index, buffer_index>>
            /\ UNCHANGED <<calm, slot, userVars, is_started, is_eof, fileVars, alarm,
                           diskVars>>

\* readsf_eof_alarm: bang, seek, reset.  read_index stays in the middle of
\* the buffer when the last chunk was a part of one, and a method that is
\* still running sets is_eof again: both spoil the next pass over the file.
EofAlarm == /\ Between /\ alarm
            /\ alarm' = FALSE
            /\ pos' = IF is_open THEN 0 ELSE pos
            /\ is_eof' = FALSE
            /\ heard' = IF heard # Spoilt /\ read_index = 0 /\ tpc = "sleep" THEN 0 ELSE Spoilt
            /\ UNCHANGED <<calm, bufferVars, indexVars, userVars, is_started, sf, length, dpc,
                           diskVars>>

Ticks == TickStopped \/ TickEof \/ TickFirst \/ TickSecond \/ TickSilence \/ TickCopy
Fts == \/ Ticks \/ EofAlarm \/ Close \/ Start \/ Stop \/ Pause
       \/ \E len \in Lengths : Open(len)

-----------------------------------------------------------------------------
(* thread_manager_run_thread and dtd_thread_read.                           *)

ftsVars == <<calm, indexVars, userVars, is_started, alarm, dpc, heard>>

Wake == /\ tpc = "sleep" /\ ~is_dead /\ (calm => rest = 0)
        /\ tpc' = "choose"
        /\ UNCHANGED <<ftsVars, bufferVars, is_eof, fileVars, target, rfile, size, rest>>

\* The method returns.
Sleep == /\ tpc' = "sleep"
         /\ rest' = IF calm THEN Rest ELSE 0
         /\ target' = 0 /\ rfile' = 0 /\ size' = 0

\* "get buffer not used by fts"
Unused == Other(buffer_index)

Choose == /\ tpc = "choose"
          /\ IF full[Unused]
             THEN Sleep
             ELSE /\ target' = Unused /\ rfile' = sf
                  /\ tpc' = "read"
                  /\ UNCHANGED <<rest, size>>
          /\ UNCHANGED <<ftsVars, bufferVars, is_eof, fileVars>>

Closed(f) == ~is_open \/ f # sf

\* fts_audiofile_read returns: a full buffer, or what is left of the file.
ReadFile == /\ tpc = "read" /\ ~Closed(rfile)
            /\ LET n == IF length - pos < Size THEN length - pos ELSE Size
               IN  /\ size' = n
                   /\ pos' = pos + n
                   /\ slot' = [slot EXCEPT ![target] =
                                 [i \in 0..Size - 1 |-> IF i < n THEN <<sf, pos + i + 1>>
                                                                 ELSE @[i]]]
            /\ tpc' = "full"
            /\ UNCHANGED <<ftsVars, full, end_index, is_eof, sf, length, target, rfile, rest>>

\* The file was closed under the method: any outcome, or the cancellation.
ReadClosed == /\ tpc = "read" /\ Closed(rfile)
              /\ \/ /\ size' \in {0, Size}
                    /\ slot' = IF size' = 0 THEN slot
                               ELSE [slot EXCEPT ![target] = [i \in 0..Size - 1 |-> Junk]]
                    /\ tpc' = "full"
                    /\ UNCHANGED <<target, rfile, rest>>
                 \/ Sleep /\ UNCHANGED slot
              /\ UNCHANGED <<ftsVars, full, end_index, is_eof, fileVars>>

SetFull == /\ tpc = "full"
           /\ full' = [full EXCEPT ![target] = TRUE]
           /\ tpc' = "end"
           /\ UNCHANGED <<ftsVars, slot, end_index, is_eof, fileVars, target, rfile, size, rest>>

SetEnd == /\ tpc = "end"
          /\ end_index' = [end_index EXCEPT ![target] = size]
          /\ IF size = 0 THEN tpc' = "eof" /\ UNCHANGED <<target, rfile, size, rest>> ELSE Sleep
          /\ UNCHANGED <<ftsVars, slot, full, is_eof, fileVars>>

\* Mutant of SetEof: the end of the file is not told.
SetEof_Not == /\ tpc = "eof" /\ Sleep
              /\ UNCHANGED <<ftsVars, bufferVars, is_eof, fileVars>>

SetEof == /\ tpc = "eof"
          /\ is_eof' = TRUE
          /\ Sleep
          /\ UNCHANGED <<ftsVars, bufferVars, fileVars>>

Disk == Wake \/ Choose \/ ReadFile \/ ReadClosed \/ SetFull \/ SetEnd \/ SetEof

Next == Fts \/ Disk

\* Audio runs: a tick always comes.  The disk thread is scheduled.  Nobody
\* has to send a message.
Fairness == WF_vars(Ticks) /\ WF_vars(EofAlarm) /\ WF_vars(Disk)

Spec == Init /\ [][Next]_vars /\ Fairness

-----------------------------------------------------------------------------

\* The fields hold values of their types; a tick that is read lies inside its
\* buffer and begins at a multiple of the tick.
TypeOK == /\ {calm, is_open, is_started, is_eof, is_dead, alarm} \subseteq BOOLEAN
          /\ \A b \in Buffers : /\ slot[b] \in [0..Size - 1 -> Frame]
                                /\ full[b] \in BOOLEAN
                                /\ end_index[b] \in 0..Size
          /\ buffer_index \in Buffers /\ target \in Buffers
          /\ read_index \in 0..Size - Tick /\ read_index % Tick = 0
          /\ sf \in 0..MaxOpen /\ rfile \in 0..MaxOpen
          /\ length \in Lengths \cup {0} /\ pos \in 0..length
          /\ size \in 0..Size /\ rest \in 0..Rest
          /\ dpc \in {"idle", "second", "silence", "copy"}
          /\ tpc \in {"sleep", "choose", "read", "full", "end", "eof"}
          /\ opened \in 0..MaxOpen /\ orders \in Nat /\ heard \in Int

\* What the tick copies: the disk thread may be writing the buffer.
Copied(i) == slot[buffer_index][read_index + i]
Torn == tpc = "read" /\ target = buffer_index /\ pos < length

\* A tick that is copied holds the frames that follow those of the tick
\* before, and the disk thread is not writing them: no frame is skipped,
\* repeated or torn, whatever the disk is late by (readsf_dsp and
\* dtd_thread_read share end_index and full without a lock).  heard: the
\* frames played so far; spoilt by what makes the code lose its place: a
\* stop, a close, a pause in an underrun, a last chunk that is not a whole
\* buffer and a method that runs during the alarm.
PlaysInOrder == dpc = "copy" /\ calm /\ heard # Spoilt =>
                  /\ ~Torn
                  /\ \A i \in 0..Tick - 1 : Copied(i) = <<sf, heard + i + 1>>

\* The end of the file is signalled when every whole tick of the file was
\* played, neither while a chunk is still in a buffer nor in an underrun.
EofIsReal == alarm /\ calm /\ heard # Spoilt => heard + Tick > length

\* After a close and another open nothing of the old file is heard, and the
\* disk thread reads no file that was closed: the thread that outlives
\* readsf_close until its cancellation finds is_dead set.
OldFileIsGone ==
  calm => /\ dpc = "copy" => \A i \in 0..Tick - 1 :
                               Copied(i) \in {Silence} \cup {sf} \X (1..length)
          /\ tpc = "read" => ~Closed(rfile)

\* A started object comes to the end of its file, or is stopped.
EofComes == calm /\ is_started /\ is_open ~> ~is_started \/ ~is_open
=============================================================================
