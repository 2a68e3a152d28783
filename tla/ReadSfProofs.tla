---------------------------- MODULE ReadSfProofs ----------------------------
(***************************************************************************)
(* Proofs about ReadSf: for every size of tick, buffer and file and every   *)
(* number of messages, the indices stay inside the buffers; and if the disk *)
(* thread sleeps two ticks or more and nobody closes a file under it, the   *)
(* file is played in order and to its end, and nothing of an old file is    *)
(* heard.                                                                   *)
(***************************************************************************)
EXTENDS ReadSf, TLAPS

-----------------------------------------------------------------------------
(* The inductive invariant: types and files, in every environment.          *)

Flags == /\ calm \in BOOLEAN /\ is_open \in BOOLEAN /\ is_started \in BOOLEAN
         /\ is_eof \in BOOLEAN /\ is_dead \in BOOLEAN /\ alarm \in BOOLEAN

Stages == {"sleep", "choose", "read", "full", "end", "eof"}

Places == /\ buffer_index \in Buffers /\ target \in Buffers
          /\ read_index \in 0..Size - Tick /\ read_index % Tick = 0
          /\ size \in 0..Size /\ rest \in 0..Rest
          /\ dpc \in {"idle", "second", "silence", "copy"} /\ tpc \in Stages
          /\ orders \in Nat /\ heard \in Nat \cup {Spoilt}

\* The shared fields, and the file: the one opened last.
Shared == /\ slot \in [Buffers -> [0..Size - 1 -> Frame]]
          /\ full \in [Buffers -> BOOLEAN]
          /\ end_index \in [Buffers -> 0..Size]
File   == /\ opened \in 0..MaxOpen /\ sf = opened /\ rfile \in 0..MaxOpen
          /\ length \in Lengths \cup {0} /\ pos \in 0..length
          /\ is_open => sf > 0
          /\ is_dead <=> ~is_open

Types == Flags /\ Places /\ Shared /\ File

\* The disk thread has a file while it is awake, and the buffers hold frames
\* of that file; what was never filled lies behind every level.
Level(b) == IF tpc \in {"full", "end"} /\ target = b /\ size > end_index[b]
            THEN size ELSE end_index[b]
Own == /\ tpc # "sleep" => is_open
       /\ tpc = "read" => rfile = sf
       /\ \A b \in Buffers, i \in 0..Size - 1 :
            /\ slot[b][i] \in {Silence, Junk} \cup {sf} \X (1..length)
            /\ ~is_open => slot[b][i] \in {Silence, Junk}
            /\ slot[b][i] = Junk => i >= Level(b)
       /\ dpc = "copy" => \A i \in 0..Tick - 1 : Copied(i) # Junk

-----------------------------------------------------------------------------
(* The inductive invariant: the place in the file, while it is not lost.    *)

Clean == calm /\ heard # Spoilt

\* The buffer holds a tick.
Ready(b) == end_index[b] >= Tick

\* The frames that begin behind frame number from, in the first n places: a
\* whole buffer, or all that is left of the file.
Holds(b, from, n) == /\ \A i \in 0..n - 1 : slot[b][i] = <<sf, from + i + 1>>
                     /\ from + n <= length
                     /\ n = Size \/ from + n = length

\* The frames before the current buffer, before the other one, behind both,
\* and behind what the disk thread has read and not told yet.
Base   == heard - read_index
After  == IF Ready(buffer_index) THEN Base + end_index[buffer_index] ELSE heard
Last   == IF Ready(Unused) THEN After + end_index[Unused] ELSE After
Untold == IF tpc \in {"full", "end"} THEN size ELSE 0

\* The buffers hold the file in order: the current one, the other one, what
\* is being read.  A rest of the file that is no whole tick is dropped.
InLine == /\ ~Ready(buffer_index) => read_index = 0
          /\ Ready(buffer_index) => Holds(buffer_index, Base, end_index[buffer_index])
          /\ Ready(Unused) => Holds(Unused, After, end_index[Unused])
          /\ tpc \in {"full", "end"} /\ size > 0 => Holds(target, Last, size)
          /\ \/ pos = Last + Untold
             \/ /\ pos = length /\ Last + Untold <= length
                /\ length < Last + Untold + Tick

\* The disk thread fills a buffer in which there is no tick, and leaves alone
\* what FTS plays next.
Flight == tpc \in {"read", "full", "end", "eof"} =>
            /\ ~Ready(Unused)
            /\ target = buffer_index => ~Ready(buffer_index)

\* The end of the file: nothing is read any more, nothing waits in the other
\* buffer, and that buffer is marked until the current one is played.
AtEnd == /\ tpc = "eof" \/ (tpc \in {"full", "end"} /\ size = 0) \/ is_eof => pos = length
         /\ is_eof => /\ ~Ready(Unused)
                      /\ Enough(buffer_index) => full[Unused]
                      /\ tpc \in {"full", "end"} => size = 0
         /\ tpc \in {"end", "eof"} /\ Enough(buffer_index) => full[Unused]
         /\ alarm => is_eof /\ ~Enough(buffer_index) /\ dpc = "idle"

\* A tick that has found no sound in the current buffer: if there is some
\* now, the disk thread has just put it there and sleeps.
Missed == dpc \in {"second", "silence"} =>
            /\ is_started
            /\ Enough(buffer_index) => /\ tpc = "sleep" /\ rest > 0
                                       /\ ~is_eof /\ ~Ready(Unused)
            /\ full[buffer_index] => /\ ~Ready(Unused)
                                     /\ \/ tpc \in {"end", "eof"} /\ target = buffer_index
                                        \/ tpc = "sleep" /\ rest > 0

\* A buffer that was filled and is, or is being, marked empty by a tick that
\* came between the two stores of the disk thread: the next tick takes it
\* before the disk thread wakes up.
Stray == /\ Ready(Unused) /\ (~full[Unused] \/ dpc = "silence") =>
              /\ ~Ready(buffer_index) /\ ~full[buffer_index]
              /\ is_started /\ ~is_eof
              /\ tpc = "sleep" /\ rest >= IF dpc = "second" THEN 1 ELSE 2
         /\ tpc = "end" /\ target = Unused /\ ~full[Unused] /\ size >= Tick =>
              ~Ready(buffer_index) /\ ~full[buffer_index] /\ is_started

\* A tick that is being copied is there.
Copying == dpc = "copy" => Enough(buffer_index)

\* Before the first file.
Fresh == ~is_open => /\ ~is_eof /\ heard = 0 /\ read_index = 0 /\ length = 0
                     /\ \A b \in Buffers : ~Ready(b)

InPlace == InLine /\ Flight /\ AtEnd /\ Missed /\ Stray /\ Copying /\ Fresh

IInv == Types /\ (calm => Own) /\ (Clean => InPlace)


-----------------------------------------------------------------------------
(* Arithmetic, and the two buffers.                                         *)

\* The constants of readsf.c as numbers, and the places inside a buffer.
LEMMA Constants == /\ Tick \in Nat /\ Size \in Nat /\ Rest \in Nat /\ MaxOpen \in Nat
                   /\ Tick > 0 /\ Size > 0 /\ Rest >= 2 /\ MaxOpen > 0
                   /\ Lengths \subseteq Nat
BY ReadAssumption

\* A multiple of the tick.
LEMMA Multiple == ASSUME NEW r \in Nat, r % Tick = 0
                  PROVE  \E k \in Nat : r = k * Tick
<1> DEFINE k == r \div Tick
<1>1. r = k * Tick + (r % Tick) /\ k \in Nat
  BY Constants
<1>2. r = k * Tick
  BY <1>1, Constants
<1> HIDE DEF k
<1> QED BY <1>1, <1>2

\* A communication buffer has room for a tick.
LEMMA TickInSize == Tick <= Size
<1>1. PICK m \in Nat : Size = m * Tick
  BY Multiple, ReadAssumption
<1>2. m # 0
  BY <1>1, Constants
<1> QED BY <1>1, <1>2, Constants

\* The index behind a tick (read_index of readsf_dsp).
LEMMA NextTick == ASSUME NEW r \in Nat, r % Tick = 0 PROVE (r + Tick) % Tick = 0
<1>1. PICK k \in Nat : r = k * Tick
  BY Multiple
<1> DEFINE d == (r + Tick) \div Tick
           e == (r + Tick) % Tick
<1>2. r + Tick = d * Tick + e /\ d \in Nat /\ e \in 0..Tick - 1
  BY Constants
<1> HIDE DEF d, e
<1>3. e = (k + 1 - d) * Tick
  BY <1>1, <1>2, Constants
<1>4. k + 1 - d < 1
  BY <1>2, <1>3, Constants
<1>5. k + 1 - d > -1
  BY <1>2, <1>3, Constants
<1>6. e = 0
  BY <1>2, <1>3, <1>4, <1>5, Constants
<1> QED BY <1>6 DEF e

\* A tick behind which there is no room for another one ends the buffer
\* (the test at the end of readsf_dsp).
LEMMA EndsBuffer == ASSUME NEW r \in Nat, r % Tick = 0, r <= Size - Tick, r + 2 * Tick > Size
                    PROVE  r + Tick = Size
<1>1. PICK k \in Nat : r = k * Tick
  BY Multiple
<1>2. PICK m \in Nat : Size = m * Tick
  BY Multiple, ReadAssumption
<1>3. k * Tick <= (m - 1) * Tick /\ (k + 2) * Tick > m * Tick
  BY <1>1, <1>2, Constants
<1>4. k <= m - 1
  BY <1>3, Constants
<1>5. k + 2 > m
  BY <1>3, Constants
<1>6. k = m - 1
  BY <1>4, <1>5
<1> QED BY <1>1, <1>2, <1>6, Constants

\* The two buffers (com_buffer[0] and [1]).
LEMMA Pair == ASSUME NEW b \in Buffers
              PROVE  /\ Other(b) \in Buffers /\ Other(b) # b /\ Other(Other(b)) = b
                     /\ \A c \in Buffers : c = b \/ c = Other(b)
BY DEF Buffers, Other


-----------------------------------------------------------------------------
(* Types.                                                                   *)

\* The kinds of frames.
LEMMA Frames == /\ Silence \in Frame /\ Junk \in Frame
                /\ \A f \in 1..MaxOpen, k \in Nat : <<f, k>> \in Frame
BY DEF Frame

USE DEF vars, bufferVars, indexVars, fileVars, diskVars, userVars, ftsVars

\* readsf_close.
LEMMA TypesClose == ASSUME Types, Close PROVE Types'
<1>1. Cleared \in [Buffers -> [0..Size - 1 -> Frame]]
  BY Frames DEF Cleared
<1> QED BY <1>1 DEF Types, Flags, Places, Shared, File, Close, CloseFile, Spoilt

\* readsf_open.
LEMMA TypesOpen == ASSUME Types, NEW len \in Lengths, Open(len) PROVE Types'
<1>1. Cleared \in [Buffers -> [0..Size - 1 -> Frame]]
  BY Frames DEF Cleared
<1>2. Shared' /\ is_started' \in BOOLEAN
  BY <1>1 DEF Types, Flags, Shared, Open, CloseFile
<1>3. heard' \in Nat \cup {Spoilt}
  BY DEF Types, Places, Open, Spoilt
<1>4. File'
  BY Constants DEF Types, File, Open
<1> QED BY <1>2, <1>3, <1>4 DEF Types, Flags, Places, Open

\* readsf_start, readsf_stop, readsf_pause.
LEMMA TypesOrder == ASSUME Types, Start \/ Stop \/ Pause PROVE Types'
<1>1. read_index' \in 0..Size - Tick /\ read_index' % Tick = 0
  BY Constants, TickInSize DEF Types, Places, Start, Stop, Pause
<1>2. heard' \in Nat \cup {Spoilt} /\ orders' \in Nat
  BY DEF Types, Places, Start, Stop, Pause, Order, Spoilt
<1>3. is_started' \in BOOLEAN
  BY DEF Types, Flags, Start, Stop, Pause
<1> QED BY <1>1, <1>2, <1>3 DEF Types, Flags, Places, Shared, File, Start, Stop, Pause, Order,
                                OrderUnchanged

\* readsf_dsp.
LEMMA TypesTick == ASSUME Types, Ticks PROVE Types'
<1>1. full' \in [Buffers -> BOOLEAN]
  BY Pair DEF Types, Places, Shared, Ticks, BeginTick, TickStopped, TickEof, TickFirst, TickSecond,
              TickSilence, TickCopy
<1>2. end_index' \in [Buffers -> 0..Size] /\ slot' = slot
  <2>1. slot' = slot /\ (end_index' = end_index \/ end_index' = Emptied)
    BY DEF Ticks, BeginTick, TickStopped, TickEof, TickFirst, TickSecond, TickSilence, TickCopy
  <2>2. 0 \in 0..Size /\ end_index \in [Buffers -> 0..Size]
    BY Constants DEF Types, Shared
  <2> QED BY <2>1, <2>2 DEF Emptied
<1>3. buffer_index' \in Buffers
  BY Pair DEF Types, Places, Ticks, BeginTick, TickStopped, TickEof, TickFirst, TickSecond,
              TickSilence, TickCopy
<1>4. read_index' \in 0..Size - Tick /\ read_index' % Tick = 0
  <2>1. CASE TickCopy
    <3>1. read_index \in Nat /\ read_index <= Size - Tick
      BY Constants, TickInSize DEF Types, Places
    <3>2. (read_index + Tick) % Tick = 0 /\ 0 % Tick = 0
      BY <3>1, NextTick, Constants DEF Types, Places
    <3>3. read_index' = 0 \/ (read_index' = read_index + Tick /\ ~LastTick)
      BY <2>1 DEF TickCopy
    <3>4. CASE read_index' = 0
      BY <3>4, <3>2, Constants, TickInSize
    <3>5. CASE read_index' = read_index + Tick /\ ~LastTick
      BY <3>5, <3>2, <3>1, Constants DEF LastTick
    <3> QED BY <3>3, <3>4, <3>5
  <2>2. CASE ~TickCopy
    BY <2>2 DEF Types, Places, Ticks, BeginTick, TickStopped, TickEof, TickFirst, TickSecond,
                TickSilence
  <2> QED BY <2>1, <2>2
<1>5. heard' \in Nat \cup {Spoilt}
  BY Constants DEF Types, Places, Ticks, BeginTick, TickStopped, TickEof, TickFirst, TickSecond,
                   TickSilence, TickCopy, Spoilt
<1>6. /\ rest' \in 0..Rest
      /\ dpc' \in {"idle", "second", "silence", "copy"}
      /\ is_started' \in BOOLEAN /\ alarm' \in BOOLEAN
  <2>1. rest' = rest \/ rest' = IF rest > 0 THEN rest - 1 ELSE 0
    BY DEF Ticks, BeginTick, TickStopped, TickEof, TickFirst, TickSecond, TickSilence, TickCopy
  <2>2. rest \in 0..Rest
    BY DEF Types, Places
  <2>3. rest' \in 0..Rest
    BY <2>1, <2>2, Constants
  <2>4. dpc' \in {"idle", "second", "silence", "copy"}
    BY DEF Types, Places, Ticks, TickStopped, TickEof, TickFirst, TickSecond, TickSilence, TickCopy
  <2>5. is_started' \in BOOLEAN /\ alarm' \in BOOLEAN
    BY DEF Types, Flags, Ticks, TickStopped, TickEof, TickFirst, TickSecond, TickSilence, TickCopy
  <2> QED BY <2>3, <2>4, <2>5
<1>7. UNCHANGED <<calm, userVars, is_eof, fileVars, tpc, target, rfile, size>>
  BY DEF Ticks, BeginTick, TickStopped, TickEof, TickFirst, TickSecond, TickSilence, TickCopy
<1> QED BY <1>1, <1>2, <1>3, <1>4, <1>5, <1>6, <1>7 DEF Types, Flags, Places, Shared, File

\* readsf_eof_alarm.
LEMMA TypesAlarm == ASSUME Types, EofAlarm PROVE Types'
<1>1. heard' \in Nat \cup {Spoilt} /\ is_eof' \in BOOLEAN /\ alarm' \in BOOLEAN
  BY DEF Types, Places, EofAlarm, Spoilt
<1>2. pos' \in 0..length
  BY Constants DEF Types, File, EofAlarm
<1> QED BY <1>1, <1>2 DEF Types, Flags, Places, Shared, File, EofAlarm

\* How much of the file fts_audiofile_read gives to dtd_thread_read.
LEMMA ReadSize == ASSUME Types, ReadFile
   PROVE /\ size' \in 0..Size /\ pos' = pos + size' /\ pos' \in 0..length
         /\ size' = Size \/ pos' = length
         /\ target \in Buffers
         /\ slot' = [slot EXCEPT ![target] =
                       [i \in 0..Size - 1 |-> IF i < size' THEN <<sf, pos + i + 1>>
                                                           ELSE slot[target][i]]]
         /\ sf \in 1..MaxOpen /\ is_open /\ rfile = sf
         /\ pos \in Nat /\ length \in Nat /\ Size \in Nat
<1>1. pos \in Nat /\ length \in Nat /\ Size \in Nat /\ pos <= length
  BY Constants DEF Types, File
<1>2. sf \in 1..MaxOpen /\ is_open /\ rfile = sf /\ target \in Buffers
  BY Constants DEF Types, File, Places, ReadFile, Closed
<1>3. /\ size' = IF length - pos < Size THEN length - pos ELSE Size
      /\ pos' = pos + size'
  BY DEF ReadFile
<1>4. slot' = [slot EXCEPT ![target] =
                 [i \in 0..Size - 1 |-> IF i < size' THEN <<sf, pos + i + 1>>
                                                     ELSE slot[target][i]]]
  BY DEF ReadFile
<1> QED BY <1>1, <1>2, <1>3, <1>4

\* dtd_thread_read.
LEMMA TypesDisk == ASSUME Types, Disk PROVE Types'
<1>1. CASE Wake
  BY <1>1 DEF Wake, Types, Flags, Places, Shared, File, Stages
<1>2. CASE Choose
  <2>1. Unused \in Buffers /\ 0 \in Buffers
    BY Pair DEF Types, Places, Unused, Buffers
  <2>2. /\ target' \in Buffers /\ rfile' \in 0..MaxOpen
        /\ rest' \in 0..Rest /\ size' \in 0..Size /\ tpc' \in Stages
    BY <1>2, <2>1, Constants DEF Choose, Sleep, Types, Places, File, Stages
  <2> QED BY <1>2, <2>2 DEF Choose, Types, Flags, Places, Shared, File
<1>3. CASE ReadFile
  <2>1. slot' \in [Buffers -> [0..Size - 1 -> Frame]]
    <3>1. \A i \in 0..Size - 1 : i < size' => <<sf, pos + i + 1>> \in Frame
      BY <1>3, ReadSize, Frames
    <3> DEFINE row == [i \in 0..Size - 1 |-> IF i < size' THEN <<sf, pos + i + 1>>
                                                         ELSE slot[target][i]]
    <3>2. slot \in [Buffers -> [0..Size - 1 -> Frame]] /\ target \in Buffers
      BY DEF Types, Shared, Places
    <3>3. row \in [0..Size - 1 -> Frame]
      BY <3>1, <3>2
    <3>4. slot' = [slot EXCEPT ![target] = row]
      BY <1>3, ReadSize
    <3> QED BY <3>2, <3>3, <3>4
  <2> QED BY <1>3, <2>1, ReadSize DEF ReadFile, Types, Flags, Places, Shared, File, Stages
<1>4. CASE ReadClosed
  <2>1. slot' \in [Buffers -> [0..Size - 1 -> Frame]]
    BY <1>4, Frames DEF ReadClosed, Types, Shared, Places
  <2>2. /\ target' \in Buffers /\ rfile' \in 0..MaxOpen
        /\ rest' \in 0..Rest /\ size' \in 0..Size /\ tpc' \in Stages
    BY <1>4, Constants DEF ReadClosed, Sleep, Types, Places, File, Stages, Buffers
  <2> QED BY <1>4, <2>1, <2>2 DEF ReadClosed, Types, Flags, Places, Shared, File
<1>5. CASE SetFull
  BY <1>5 DEF SetFull, Types, Flags, Places, Shared, File, Stages
<1>6. CASE SetEnd
  <2>1. /\ target' \in Buffers /\ rfile' \in 0..MaxOpen
        /\ rest' \in 0..Rest /\ size' \in 0..Size /\ tpc' \in Stages
    BY <1>6, Constants DEF SetEnd, Sleep, Types, Places, File, Stages, Buffers
  <2> QED BY <1>6, <2>1 DEF SetEnd, Types, Flags, Places, Shared, File
<1>7. CASE SetEof
  <2>1. /\ target' \in Buffers /\ rfile' \in 0..MaxOpen
        /\ rest' \in 0..Rest /\ size' \in 0..Size /\ tpc' \in Stages
    BY <1>7, Constants DEF SetEof, Sleep, Types, Places, File, Stages, Buffers
  <2> QED BY <1>7, <2>1 DEF SetEof, Types, Flags, Places, Shared, File
<1> QED BY <1>1, <1>2, <1>3, <1>4, <1>5, <1>6, <1>7 DEF Disk


-----------------------------------------------------------------------------
(* The file whose frames the buffers hold.                                  *)

\* A frame of an open file is neither silence nor what fts_malloc left.
LEMMA Sounds == ASSUME NEW f \in Nat, f > 0, NEW k PROVE <<f, k>> # Junk /\ <<f, k>> # Silence
BY DEF Junk, Silence

\* Silence (readsf_close) is not what fts_malloc left.
LEMMA Silent == Silence # Junk
BY DEF Junk, Silence

\* Levels are numbers (end_index and size of the two threads).
LEMMA Levels == ASSUME Types, NEW b \in Buffers
   PROVE /\ end_index[b] \in Nat /\ end_index[b] <= Size
         /\ size \in Nat /\ size <= Size
         /\ Level(b) \in Nat /\ Level(b) >= end_index[b]
         /\ read_index \in Nat /\ read_index <= Size - Tick
BY Constants, TickInSize DEF Types, Shared, Places, Level

\* readsf_close leaves silence.
LEMMA OwnClose == ASSUME Types, Own, calm, Close PROVE Own'
<1>1. tpc = "sleep" /\ tpc' = tpc /\ dpc = "idle" /\ dpc' = dpc /\ slot' = Cleared
  BY DEF Close, CloseFile, Between
<1>2. \A b \in Buffers, i \in 0..Size - 1 : slot'[b][i] = Silence
  BY <1>1 DEF Cleared
<1> QED BY <1>1, <1>2, Silent DEF Own

\* readsf_open begins with silence, or with what was never filled.
LEMMA OwnOpen == ASSUME Types, Own, calm, NEW len \in Lengths, Open(len) PROVE Own'
<1>1. tpc = "sleep" /\ dpc = "idle"
  BY DEF Open, Own, Between
<1>2. UNCHANGED <<tpc, dpc, end_index, target, size>> /\ is_open'
  BY DEF Open
<1>3. CASE is_open
  <2>1. slot' = Cleared
    BY <1>3 DEF Open, CloseFile
  <2>2. \A b \in Buffers, i \in 0..Size - 1 : slot'[b][i] = Silence
    BY <2>1 DEF Cleared
  <2> QED BY <1>1, <1>2, <2>2, Silent DEF Own
<1>4. CASE ~is_open
  <2>1. slot' = slot
    BY <1>4 DEF Open
  <2>2. ASSUME NEW b \in Buffers, NEW i \in 0..Size - 1
        PROVE  /\ slot'[b][i] \in {Silence, Junk}
               /\ slot'[b][i] = Junk => i >= Level(b)'
    BY <1>1, <1>2, <1>4, <2>1 DEF Own, Level
  <2> QED BY <1>1, <1>2, <2>2 DEF Own
<1> QED BY <1>3, <1>4

\* readsf_dsp: buffers are given back, and a tick is copied that is there.
LEMMA OwnTick == ASSUME Types, Own, Ticks PROVE Own'
<1>1. UNCHANGED <<slot, sf, length, is_open, tpc, rfile, target, size>>
  BY DEF Ticks, BeginTick, TickStopped, TickEof, TickFirst, TickSecond, TickSilence, TickCopy
<1>2. end_index' = end_index \/ end_index' = Emptied
  BY DEF Ticks, BeginTick, TickStopped, TickEof, TickFirst, TickSecond, TickSilence, TickCopy
<1>3. ASSUME NEW b \in Buffers PROVE Level(b)' <= Level(b) /\ Level(b)' \in Nat
  <2>1. end_index'[b] = end_index[b] \/ end_index'[b] = 0
    BY <1>2 DEF Emptied, Types, Shared
  <2> QED BY <2>1, <1>1, Levels DEF Level
<1>4. \A b \in Buffers, i \in 0..Size - 1 : slot'[b][i] = Junk => i >= Level(b)'
  <2> SUFFICES ASSUME NEW b \in Buffers, NEW i \in 0..Size - 1, slot'[b][i] = Junk
               PROVE  i >= Level(b)'
    OBVIOUS
  <2>1. i >= Level(b)
    BY <1>1 DEF Own
  <2> QED BY <2>1, <1>3, Levels, Constants
<1>5. dpc' = "copy" => \A i \in 0..Tick - 1 : Copied(i)' # Junk
  <2> SUFFICES ASSUME dpc' = "copy", NEW i \in 0..Tick - 1 PROVE Copied(i)' # Junk
    OBVIOUS
  <2>1. /\ read_index' = read_index
        /\ \/ Enough(buffer_index) /\ buffer_index' = buffer_index
           \/ Enough(Other(buffer_index)) /\ buffer_index' = Other(buffer_index)
           \/ dpc = "copy" /\ buffer_index' = buffer_index
    BY DEF Ticks, BeginTick, TickStopped, TickEof, TickFirst, TickSecond, TickSilence, TickCopy
  <2>2. buffer_index \in Buffers /\ Other(buffer_index) \in Buffers
    BY Pair DEF Types, Places
  <2>3. CASE dpc = "copy" /\ buffer_index' = buffer_index
    BY <1>1, <2>1, <2>3 DEF Own, Copied
  <2>4. CASE \E b \in Buffers : Enough(b) /\ buffer_index' = b
    <3>1. PICK b \in Buffers : Enough(b) /\ buffer_index' = b
      BY <2>4
    <3>2. /\ read_index + i \in 0..Size - 1
          /\ read_index + i < Level(b)
      BY <3>1, Levels, Constants DEF Enough
    <3>3. slot[b][read_index + i] # Junk
      BY <3>2, Levels DEF Own
    <3> QED BY <3>1, <3>3, <1>1, <2>1 DEF Copied
  <2> QED BY <2>1, <2>2, <2>3, <2>4
<1> QED BY <1>1, <1>4, <1>5 DEF Own

\* dtd_thread_read: the disk thread fills a buffer up to its level.
LEMMA OwnRead == ASSUME Types, Own, calm, ReadFile PROVE Own'
<1>1. UNCHANGED <<end_index, sf, length, is_open, rfile, target, dpc, indexVars>> /\ tpc' = "full"
  BY DEF ReadFile
<1>2. ASSUME NEW b \in Buffers, NEW i \in 0..Size - 1
      PROVE  \/ slot'[b][i] = slot[b][i] /\ (b = target => i >= size')
             \/ \E k \in 1..length : slot'[b][i] = <<sf, k>>
  <2>1. CASE b = target /\ i < size'
    <3>1. slot'[b][i] = <<sf, pos + i + 1>>
      BY <2>1, ReadSize DEF Types, Shared
    <3>2. pos + i + 1 \in 1..length
      BY <2>1, ReadSize
    <3> QED BY <3>1, <3>2
  <2>2. CASE ~(b = target /\ i < size')
    BY <2>2, ReadSize DEF Types, Shared
  <2> QED BY <2>1, <2>2
<1>3. \A k : <<sf, k>> # Junk
  BY ReadSize, Sounds, Constants
<1>4. ASSUME NEW b \in Buffers, NEW i \in 0..Size - 1
      PROVE  /\ slot'[b][i] \in {Silence, Junk} \cup {sf} \X (1..length)
             /\ slot'[b][i] = Junk => i >= Level(b)'
  <2>1. CASE \E k \in 1..length : slot'[b][i] = <<sf, k>>
    BY <2>1, <1>3
  <2>2. CASE slot'[b][i] = slot[b][i] /\ (b = target => i >= size')
    <3>1. slot'[b][i] = Junk => i >= end_index[b]
      BY <2>2 DEF Own, Level, ReadFile
    <3>2. slot'[b][i] = Junk => i >= Level(b)'
      BY <3>1, <2>2, <1>1 DEF Level
    <3> QED BY <2>2, <3>2 DEF Own
  <2> QED BY <2>1, <2>2, <1>2
<1>5. dpc = "copy" => \A i \in 0..Tick - 1 : Copied(i)' # Junk
  <2> SUFFICES ASSUME dpc = "copy", NEW i \in 0..Tick - 1 PROVE Copied(i)' # Junk
    OBVIOUS
  <2>1. buffer_index \in Buffers /\ read_index + i \in 0..Size - 1
    BY Levels, Constants DEF Types, Places
  <2>2. slot[buffer_index][read_index + i] # Junk
    BY DEF Own, Copied
  <2>3. slot'[buffer_index][read_index + i] # Junk
    BY <2>1, <2>2, <1>2, <1>3
  <2> QED BY <2>3, <1>1 DEF Copied
<1> QED BY <1>1, <1>4, <1>5, ReadSize DEF Own


\* Nobody closes the file under the method of the disk thread.
LEMMA NotClosed == ASSUME Types, Own PROVE ~ReadClosed
BY DEF Own, ReadClosed, Closed

\* The other steps of the disk thread: levels are told, nothing is written.
LEMMA OwnDisk == ASSUME Types, Own, calm, Disk, ~ReadFile PROVE Own'
<1>1. UNCHANGED <<slot, sf, length, is_open, dpc, indexVars>>
  BY NotClosed DEF Disk, Wake, Choose, SetFull, SetEnd, SetEof
<1>2. tpc' # "sleep" => is_open
  BY NotClosed DEF Disk, Wake, Choose, SetFull, SetEnd, SetEof, Own, Types, File, Sleep
<1>3. tpc' = "read" => rfile' = sf
  BY NotClosed DEF Disk, Wake, Choose, SetFull, SetEnd, SetEof, Sleep
<1>4. ASSUME NEW b \in Buffers PROVE Level(b)' <= Level(b) /\ Level(b)' \in Nat
  <2>1. CASE SetEnd
    <3>1. /\ tpc = "end" /\ tpc' \in {"sleep", "eof"}
          /\ end_index'[b] = IF b = target THEN size ELSE end_index[b]
      BY <2>1 DEF SetEnd, Sleep, Types, Shared
    <3> QED BY <3>1, Levels DEF Level
  <2>2. CASE SetFull
    BY <2>2, Levels DEF SetFull, Level
  <2>3. CASE Wake \/ Choose \/ SetEof
    <3>1. tpc' \notin {"full", "end"} /\ end_index' = end_index /\ tpc \notin {"full", "end"}
      BY <2>3 DEF Wake, Choose, SetEof, Sleep
    <3> QED BY <3>1, Levels DEF Level
  <2> QED BY <2>1, <2>2, <2>3, NotClosed DEF Disk
<1>5. \A b \in Buffers, i \in 0..Size - 1 : slot'[b][i] = Junk => i >= Level(b)'
  <2> SUFFICES ASSUME NEW b \in Buffers, NEW i \in 0..Size - 1, slot'[b][i] = Junk
               PROVE  i >= Level(b)'
    OBVIOUS
  <2>1. i >= Level(b)
    BY <1>1 DEF Own
  <2> QED BY <2>1, <1>4, Levels, Constants
<1> QED BY <1>1, <1>2, <1>3, <1>5 DEF Own, Copied

\* What does not touch the buffers: the messages between ticks and the alarm.
LEMMA OwnOther == ASSUME Types, Own, Start \/ Stop \/ Pause \/ EofAlarm PROVE Own'
<1>1. UNCHANGED <<slot, end_index, sf, length, is_open, dpc, tpc, target, rfile, size>>
      /\ dpc = "idle"
  BY DEF Start, Stop, Pause, EofAlarm, Order, OrderUnchanged, Between
<1>2. \A b : Level(b)' = Level(b)
  BY <1>1 DEF Level
<1> QED BY <1>1, <1>2 DEF Own

-----------------------------------------------------------------------------
(* The place in the file.                                                   *)

\* What the cases below need of the types, as facts about the two buffers.
LEMMA Basics == ASSUME Types
   PROVE /\ buffer_index \in Buffers /\ Unused \in Buffers /\ target \in Buffers
         /\ Unused # buffer_index /\ Other(buffer_index) = Unused
         /\ Other(Unused) = buffer_index
         /\ \A b \in Buffers : b = buffer_index \/ b = Unused
         /\ target = buffer_index \/ target = Unused
         /\ \A b \in Buffers : end_index[b] \in Nat /\ end_index[b] <= Size
         /\ size \in Nat /\ size <= Size
         /\ read_index \in Nat /\ read_index <= Size - Tick
         /\ pos \in Nat /\ length \in Nat /\ pos <= length
         /\ rest \in Nat
         /\ Tick \in Nat /\ Tick > 0 /\ Size \in Nat /\ Tick <= Size
<1>1. buffer_index \in Buffers /\ target \in Buffers
  BY DEF Types, Places
<1>2. pos \in Nat /\ length \in Nat /\ pos <= length /\ rest \in Nat
  BY Constants DEF Types, File, Places
<1> QED BY <1>1, <1>2, Pair, Levels, Constants, TickInSize DEF Unused

\* readsf_dsp moves nothing: no file is started, or it has come to its end.
LEMMA PlaceStopped == ASSUME Types, Clean, InPlace, TickStopped, Clean' PROVE InPlace'
<1>1. /\ UNCHANGED <<calm, slot, full, end_index, indexVars, userVars, is_started, is_eof,
                     fileVars, alarm, dpc, tpc, target, rfile, size, heard>>
      /\ ~is_started /\ dpc = "idle"
  BY DEF TickStopped, BeginTick, Between
<1>2. InLine'
  BY <1>1 DEF InPlace, InLine, Holds, Base, After, Last, Untold, Ready, Unused
<1>3. Flight' /\ AtEnd' /\ Copying' /\ Fresh'
  BY <1>1 DEF InPlace, Flight, AtEnd, Copying, Fresh, Ready, Unused, Enough
<1>4. Missed' /\ Stray'
  BY <1>1 DEF InPlace, Missed, Stray, Ready, Unused, Enough
<1> QED BY <1>2, <1>3, <1>4 DEF InPlace

\* The end of the file is found by readsf_dsp.
LEMMA PlaceEof == ASSUME Types, Clean, InPlace, TickEof, Clean' PROVE InPlace'
<1>1. /\ UNCHANGED <<calm, slot, full, end_index, indexVars, userVars, is_eof,
                     fileVars, dpc, tpc, target, rfile, size, heard>>
      /\ is_eof /\ \A b \in Buffers : ~full[b]
      /\ dpc = "idle"
  BY DEF TickEof, BeginTick, Between, Ended
<1>2. InLine'
  BY <1>1 DEF InPlace, InLine, Holds, Base, After, Last, Untold, Ready, Unused
<1>3. Flight' /\ Copying' /\ Fresh'
  BY <1>1 DEF InPlace, Flight, Copying, Fresh, Ready, Unused, Enough
<1>4. ~Enough(buffer_index)
  BY <1>1, Basics DEF InPlace, AtEnd
<1>5. AtEnd'
  BY <1>1, <1>4 DEF InPlace, AtEnd, Ready, Unused, Enough
<1>6. Missed'
  BY <1>1 DEF Missed
<1>7. Stray'
  BY <1>1, Basics DEF InPlace, Stray, AtEnd, Ready, Unused
<1> QED BY <1>2, <1>3, <1>5, <1>6, <1>7 DEF InPlace


\* A current buffer that has come to its end inside was the last one: the
\* other buffer and the disk thread have nothing (readsf_dsp, underrun).
LEMMA LastChunk == ASSUME Types, Clean, InPlace, Ready(buffer_index), ~Enough(buffer_index)
   PROVE /\ ~Ready(Unused) /\ (tpc \in {"full", "end"} => size = 0)
         /\ After = length /\ heard + Tick > length
<1>1. After = Base + end_index[buffer_index] /\ After = length
  BY Basics DEF InPlace, InLine, Holds, After, Base, Enough
<1>2. ~Ready(Unused)
  BY <1>1, Basics DEF InPlace, InLine, Holds, Ready
<1>3. tpc \in {"full", "end"} => size = 0
  BY <1>1, <1>2, Basics DEF InPlace, InLine, Holds, Last
<1>4. heard \in Nat
  BY DEF Clean, Types, Places
<1>5. heard + Tick > length
  BY <1>1, <1>4, Basics DEF Base, Enough
<1> QED BY <1>1, <1>2, <1>3, <1>5

\* The first test of readsf_dsp.
LEMMA PlaceFirst == ASSUME Types, Clean, InPlace, TickFirst, Clean' PROVE InPlace'
<1>1. /\ UNCHANGED <<calm, slot, end_index, indexVars, userVars, is_started, is_eof,
                     fileVars, alarm, tpc, target, rfile, size, heard>>
      /\ is_started /\ dpc = "idle" /\ ~alarm
      /\ rest' = IF rest > 0 THEN rest - 1 ELSE 0
  BY DEF TickFirst, BeginTick, Between
<1>2. \/ Enough(buffer_index) /\ dpc' = "copy" /\ full' = full
      \/ /\ ~Enough(buffer_index) /\ dpc' = "second"
         /\ full' = [full EXCEPT ![buffer_index] = FALSE]
  BY DEF TickFirst
<1>3. full'[Unused] = full[Unused] /\ (full'[buffer_index] => full[buffer_index])
      /\ (dpc' = "second" => ~full'[buffer_index])
  BY <1>2, Basics DEF Types, Shared
<1>4. InLine'
  BY <1>1 DEF InPlace, InLine, Holds, Base, After, Last, Untold, Ready, Unused
<1>5. Flight' /\ Fresh'
  BY <1>1 DEF InPlace, Flight, Fresh, Ready, Unused
<1>6. AtEnd'
  BY <1>1, <1>3 DEF InPlace, AtEnd, Ready, Unused, Enough
<1>7. Copying'
  BY <1>1, <1>2 DEF Copying, Enough
<1>8. Missed'
  BY <1>1, <1>2, <1>3 DEF Missed, Enough
<1>9. Stray'
  <2>1. Ready(Unused) /\ ~full[Unused] => dpc' = "second" /\ rest' >= 1
    BY <1>1, <1>2, Basics DEF InPlace, Stray, Enough, Ready
  <2> QED BY <1>1, <1>2, <1>3, <2>1 DEF InPlace, Stray, Ready, Unused
<1> QED BY <1>4, <1>5, <1>6, <1>7, <1>8, <1>9 DEF InPlace

\* The second test: the buffers change their roles, or there is an underrun.
LEMMA PlaceSwap == ASSUME Types, Clean, InPlace, TickSecond, Enough(Unused), Clean' PROVE InPlace'
<1>1. /\ UNCHANGED <<calm, slot, full, end_index, read_index, userVars, is_started, is_eof,
                     fileVars, alarm, tpc, target, rfile, size, heard, rest>>
      /\ dpc = "second" /\ dpc' = "copy" /\ buffer_index' = Unused
  BY Basics DEF TickSecond
<1>2. Ready(Unused) /\ ~Ready(buffer_index) /\ read_index = 0
  <2>1. Ready(Unused)
    BY Basics DEF Enough, Ready
  <2>2. ~Enough(buffer_index)
    BY <1>1, <2>1 DEF InPlace, Missed
  <2> QED BY <2>1, <2>2, LastChunk DEF InPlace, InLine
<1>3. /\ Unused' = buffer_index /\ ~Ready(Unused)' /\ Ready(buffer_index)'
      /\ Enough(buffer_index)' /\ ~alarm
  BY <1>1, <1>2, Basics DEF Unused, Ready, Enough, InPlace, AtEnd
<1>4. tpc \in {"sleep", "choose"} /\ ~is_eof
  BY <1>2 DEF InPlace, Flight, AtEnd, Types, Places, Stages
<1>5. heard \in Nat /\ Base' = heard /\ After' = Last /\ Last' = Last /\ After = heard
  BY <1>1, <1>2, <1>3, Basics DEF Base, After, Last, Clean, Types, Places, Ready
<1>6. InLine'
  <2>1. Holds(Unused, heard, end_index[Unused])
    BY <1>2, <1>5 DEF InPlace, InLine
  <2>2. Holds(buffer_index, Base, end_index[buffer_index])'
    BY <2>1, <1>1, <1>5 DEF Holds
  <2>3. pos = Last \/ (pos = length /\ Last <= length /\ length < Last + Tick)
    BY <1>4, <1>5, Basics DEF InPlace, InLine, Untold, Last
  <2> QED BY <1>1, <1>3, <1>4, <1>5, <2>2, <2>3, Basics DEF InLine, Untold, Last
<1>7. Flight' /\ AtEnd' /\ Missed' /\ Copying'
  BY <1>1, <1>3, <1>4 DEF Flight, AtEnd, Missed, Copying
<1>8. Stray'
  BY <1>1, <1>3, <1>4 DEF Stray
<1>9. Fresh'
  BY <1>1, <1>2, Basics DEF InPlace, Fresh
<1> QED BY <1>6, <1>7, <1>8, <1>9 DEF InPlace

\* An underrun: neither buffer has a tick.
LEMMA PlaceUnderrun == ASSUME Types, Clean, InPlace, TickSecond, ~Enough(Unused), Clean'
                       PROVE InPlace'
<1>1. /\ UNCHANGED <<calm, bufferVars, indexVars, userVars, is_started, is_eof,
                     fileVars, alarm, tpc, target, rfile, size, heard, rest>>
      /\ dpc = "second" /\ dpc' = "silence"
  BY Basics DEF TickSecond
<1>2. ~Ready(Unused)
  <2>1. CASE Ready(buffer_index)
    BY <2>1, <1>1, LastChunk DEF InPlace, Missed
  <2>2. CASE ~Ready(buffer_index)
    BY <2>2, Basics DEF InPlace, InLine, Enough, Ready
  <2> QED BY <2>1, <2>2
<1>3. InLine'
  BY <1>1 DEF InPlace, InLine, Holds, Base, After, Last, Untold, Ready, Unused
<1>4. Flight' /\ Fresh' /\ AtEnd' /\ Copying'
  BY <1>1 DEF InPlace, Flight, Fresh, AtEnd, Copying, Ready, Unused, Enough
<1>5. Missed' /\ Stray'
  BY <1>1, <1>2 DEF InPlace, Missed, Stray, Ready, Unused, Enough
<1> QED BY <1>3, <1>4, <1>5 DEF InPlace

\* Silence: the mark of the other buffer goes.
LEMMA PlaceSilence == ASSUME Types, Clean, InPlace, TickSilence, Clean' PROVE InPlace'
<1>1. /\ UNCHANGED <<calm, slot, end_index, indexVars, userVars, is_started, is_eof,
                     fileVars, alarm, tpc, target, rfile, size, heard, rest>>
      /\ dpc = "silence" /\ dpc' = "idle"
      /\ full' = [full EXCEPT ![Unused] = FALSE]
  BY Basics DEF TickSilence
<1>2. ~full'[Unused] /\ full'[buffer_index] = full[buffer_index]
  BY <1>1, Basics DEF Types, Shared
<1>3. InLine'
  BY <1>1 DEF InPlace, InLine, Holds, Base, After, Last, Untold, Ready, Unused
<1>4. Flight' /\ Fresh' /\ Copying' /\ Missed'
  BY <1>1 DEF InPlace, Flight, Fresh, Copying, Missed, Ready, Unused
<1>5. AtEnd'
  <2>1. Enough(buffer_index) => tpc = "sleep" /\ ~is_eof
    BY <1>1 DEF InPlace, Missed
  <2> QED BY <1>1, <2>1 DEF InPlace, AtEnd, Ready, Unused, Enough
<1>6. Stray'
  <2>1. tpc = "end" /\ target = Unused /\ size >= Tick =>
          ~Ready(buffer_index) /\ ~full[buffer_index] /\ is_started
    <3> SUFFICES ASSUME tpc = "end", target = Unused, size >= Tick
                 PROVE  ~Ready(buffer_index) /\ ~full[buffer_index] /\ is_started
      OBVIOUS
    <3>1. ~full[buffer_index] /\ is_started /\ ~Enough(buffer_index)
      BY <1>1, Basics DEF InPlace, Missed
    <3> QED BY <3>1, LastChunk, Basics
  <2>2. Ready(Unused) =>
          /\ ~Ready(buffer_index) /\ ~full[buffer_index] /\ is_started /\ ~is_eof
          /\ tpc = "sleep" /\ rest >= 2
    BY <1>1 DEF InPlace, Stray
  <2> QED BY <1>1, <1>2, <2>1, <2>2 DEF Stray, Ready, Unused
<1> QED BY <1>3, <1>4, <1>5, <1>6 DEF InPlace


\* A tick is copied, and another one of the buffer may follow.
LEMMA PlaceCopy == ASSUME Types, Clean, InPlace, TickCopy, ~LastTick, Clean' PROVE InPlace'
<1>1. /\ UNCHANGED <<calm, bufferVars, buffer_index, userVars, is_started, is_eof,
                     fileVars, alarm, tpc, target, rfile, size, rest>>
      /\ dpc = "copy" /\ dpc' = "idle"
      /\ heard' = heard + Tick /\ read_index' = read_index + Tick
  BY DEF TickCopy, Clean
<1>2. Ready(buffer_index) /\ Enough(buffer_index) /\ ~alarm /\ is_open
  BY <1>1, Basics DEF InPlace, Copying, AtEnd, Fresh, Enough, Ready
<1>3. heard \in Nat
  BY DEF Clean, Types, Places
<1>4. /\ \A b : Ready(b)' <=> Ready(b)
      /\ Unused' = Unused /\ Untold' = Untold /\ Base' = Base
      /\ Enough(buffer_index)' => Enough(buffer_index)
  BY <1>1, <1>3, Basics DEF Ready, Unused, Untold, Base, Enough
<1>5. After' = After /\ Last' = Last
  BY <1>1, <1>2, <1>4 DEF After, Last
<1>6. InLine'
  BY <1>1, <1>2, <1>4, <1>5 DEF InPlace, InLine, Holds
<1>7. Flight' /\ AtEnd' /\ Missed' /\ Copying' /\ Fresh'
  BY <1>1, <1>2, <1>4 DEF InPlace, Flight, AtEnd, Missed, Copying, Fresh
<1>8. Stray'
  BY <1>1, <1>2, <1>4 DEF InPlace, Stray
<1> QED BY <1>6, <1>7, <1>8 DEF InPlace

\* The last tick of a buffer is copied: the buffers change their roles.
LEMMA PlaceLast == ASSUME Types, Clean, InPlace, TickCopy, LastTick, Clean' PROVE InPlace'
<1>1. /\ UNCHANGED <<calm, slot, userVars, is_started, is_eof,
                     fileVars, alarm, tpc, target, rfile, size, rest>>
      /\ dpc = "copy" /\ dpc' = "idle"
      /\ heard' = heard + Tick /\ read_index' = 0
      /\ buffer_index' = Unused
      /\ full' = [full EXCEPT ![buffer_index] = FALSE]
      /\ end_index' = [end_index EXCEPT ![buffer_index] = 0]
  BY Basics DEF TickCopy, Clean, Emptied
<1>2. Ready(buffer_index) /\ Enough(buffer_index) /\ ~alarm /\ is_open
  BY <1>1, Basics DEF InPlace, Copying, AtEnd, Fresh, Enough, Ready
<1>3. read_index + Tick = Size
  BY Basics, EndsBuffer DEF LastTick, Types, Places
<1>4. heard \in Nat
  BY DEF Clean, Types, Places
<1>5. /\ Unused' = buffer_index /\ Untold' = Untold
      /\ full'[Unused] = full[Unused] /\ ~full'[buffer_index]
      /\ end_index'[Unused] = end_index[Unused] /\ end_index'[buffer_index] = 0
  BY <1>1, Basics DEF Unused, Untold, Types, Shared
<1>6. (Ready(buffer_index)' <=> Ready(Unused)) /\ ~Ready(Unused)'
  BY <1>1, <1>5, Basics DEF Ready
<1>7. After = heard + Tick
  BY <1>2, <1>3, <1>4, Basics DEF After, Base, Enough
<1>8. Base' = After /\ After' = Last /\ Last' = Last
  BY <1>1, <1>4, <1>5, <1>6, <1>7, Basics DEF Base, After, Last
<1>9. InLine'
  <2>1. Ready(buffer_index)' => Holds(buffer_index, Base, end_index[buffer_index])'
    BY <1>1, <1>5, <1>6, <1>8 DEF InPlace, InLine, Holds
  <2>2. tpc \in {"full", "end"} /\ size > 0 => Holds(target, Last, size)'
    BY <1>1, <1>8 DEF InPlace, InLine, Holds
  <2> QED BY <1>1, <1>5, <1>6, <1>8, <2>1, <2>2 DEF InPlace, InLine
<1>10. Flight'
  BY <1>1, <1>5, <1>6, Basics DEF InPlace, Flight
<1>11. AtEnd'
  <2>1. is_eof \/ tpc \in {"end", "eof"} => ~Ready(buffer_index)'
    BY <1>6 DEF InPlace, AtEnd, Flight
  <2>2. Enough(buffer_index)' => Ready(buffer_index)'
    BY <1>1, <1>5, Basics DEF Enough, Ready
  <2> QED BY <1>1, <1>2, <1>6, <2>1, <2>2 DEF InPlace, AtEnd
<1>12. Missed' /\ Copying' /\ Fresh'
  BY <1>1, <1>2 DEF Missed, Copying, Fresh
<1>13. Stray'
  BY <1>1, <1>2, <1>5, <1>6 DEF InPlace, Stray, Flight
<1> QED BY <1>9, <1>10, <1>11, <1>12, <1>13 DEF InPlace

\* readsf_eof_alarm: the next pass over the file begins with nothing to play.
LEMMA PlaceAlarm == ASSUME Types, Clean, InPlace, EofAlarm, Clean' PROVE InPlace'
<1>1. /\ UNCHANGED <<calm, bufferVars, indexVars, userVars, is_started, sf, length, dpc,
                     diskVars>>
      /\ dpc = "idle" /\ ~alarm' /\ ~is_eof' /\ alarm
      /\ read_index = 0 /\ tpc = "sleep" /\ heard' = 0
      /\ pos' = IF is_open THEN 0 ELSE pos
  BY DEF EofAlarm, Between, Clean
<1>2. is_open /\ ~Ready(Unused) /\ ~Ready(buffer_index)
  BY <1>1, Basics DEF InPlace, AtEnd, Fresh, Enough, Ready
<1>3. /\ \A b : Ready(b)' <=> Ready(b)
      /\ Unused' = Unused /\ Untold' = 0 /\ After' = 0 /\ Last' = 0
  BY <1>1, <1>2 DEF Ready, Unused, Untold, After, Last
<1>4. InLine'
  BY <1>1, <1>2, <1>3 DEF InLine
<1>5. Flight' /\ AtEnd' /\ Missed' /\ Copying' /\ Fresh' /\ Stray'
  BY <1>1, <1>2, <1>3 DEF Flight, AtEnd, Missed, Copying, Fresh, Stray
<1> QED BY <1>4, <1>5 DEF InPlace

\* readsf_start and readsf_pause; readsf_stop loses the place.
LEMMA PlaceOrder == ASSUME Types, Clean, InPlace, Start \/ Stop \/ Pause, Clean' PROVE InPlace'
<1>1. /\ UNCHANGED <<calm, bufferVars, indexVars, is_eof, is_open, is_dead,
                     opened, fileVars, alarm, dpc, diskVars, heard>>
      /\ dpc = "idle"
      /\ is_started' \/ \E b \in Buffers : full[b] \/ ~is_started
  BY DEF Start, Stop, Pause, Order, OrderUnchanged, Between, Clean
<1>2. InLine'
  BY <1>1 DEF InPlace, InLine, Holds, Base, After, Last, Untold, Ready, Unused
<1>3. Flight' /\ AtEnd' /\ Copying' /\ Fresh' /\ Missed'
  BY <1>1 DEF InPlace, Flight, AtEnd, Copying, Fresh, Missed, Ready, Unused, Enough
<1>4. Stray'
  BY <1>1, Basics DEF InPlace, Stray, Ready, Unused
<1> QED BY <1>2, <1>3, <1>4 DEF InPlace

\* The first readsf_open.
LEMMA PlaceOpen == ASSUME Types, Own, Clean, InPlace, NEW len \in Lengths, Open(len), Clean'
                   PROVE  InPlace'
<1>1. /\ ~is_open /\ is_open' /\ dpc = "idle" /\ tpc = "sleep"
      /\ UNCHANGED <<calm, bufferVars, is_started, indexVars, is_eof, alarm, dpc, diskVars, heard>>
      /\ pos' = 0 /\ length' = len
  BY DEF Open, Clean, Own, Between
<1>2. /\ ~is_eof /\ heard = 0 /\ read_index = 0
      /\ ~Ready(buffer_index) /\ ~Ready(Unused)
  BY <1>1, Basics DEF InPlace, Fresh
<1>3. /\ \A b : Ready(b)' <=> Ready(b)
      /\ Unused' = Unused /\ Untold' = 0 /\ After' = 0 /\ Last' = 0
  BY <1>1, <1>2 DEF Ready, Unused, Untold, After, Last
<1>4. InLine'
  BY <1>1, <1>2, <1>3 DEF InLine
<1>5. Flight' /\ AtEnd' /\ Missed' /\ Copying' /\ Fresh' /\ Stray'
  BY <1>1, <1>2, <1>3 DEF InPlace, Flight, AtEnd, Missed, Copying, Fresh, Stray
<1> QED BY <1>4, <1>5 DEF InPlace


\* The disk thread wakes up and calls dtd_thread_read.
LEMMA PlaceWake == ASSUME Types, Clean, InPlace, Wake, Clean' PROVE InPlace'
<1>1. /\ UNCHANGED <<ftsVars, bufferVars, is_eof, fileVars, target, rfile, size, rest>>
      /\ tpc = "sleep" /\ tpc' = "choose" /\ rest = 0
  BY DEF Wake, Clean
<1>2. InLine'
  BY <1>1 DEF InPlace, InLine, Holds, Base, After, Last, Untold, Ready, Unused
<1>3. Flight' /\ AtEnd' /\ Copying' /\ Fresh'
  BY <1>1 DEF InPlace, Flight, AtEnd, Copying, Fresh, Ready, Unused, Enough
<1>4. Missed' /\ Stray'
  BY <1>1 DEF InPlace, Missed, Stray, Ready, Unused, Enough
<1> QED BY <1>2, <1>3, <1>4 DEF InPlace

\* "get buffer not used by fts": one without a tick in it.
LEMMA PlaceChoose == ASSUME Types, Clean, InPlace, Choose, Clean' PROVE InPlace'
<1>1. /\ UNCHANGED <<ftsVars, bufferVars, is_eof, fileVars>>
      /\ tpc = "choose"
      /\ \/ full[Unused] /\ tpc' = "sleep"
         \/ ~full[Unused] /\ tpc' = "read" /\ target' = Unused
  BY DEF Choose, Sleep
<1>2. InLine'
  BY <1>1 DEF InPlace, InLine, Holds, Base, After, Last, Untold, Ready, Unused
<1>3. Flight'
  BY <1>1, Basics DEF InPlace, Stray, Flight, Ready, Unused
<1>4. AtEnd' /\ Copying' /\ Fresh'
  BY <1>1 DEF InPlace, AtEnd, Copying, Fresh, Ready, Unused, Enough
<1>5. Missed' /\ Stray'
  BY <1>1 DEF InPlace, Missed, Stray, Ready, Unused, Enough
<1> QED BY <1>2, <1>3, <1>4, <1>5 DEF InPlace

\* The chunk that is read is the one behind all that is held.
LEMMA PlaceRead == ASSUME Types, Clean, InPlace, ReadFile, Clean' PROVE InPlace'
<1>1. /\ UNCHANGED <<ftsVars, full, end_index, is_eof, sf, length, target, rfile, rest>>
      /\ tpc = "read" /\ tpc' = "full"
  BY DEF ReadFile
<1>2. /\ Unused' = Unused /\ Untold' = size' /\ Untold = 0 /\ Base' = Base
      /\ After' = After /\ Last' = Last
      /\ \A b : Ready(b)' <=> Ready(b)
  BY <1>1 DEF Unused, Untold, Base, After, Last, Ready
<1>3. /\ size' \in Nat /\ size' <= Size /\ pos' = pos + size' /\ pos' <= length
      /\ size' = Size \/ pos' = length
  BY ReadSize
<1>4. \A b \in Buffers : b # target => slot'[b] = slot[b]
  BY ReadSize DEF Types, Shared
<1>5. ~Ready(Unused) /\ (Ready(buffer_index) => target # buffer_index)
  BY <1>1 DEF InPlace, Flight
<1>6. After \in Int /\ Last = After
  BY <1>5, Basics DEF After, Last, Base, Clean, Types, Places
<1>7. \/ pos = Last
      \/ pos = length /\ Last <= length /\ length < Last + Tick /\ size' = 0
  BY <1>2, <1>3, <1>6, Basics DEF InPlace, InLine
<1>8. size' > 0 => Holds(target, Last, size)'
  <2> SUFFICES ASSUME size' > 0 PROVE Holds(target, Last, size)'
    OBVIOUS
  <2>1. pos = Last
    BY <1>7, <1>3
  <2>2. ASSUME NEW i \in 0..size' - 1 PROVE slot'[target][i] = <<sf, pos + i + 1>>
    <3>1. i \in 0..Size - 1 /\ i < size'
      BY <1>3, Basics
    <3> QED BY <3>1, ReadSize DEF Types, Shared
  <2> QED BY <1>1, <1>2, <1>3, <2>1, <2>2 DEF Holds
<1>9. InLine'
  <2>1. Ready(buffer_index) => Holds(buffer_index, Base, end_index[buffer_index])'
    <3>1. Ready(buffer_index) => slot'[buffer_index] = slot[buffer_index]
      BY <1>4, <1>5, Basics
    <3> QED BY <1>1, <1>2, <3>1 DEF InPlace, InLine, Holds
  <2>2. \/ pos' = Last + size'
        \/ pos' = length /\ Last + size' <= length /\ length < Last + size' + Tick
    BY <1>3, <1>6, <1>7, Basics
  <2>3. ~Ready(buffer_index) => read_index = 0
    BY DEF InPlace, InLine
  <2> QED BY <1>1, <1>2, <1>5, <1>8, <2>1, <2>2, <2>3 DEF InLine
<1>10. Flight' /\ Copying' /\ Missed' /\ Fresh'
  BY <1>1, <1>2 DEF InPlace, Flight, Copying, Missed, Fresh, Enough
<1>11. AtEnd'
  <2>1. size' = 0 => pos' = length
    BY <1>3, Basics
  <2>2. is_eof => pos' = length /\ size' = 0
    BY <1>3, Basics DEF InPlace, AtEnd
  <2> QED BY <1>1, <1>2, <2>1, <2>2 DEF InPlace, AtEnd, Enough
<1>12. Stray'
  BY <1>1, <1>2 DEF InPlace, Stray
<1> QED BY <1>9, <1>10, <1>11, <1>12 DEF InPlace

\* The first store of the disk thread: full.
LEMMA PlaceFull == ASSUME Types, Clean, InPlace, SetFull, Clean' PROVE InPlace'
<1>1. /\ UNCHANGED <<ftsVars, slot, end_index, is_eof, fileVars, target, rfile, size, rest>>
      /\ tpc = "full" /\ tpc' = "end"
      /\ full' = [full EXCEPT ![target] = TRUE]
  BY DEF SetFull
<1>2. /\ full'[target]
      /\ \A b \in Buffers : b # target => full'[b] = full[b]
      /\ \A b \in Buffers : full[b] => full'[b]
  <2>1. full \in [Buffers -> BOOLEAN] /\ target \in Buffers
    BY Basics DEF Types, Shared
  <2> QED BY <1>1, <2>1
<1>3. InLine'
  BY <1>1 DEF InPlace, InLine, Holds, Base, After, Last, Untold, Ready, Unused
<1>4. Flight' /\ Copying' /\ Fresh'
  BY <1>1 DEF InPlace, Flight, Copying, Fresh, Ready, Unused, Enough
<1>5. AtEnd'
  <2>1. Enough(buffer_index) => target = Unused
    BY <1>1, Basics DEF InPlace, Flight, Enough, Ready
  <2> QED BY <1>1, <1>2, <2>1, Basics DEF InPlace, AtEnd, Ready, Unused, Enough
<1>6. Missed'
  <2>1. ~Ready(Unused)
    BY <1>1 DEF InPlace, Flight
  <2> QED BY <1>1, <1>2, <2>1, Basics DEF InPlace, Missed, Ready, Unused, Enough
<1>7. Stray'
  BY <1>1, <1>2, Basics DEF InPlace, Stray, Flight, Ready, Unused
<1> QED BY <1>3, <1>4, <1>5, <1>6, <1>7 DEF InPlace

\* The end of the file is told.
LEMMA PlaceSetEof == ASSUME Types, Own, Clean, InPlace, SetEof, Clean' PROVE InPlace'
<1>1. /\ UNCHANGED <<ftsVars, bufferVars, fileVars>>
      /\ tpc = "eof" /\ tpc' = "sleep" /\ is_eof' /\ rest' > 0
  BY Constants DEF SetEof, Sleep, Clean
<1>2. InLine'
  BY <1>1 DEF InPlace, InLine, Holds, Base, After, Last, Untold, Ready, Unused
<1>3. Flight' /\ Copying'
  BY <1>1 DEF InPlace, Flight, Copying, Enough
<1>4. is_open
  BY <1>1 DEF Own
<1>5. Fresh'
  BY <1>1, <1>4 DEF Fresh
<1>6. AtEnd'
  BY <1>1 DEF InPlace, AtEnd, Flight, Ready, Unused, Enough
<1>7. Missed' /\ Stray'
  BY <1>1 DEF InPlace, Missed, Stray, Flight, Ready, Unused, Enough
<1> QED BY <1>2, <1>3, <1>5, <1>6, <1>7 DEF InPlace


\* The second store of the disk thread: end_index.  The chunk is there, or it
\* was too short for a tick and is dropped.  First the current buffer.
LEMMA PlaceEndCurrent == ASSUME Types, Own, Clean, InPlace, SetEnd, target = buffer_index, Clean'
                         PROVE  InPlace'
<1>1. /\ UNCHANGED <<ftsVars, slot, full, is_eof, fileVars>>
      /\ tpc = "end" /\ tpc' \notin {"full", "end"}
      /\ end_index' = [end_index EXCEPT ![target] = size]
  BY DEF SetEnd, Sleep
<1>2. \/ size = 0 /\ tpc' = "eof" /\ target' = target
      \/ size # 0 /\ tpc' = "sleep" /\ rest' \in Nat /\ rest' >= 2
  BY Constants DEF SetEnd, Sleep, Clean
<1>3. /\ Unused' = Unused /\ Untold' = 0 /\ Untold = size /\ Base' = Base
      /\ is_open /\ heard \in Nat
  BY <1>1 DEF Unused, Untold, Base, Own, Clean, Types, Places
<1>4. ~Ready(Unused) /\ ~Ready(buffer_index) /\ read_index = 0
  BY <1>1 DEF InPlace, Flight, InLine
<1>5. end_index'[buffer_index] = size /\ end_index'[Unused] = end_index[Unused]
  BY <1>1, Basics DEF Types, Shared
<1>6. ~Ready(Unused)' /\ (Ready(buffer_index)' <=> size >= Tick)
      /\ (Enough(buffer_index)' <=> size >= Tick)
  BY <1>1, <1>3, <1>4, <1>5, Basics DEF Ready, Enough
<1>7. /\ Base = heard /\ After = heard /\ Last = heard
      /\ Last' = IF size >= Tick THEN heard + size ELSE heard
  BY <1>1, <1>3, <1>4, <1>5, <1>6, Basics DEF Base, After, Last
<1>8. size > 0 => Holds(buffer_index, heard, size)
  BY <1>1, <1>7 DEF InPlace, InLine
<1>9. InLine'
  <2>1. Ready(buffer_index)' => Holds(buffer_index, Base, end_index[buffer_index])'
    BY <1>1, <1>3, <1>5, <1>6, <1>7, <1>8, Basics DEF Holds
  <2>2. \/ pos = heard + size
        \/ pos = length /\ heard + size <= length /\ length < heard + size + Tick
    BY <1>3, <1>7 DEF InPlace, InLine
  <2>3. size > 0 => heard + size <= length /\ (size = Size \/ heard + size = length)
    BY <1>8 DEF Holds
  <2>4. \/ pos = Last'
        \/ pos = length /\ Last' <= length /\ length < Last' + Tick
    BY <1>3, <1>7, <2>2, <2>3, Basics
  <2>5. Last' + Untold' = Last'
    BY <1>3, <1>7, Basics
  <2> QED BY <1>1, <1>4, <1>6, <2>1, <2>4, <2>5 DEF InLine
<1>10. Flight' /\ Copying' /\ Fresh'
  BY <1>1, <1>2, <1>3, <1>4, <1>6, Basics DEF InPlace, Flight, Copying, Fresh, Enough, Ready
<1>11. AtEnd'
  BY <1>1, <1>2, <1>3, <1>6, Basics DEF InPlace, AtEnd, Enough, Ready
<1>12. Missed'
  BY <1>1, <1>2, <1>3, <1>6, Basics DEF InPlace, Missed, AtEnd
<1>13. Stray'
  BY <1>1, <1>6 DEF Stray
<1> QED BY <1>9, <1>10, <1>11, <1>12, <1>13 DEF InPlace

\* Then the other buffer.
LEMMA PlaceEndOther == ASSUME Types, Own, Clean, InPlace, SetEnd, target = Unused, Clean'
                       PROVE  InPlace'
<1>1. /\ UNCHANGED <<ftsVars, slot, full, is_eof, fileVars>>
      /\ tpc = "end" /\ tpc' \notin {"full", "end"}
      /\ end_index' = [end_index EXCEPT ![target] = size]
  BY DEF SetEnd, Sleep
<1>2. \/ size = 0 /\ tpc' = "eof" /\ target' = target
      \/ size # 0 /\ tpc' = "sleep" /\ rest' \in Nat /\ rest' >= 2
  BY Constants DEF SetEnd, Sleep, Clean
<1>3. /\ Unused' = Unused /\ Untold' = 0 /\ Untold = size /\ Base' = Base
      /\ is_open /\ heard \in Nat
  BY <1>1 DEF Unused, Untold, Base, Own, Clean, Types, Places
<1>4. ~Ready(Unused)
  BY <1>1 DEF InPlace, Flight
<1>5. end_index'[Unused] = size /\ end_index'[buffer_index] = end_index[buffer_index]
  BY <1>1, Basics DEF Types, Shared
<1>6. /\ Ready(Unused)' <=> size >= Tick
      /\ Ready(buffer_index)' <=> Ready(buffer_index)
      /\ Enough(buffer_index)' <=> Enough(buffer_index)
  BY <1>1, <1>3, <1>5 DEF Ready, Enough
<1>7. /\ After' = After /\ Last = After /\ After \in Int
      /\ Last' = IF size >= Tick THEN After + size ELSE After
  BY <1>1, <1>3, <1>4, <1>5, <1>6, Basics DEF Base, After, Last
<1>8. size > 0 => Holds(Unused, After, size)
  BY <1>1, <1>7 DEF InPlace, InLine
<1>9. InLine'
  <2>1. Ready(Unused)' => Holds(Unused, After, end_index[Unused])'
    BY <1>1, <1>3, <1>5, <1>6, <1>7, <1>8, Basics DEF Holds
  <2>2. Ready(buffer_index) => Holds(buffer_index, Base, end_index[buffer_index])'
    BY <1>1, <1>3, <1>5 DEF InPlace, InLine, Holds
  <2>3. \/ pos = After + size
        \/ pos = length /\ After + size <= length /\ length < After + size + Tick
    BY <1>3, <1>7 DEF InPlace, InLine
  <2>4. size > 0 => After + size <= length /\ (size = Size \/ After + size = length)
    BY <1>8 DEF Holds
  <2>5. \/ pos = Last'
        \/ pos = length /\ Last' <= length /\ length < Last' + Tick
    BY <1>7, <2>3, <2>4, Basics
  <2>6. ~Ready(buffer_index)' => read_index' = 0
    BY <1>1, <1>6 DEF InPlace, InLine
  <2>7. Last' + Untold' = Last'
    BY <1>3, <1>7, Basics
  <2> QED BY <1>1, <1>6, <2>1, <2>2, <2>5, <2>6, <2>7 DEF InLine
<1>10. Flight' /\ Copying' /\ Fresh'
  BY <1>1, <1>2, <1>3, <1>6, Basics DEF InPlace, Flight, Copying, Fresh
<1>11. AtEnd'
  BY <1>1, <1>2, <1>3, <1>6, Basics DEF InPlace, AtEnd
<1>12. Missed'
  BY <1>1, <1>2, <1>3, <1>6, Basics DEF InPlace, Missed
<1>13. Stray'
  <2> SUFFICES ASSUME size >= Tick, ~full[Unused] \/ dpc = "silence"
               PROVE  /\ ~Ready(buffer_index) /\ ~full[buffer_index]
                      /\ is_started /\ ~is_eof /\ size # 0
    BY <1>1, <1>2, <1>3, <1>6, Basics DEF Stray
  <2>1. ~is_eof /\ size # 0
    BY <1>1, Basics DEF InPlace, AtEnd
  <2>2. CASE ~full[Unused]
    BY <1>1, <2>1, <2>2 DEF InPlace, Stray
  <2>3. CASE dpc = "silence"
    <3>1. is_started /\ ~Enough(buffer_index) /\ ~full[buffer_index]
      BY <1>1, <2>3, Basics DEF InPlace, Missed
    <3> QED BY <1>1, <2>1, <3>1, LastChunk
  <2> QED BY <2>2, <2>3
<1> QED BY <1>9, <1>10, <1>11, <1>12, <1>13 DEF InPlace


-----------------------------------------------------------------------------
(* The invariant is inductive.                                              *)

\* The invariant holds when the object is made (readsf_init).
LEMMA InitInv == ASSUME Init PROVE IInv
<1>1. 0 % Tick = 0 /\ 0 \in 0..Size - Tick
  BY Constants, TickInSize
<1>2. slot \in [Buffers -> [0..Size - 1 -> Frame]]
  BY Frames DEF Init
<1>3. Types
  <2>1. Flags
    BY DEF Init, Flags
  <2>2. Places
    BY <1>1, Constants DEF Init, Places, Stages, Buffers
  <2>3. full \in [Buffers -> BOOLEAN]
    BY Zenon DEF Init
  <2>4. 0 \in 0..Size
    BY Constants
  <2>5. end_index \in [Buffers -> 0..Size]
    BY <2>4 DEF Init
  <2>6. File
    BY Constants DEF Init, File
  <2> QED BY <1>2, <2>1, <2>2, <2>3, <2>5, <2>6 DEF Types, Shared
<1>4. Own
  BY Constants, Basics, <1>3 DEF Init, Own, Level, Copied
<1>5. \A b \in Buffers : ~Ready(b)
  BY Constants DEF Init, Ready
<1>6. InLine
  <2>1. After = 0 /\ Last = 0 /\ Untold = 0
    BY <1>3, <1>5, Basics DEF Init, After, Last, Untold
  <2> QED BY <1>3, <1>5, <2>1, Basics DEF Init, InLine
<1>7. Flight /\ AtEnd /\ Missed /\ Copying
  BY <1>3, <1>5, Basics DEF Init, Flight, AtEnd, Missed, Copying
<1>8. Stray /\ Fresh
  BY <1>3, <1>5, Basics DEF Init, Stray, Fresh
<1> QED BY <1>3, <1>4, <1>6, <1>7, <1>8 DEF IInv, InPlace

\* Every step of readsf~ and its disk thread preserves it.
LEMMA NextInv == ASSUME IInv, [Next]_vars PROVE IInv'
<1> USE DEF IInv
<1>0. calm' = calm
  BY DEF Next, Fts, Disk, Ticks, BeginTick, TickStopped, TickEof, TickFirst, TickSecond,
         TickSilence, TickCopy, EofAlarm, Close, Start, Stop, Pause, OrderUnchanged, Open, Wake,
         Choose, ReadFile, ReadClosed, SetFull, SetEnd, SetEof
<1>1. heard = Spoilt => heard' = Spoilt
  BY DEF Next, Fts, Disk, Ticks, BeginTick, TickStopped, TickEof, TickFirst, TickSecond,
         TickSilence, TickCopy, EofAlarm, Close, Start, Stop, Pause, OrderUnchanged, Open, Wake,
         Choose, ReadFile, ReadClosed, SetFull, SetEnd, SetEof
<1>2. Clean' => Clean
  BY <1>0, <1>1 DEF Clean
<1>3. CASE Ticks
  <2>1. Types'
    BY <1>3, TypesTick
  <2>2. calm' => Own'
    BY <1>0, <1>3, OwnTick
  <2>3. Clean' => InPlace'
    <3> SUFFICES ASSUME Clean' PROVE InPlace'
      OBVIOUS
    <3>1. Types /\ Clean /\ InPlace
      BY <1>2
    <3>2. CASE TickStopped  BY <3>1, <3>2, PlaceStopped
    <3>3. CASE TickEof      BY <3>1, <3>3, PlaceEof
    <3>4. CASE TickFirst    BY <3>1, <3>4, PlaceFirst
    <3>5. CASE TickSecond   BY <3>1, <3>5, PlaceSwap, PlaceUnderrun
    <3>6. CASE TickSilence  BY <3>1, <3>6, PlaceSilence
    <3>7. CASE TickCopy     BY <3>1, <3>7, PlaceCopy, PlaceLast
    <3> QED BY <1>3, <3>2, <3>3, <3>4, <3>5, <3>6, <3>7 DEF Ticks
  <2> QED BY <2>1, <2>2, <2>3
<1>4. CASE EofAlarm
  BY <1>4, <1>0, <1>2, TypesAlarm, OwnOther, PlaceAlarm
<1>5. CASE Close
  <2>1. ~Clean'
    BY <1>5 DEF Close, Clean
  <2> QED BY <1>5, <1>0, <2>1, TypesClose, OwnClose
<1>6. CASE Start \/ Stop \/ Pause
  BY <1>6, <1>0, <1>2, TypesOrder, OwnOther, PlaceOrder
<1>7. CASE \E len \in Lengths : Open(len)
  <2>1. PICK len \in Lengths : Open(len)
    BY <1>7
  <2>2. Clean' => calm /\ Own
    BY <1>2 DEF Clean
  <2> QED BY <2>1, <2>2, <1>0, <1>2, TypesOpen, OwnOpen, PlaceOpen
<1>8. CASE Disk
  <2>1. Types'
    BY <1>8, TypesDisk
  <2>2. calm' => Own'
    BY <1>0, <1>8, OwnDisk, OwnRead
  <2>3. Clean' => InPlace'
    <3> SUFFICES ASSUME Clean' PROVE InPlace'
      OBVIOUS
    <3>1. Types /\ Clean /\ InPlace /\ Own
      BY <1>2 DEF Clean
    <3>2. CASE Wake      BY <3>1, <3>2, PlaceWake
    <3>3. CASE Choose    BY <3>1, <3>3, PlaceChoose
    <3>4. CASE ReadFile  BY <3>1, <3>4, PlaceRead
    <3>5. CASE SetFull   BY <3>1, <3>5, PlaceFull
    <3>6. CASE SetEnd    BY <3>1, <3>6, Basics, PlaceEndCurrent, PlaceEndOther
    <3>7. CASE SetEof    BY <3>1, <3>7, PlaceSetEof
    <3> QED BY <1>8, <3>1, <3>2, <3>3, <3>4, <3>5, <3>6, <3>7, NotClosed DEF Disk
  <2> QED BY <2>1, <2>2, <2>3
<1>9. CASE UNCHANGED vars
  <2>1. Types'
    BY <1>9 DEF Types, Flags, Places, Shared, File
  <2>2. calm' => Own'
    BY <1>9 DEF Own, Level, Copied
  <2>3. InLine => InLine'
    BY <1>9 DEF InLine, Holds, Base, After, Last, Untold, Ready, Unused
  <2>4. Flight /\ AtEnd /\ Copying /\ Fresh => Flight' /\ AtEnd' /\ Copying' /\ Fresh'
    BY <1>9 DEF Flight, AtEnd, Copying, Fresh, Ready, Unused, Enough
  <2>5. Missed /\ Stray => Missed' /\ Stray'
    BY <1>9 DEF Missed, Stray, Ready, Unused, Enough
  <2> QED BY <1>2, <2>1, <2>2, <2>3, <2>4, <2>5 DEF InPlace
<1> QED BY <1>3, <1>4, <1>5, <1>6, <1>7, <1>8, <1>9 DEF Next, Fts

\* The invariant of readsf~ and its disk thread.
THEOREM Invariance == Spec => []IInv
<1>1. Init => IInv
  BY InitInv
<1>2. IInv /\ [Next]_vars => IInv'
  BY NextInv
<1> QED BY <1>1, <1>2, PTL DEF Spec

-----------------------------------------------------------------------------
(* What follows.                                                            *)

\* The fields of readsf_t and of its buffers keep their types in every
\* environment: a tick that is read lies inside its buffer.
THEOREM TypeCorrect == Spec => []TypeOK
<1>1. IInv => TypeOK
  <2> SUFFICES ASSUME IInv PROVE TypeOK
    OBVIOUS
  <2>1. Spoilt \in Int
    BY DEF Spoilt
  <2>2. heard \in Int
    BY <2>1 DEF IInv, Types, Places
  <2> QED BY <2>2 DEF IInv, Types, Flags, Places, Shared, File, TypeOK, Stages
<1> QED BY <1>1, Invariance, PTL

\* In a calm environment nothing of a file that was closed is heard, and the
\* disk thread does not read such a file (readsf_close, readsf_open).
THEOREM OldFileIsGoneThm == Spec => []OldFileIsGone
<1>1. IInv => OldFileIsGone
  <2> SUFFICES ASSUME IInv, calm PROVE OldFileIsGone
    BY DEF OldFileIsGone
  <2>1. Own /\ Types
    BY DEF IInv
  <2>2. tpc = "read" => ~Closed(rfile)
    BY <2>1 DEF Own, Closed
  <2>3. ASSUME dpc = "copy", NEW i \in 0..Tick - 1
        PROVE  Copied(i) \in {Silence} \cup {sf} \X (1..length)
    <3>1. buffer_index \in Buffers /\ read_index + i \in 0..Size - 1
      BY <2>1, Basics
    <3>2. Copied(i) \in {Silence, Junk} \cup {sf} \X (1..length) /\ Copied(i) # Junk
      BY <2>1, <2>3, <3>1 DEF Own, Copied
    <3> QED BY <3>2
  <2> QED BY <2>2, <2>3 DEF OldFileIsGone
<1> QED BY <1>1, Invariance, PTL

\* A tick that is copied holds the frames that follow those of the tick
\* before, untorn (readsf_dsp against dtd_thread_read), until a message or an
\* unfinished buffer loses the place in the file.
THEOREM PlaysInOrderThm == Spec => []PlaysInOrder
<1>1. IInv => PlaysInOrder
  <2> SUFFICES ASSUME IInv, dpc = "copy", Clean
               PROVE  ~Torn /\ \A i \in 0..Tick - 1 : Copied(i) = <<sf, heard + i + 1>>
    BY DEF PlaysInOrder, Clean
  <2>1. Types /\ InPlace
    BY DEF IInv
  <2>2. Enough(buffer_index) /\ Ready(buffer_index)
    BY <2>1, Basics DEF InPlace, Copying, Enough, Ready
  <2>3. ~Torn
    BY <2>1, <2>2 DEF InPlace, Flight, Torn
  <2>4. ASSUME NEW i \in 0..Tick - 1 PROVE Copied(i) = <<sf, heard + i + 1>>
    <3>1. read_index + i \in 0..end_index[buffer_index] - 1
      BY <2>1, <2>2, Basics DEF Enough
    <3>2. Copied(i) = <<sf, Base + (read_index + i) + 1>>
      BY <2>1, <2>2, <3>1 DEF InPlace, InLine, Holds, Copied
    <3>3. Base + (read_index + i) + 1 = heard + i + 1
      BY <2>1, Basics DEF Base, Clean, Types, Places
    <3> QED BY <3>2, <3>3
  <2> QED BY <2>3, <2>4
<1> QED BY <1>1, Invariance, PTL

\* The end of the file is signalled (readsf_eof_alarm) when every whole tick
\* of it was played, and not in an underrun.
THEOREM EofIsRealThm == Spec => []EofIsReal
<1>1. IInv => EofIsReal
  <2> SUFFICES ASSUME IInv, alarm, Clean PROVE heard + Tick > length
    BY DEF EofIsReal, Clean
  <2>1. Types /\ InPlace /\ heard \in Nat
    BY DEF IInv, Clean, Types, Places
  <2>2. is_eof /\ ~Enough(buffer_index) /\ ~Ready(Unused) /\ pos = length
    BY <2>1 DEF InPlace, AtEnd
  <2>3. CASE Ready(buffer_index)
    BY <2>1, <2>2, <2>3, LastChunk
  <2>4. CASE ~Ready(buffer_index)
    <3>1. Last = heard /\ Untold = 0
      BY <2>1, <2>2, <2>4 DEF Last, After, Untold, InPlace, AtEnd
    <3> QED BY <2>1, <2>2, <3>1, Basics DEF InPlace, InLine
  <2> QED BY <2>3, <2>4
<1> QED BY <1>1, Invariance, PTL
=============================================================================
