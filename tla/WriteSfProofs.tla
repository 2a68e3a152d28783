---------------------------- MODULE WriteSfProofs ----------------------------
(***************************************************************************)
(* Proofs about WriteSf: for every size of the buffers and every number of  *)
(* messages, the fields keep their types and the file holds what was        *)
(* recorded, in order and without a gap, as long as neither an overrun nor  *)
(* one of the lost races that WriteSf names nor a failed write has happened. *)
(***************************************************************************)
EXTENDS WriteSf, SequenceTheorems, TLAPS

-----------------------------------------------------------------------------
(* The inductive invariant.                                                 *)

Steps == {"idle", "tick_mark", "tick_level", "swap", "stop_mark", "stop_level", "stopped"}
Stages == {"sleep", "other", "eof", "write_other", "write_current", "empty_other",
           "empty_current", "zero_other", "zero_current"}

\* TypeOK with the functions themselves typed, and the disk thread told that
\* it is dead exactly while there is no file.
Flags == /\ is_open \in BOOLEAN /\ is_started \in BOOLEAN /\ is_eof \in BOOLEAN
         /\ is_dead \in BOOLEAN /\ overrun \in BOOLEAN /\ raced \in BOOLEAN
         /\ failed \in BOOLEAN

Shared == /\ slot \in [Buffers -> [1..Size -> 0..MaxTicks]]
          /\ full \in [Buffers -> BOOLEAN]
          /\ end_index \in [Buffers -> 0..Size]
          /\ file \in Seq(0..MaxTicks)

Places == /\ buffer_index \in Buffers /\ target \in Buffers
          /\ write_index \in 0..Size
          /\ fpc = "idle" => write_index < Size
          /\ level \in 0..Size /\ wfile \in 0..opened
          /\ fpc \in Steps /\ tpc \in Stages
          /\ recorded \in 0..MaxTicks /\ opened \in 0..MaxOpen /\ orders \in 0..MaxOrders

Told == is_dead <=> ~is_open

Types == Flags /\ Shared /\ Places /\ Told

Good == ~overrun /\ ~raced /\ ~failed

\* The disk thread is inside fts_audiofile_write, or back from it and about to
\* mark the buffer empty.
Writing == tpc \in {"write_other", "write_current"}
Written == tpc \in {"empty_other", "empty_current"}

\* A buffer is full exactly from the mark to the disk thread's answer; a
\* buffer that is full between two ticks is what a stop left.
Marks == /\ fpc \in {"tick_mark", "stop_mark"} => ~full[buffer_index]
         /\ fpc \in {"tick_level", "stop_level"} =>
              /\ full[buffer_index]
              /\ target = buffer_index => ~Writing /\ ~Written
         /\ fpc = "idle" /\ full[buffer_index] => write_index = 0

\* The disk thread writes to the open file, a full buffer up to its level, and
\* never the current one before the other.
Writes == /\ ~is_open => tpc = "sleep"
          /\ Writing \/ Written =>
               /\ full[target] /\ wfile = opened
               /\ target = buffer_index => ~full[Other(buffer_index)]
          /\ Writing => level = end_index[target]

\* The ticks that are not in the file: those the disk thread has not yet taken
\* from the other buffer, and those in the current one.
Base    == IF is_open THEN Len(file) ELSE 0
Left(b) == IF full[b] /\ ~(Written /\ target = b) THEN end_index[b] ELSE 0
Older   == Left(Other(buffer_index))
Newer   == IF fpc \in {"swap", "stopped"} \/ (fpc = "idle" /\ full[buffer_index])
           THEN Left(buffer_index) ELSE write_index

\* File, other buffer and current buffer hold all that was recorded, in this
\* order.
Ordered == /\ is_open => \A i \in 1..Len(file) : file[i] = i
           /\ Base + Older + Newer = recorded
           /\ \A i \in 1..Older : slot[Other(buffer_index)][i] = Base + i
           /\ \A i \in 1..Newer : slot[buffer_index][i] = Base + Older + i

IInv == Types /\ (Good => Marks /\ Writes /\ Ordered)

-----------------------------------------------------------------------------
(* What the actions do, with Boolean assignments as equivalences.           *)

\* Fields that few actions touch.
SameFlags == /\ is_open' <=> is_open
             /\ overrun' <=> overrun
             /\ raced' <=> raced
             /\ failed' <=> failed
SameDisk  == UNCHANGED <<tpc, target, wfile, level>>
Cleared   == /\ full' = [b \in Buffers |-> FALSE]
             /\ end_index' = [b \in Buffers |-> 0]
             /\ write_index' = 0 /\ recorded' = 0
             /\ ~overrun' /\ ~failed'
             /\ raced' <=> tpc # "sleep"

LEMMA CloseFacts ==
  ASSUME Close
  PROVE  /\ Cleared /\ ~is_open' /\ fpc = "idle" /\ SameDisk
         /\ UNCHANGED <<slot, buffer_index, file, fpc, opened, orders>>
BY Zenon DEF Close, CloseFile, Restart, Cleared, SameDisk, diskVars, countVars

LEMMA OpenFacts ==
  ASSUME Open
  PROVE  /\ fpc = "idle" /\ opened < MaxOpen /\ opened' = opened + 1 /\ file' = <<>>
         /\ is_open' /\ SameDisk
         /\ UNCHANGED <<slot, buffer_index, fpc, orders>>
         /\ is_open => Cleared
         /\ ~is_open => /\ UNCHANGED <<full, end_index, write_index, recorded>>
                        /\ overrun' <=> overrun
                        /\ raced' <=> raced
                        /\ failed' <=> failed
BY Zenon DEF Open, CloseFile, Restart, Cleared, SameDisk, diskVars

LEMMA OrderFacts ==
  ASSUME Start \/ Pause \/ Stop
  PROVE  /\ fpc = "idle" /\ orders < MaxOrders /\ orders' = orders + 1
         /\ \/ fpc' = fpc
            \/ fpc' = "stopped" /\ full[buffer_index]
            \/ fpc' = "stop_mark" /\ ~full[buffer_index]
         /\ SameFlags /\ SameDisk
         /\ UNCHANGED <<slot, full, end_index, buffer_index, write_index, file, opened, recorded>>
<1> USE DEF Order, OrderUnchanged, SameFlags, SameDisk, bufferVars, indexVars, diskVars
<1>1. CASE Start
  BY <1>1, Zenon DEF Start
<1>2. CASE Pause
  BY <1>2, Zenon DEF Pause
<1>3. CASE Stop
  BY <1>3, Zenon DEF Stop
<1> QED BY <1>1, <1>2, <1>3

LEMMA TickStoreFacts ==
  ASSUME TickStore
  PROVE  /\ fpc = "idle" /\ recorded < MaxTicks
         /\ slot' = [slot EXCEPT ![buffer_index][write_index + 1] = recorded + 1]
         /\ recorded' = recorded + 1 /\ write_index' = write_index + 1
         /\ fpc' = IF write_index' + 1 > Size THEN "tick_mark" ELSE "idle"
         /\ overrun' <=> overrun \/ full[buffer_index]
         /\ raced' <=> raced
         /\ failed' <=> failed
         /\ is_open' <=> is_open
         /\ UNCHANGED <<full, end_index, file, buffer_index, opened, orders>> /\ SameDisk
BY Zenon DEF TickStore, SameDisk, diskVars, countVars

LEMMA HandlerFacts ==
  ASSUME SetFull \/ SetEnd \/ Stopped
  PROVE  /\ SameFlags /\ SameDisk
         /\ UNCHANGED <<slot, buffer_index, file, opened, orders, recorded>>
         /\ \/ /\ SetFull
               /\ full' = [full EXCEPT ![buffer_index] = TRUE]
               /\ \/ fpc = "tick_mark" /\ fpc' = "tick_level"
                  \/ fpc = "stop_mark" /\ fpc' = "stop_level"
               /\ UNCHANGED <<end_index, write_index>>
            \/ /\ SetEnd
               /\ end_index' = [end_index EXCEPT ![buffer_index] = write_index]
               /\ \/ fpc = "tick_level" /\ fpc' = "swap"
                  \/ fpc = "stop_level" /\ fpc' = "stopped"
               /\ UNCHANGED <<full, write_index>>
            \/ /\ Stopped
               /\ fpc = "stopped" /\ fpc' = "idle" /\ write_index' = 0
               /\ UNCHANGED <<full, end_index>>
<1> USE DEF SameFlags, SameDisk, bufferVars, indexVars, diskVars, countVars
<1>1. CASE SetFull
  BY <1>1 DEF SetFull
<1>2. CASE SetEnd
  BY <1>2 DEF SetEnd
<1>3. CASE Stopped
  BY <1>3 DEF Stopped
<1> QED BY <1>1, <1>2, <1>3

LEMMA SwapFacts ==
  ASSUME Swap
  PROVE  /\ fpc = "swap" /\ fpc' = "idle"
         /\ buffer_index' = Other(buffer_index) /\ write_index' = 0
         /\ overrun' <=> overrun \/ full[Other(buffer_index)]
         /\ raced' <=> raced
         /\ failed' <=> failed
         /\ is_open' <=> is_open
         /\ UNCHANGED <<slot, full, end_index, file, opened, orders, recorded>> /\ SameDisk
BY Zenon DEF Swap, SameDisk, bufferVars, diskVars, countVars

\* The disk thread takes a buffer to write, or goes on.
Takes(b) == /\ full[b]
            /\ target' = b /\ wfile' = opened /\ level' = end_index[b]
            /\ raced' <=> \/ raced
                          \/ b = buffer_index /\ fpc \in {"tick_level", "stop_level"}
                          \/ b = buffer_index /\ full[Other(b)]
Leaves   == UNCHANGED <<target, wfile, level>> /\ (raced' <=> raced)
Same     == /\ UNCHANGED <<slot, buffer_index, write_index, fpc, opened, orders, recorded>>
            /\ is_open' <=> is_open
            /\ overrun' <=> overrun

LEMMA TakeFacts ==
  ASSUME Wake \/ WriteOther \/ WriteCurrent
  PROVE  /\ Same /\ UNCHANGED <<full, end_index, file>> /\ (failed' <=> failed)
         /\ \/ tpc = "sleep" /\ tpc' = "other" /\ Leaves /\ ~is_dead
            \/ tpc = "other" /\ tpc' = "write_other" /\ Takes(Other(buffer_index))
            \/ tpc = "other" /\ tpc' = "eof" /\ Leaves
            \/ tpc = "eof" /\ tpc' = "write_current" /\ Takes(buffer_index)
            \/ tpc = "eof" /\ tpc' = "sleep" /\ Leaves
<1> USE DEF Same, Takes, Leaves, ftsVars, indexVars, countVars
<1>1. CASE Wake
  BY <1>1, Zenon DEF Wake
<1>2. CASE WriteOther
  BY <1>2, Zenon DEF WriteOther, Begin
<1>3. CASE WriteCurrent
  BY <1>3, Zenon DEF WriteCurrent, Begin
<1> QED BY <1>1, <1>2, <1>3

LEMMA WriteFileFacts ==
  ASSUME WriteFile
  PROVE  /\ Same /\ UNCHANGED <<full, end_index>> /\ (raced' <=> raced) /\ Writing
         /\ \/ /\ ~Closed
               /\ \E n \in 0..level :
                     file' = file \o SubSeq(slot[target], 1, n) /\ (failed' <=> failed \/ n < level)
            \/ Closed /\ file' = file /\ (failed' <=> failed)
         /\ \/ /\ tpc' = (IF tpc = "write_other" THEN "empty_other" ELSE "empty_current")
               /\ UNCHANGED <<target, wfile, level>>
            \/ /\ Closed
               /\ tpc' = "sleep" /\ target' = 0 /\ wfile' = 0 /\ level' = 0
<1>1. Same /\ UNCHANGED <<full, end_index>> /\ (raced' <=> raced) /\ Writing
  BY Zenon DEF WriteFile, Same, Writing, ftsVars, indexVars, countVars
<1>2. \/ /\ ~Closed
         /\ \E n \in 0..level :
               file' = file \o SubSeq(slot[target], 1, n) /\ (failed' <=> failed \/ n < level)
      \/ Closed /\ file' = file /\ (failed' <=> failed)
  <2>1. CASE Closed
    BY <2>1, Zenon DEF WriteFile
  <2>2. CASE ~Closed
    <3>1. PICK n \in 0..level : /\ file' = file \o SubSeq(slot[target], 1, n)
                                /\ failed' = (failed \/ n < level)
      BY <2>2, Zenon DEF WriteFile
    <3>2. failed' <=> failed \/ n < level
      BY <3>1, Zenon
    <3> QED BY <2>2, <3>1, <3>2
  <2> QED BY <2>1, <2>2
<1>3. \/ /\ tpc' = (IF tpc = "write_other" THEN "empty_other" ELSE "empty_current")
         /\ UNCHANGED <<target, wfile, level>>
      \/ /\ Closed
         /\ tpc' = "sleep" /\ target' = 0 /\ wfile' = 0 /\ level' = 0
  BY Zenon DEF WriteFile, Sleep
<1> QED BY <1>1, <1>2, <1>3, Zenon

LEMMA ReturnFacts ==
  ASSUME SetEmpty \/ SetZero
  PROVE  /\ Same /\ file' = file /\ (failed' <=> failed)
         /\ \/ /\ SetEmpty
               /\ full' = [full EXCEPT ![target] = FALSE] /\ end_index' = end_index
               /\ raced' <=> raced
               /\ \/ tpc = "empty_other" /\ tpc' = "zero_other"
                  \/ tpc = "empty_current" /\ tpc' = "zero_current"
               /\ UNCHANGED <<target, wfile, level>>
            \/ /\ SetZero
               /\ end_index' = [end_index EXCEPT ![target] = 0] /\ full' = full
               /\ raced' <=> raced \/ full[target]
               /\ \/ tpc = "zero_other" /\ tpc' = "eof"
                  \/ tpc = "zero_current" /\ tpc' = "sleep"
               /\ target' = 0 /\ wfile' = 0 /\ level' = 0
<1> USE DEF Same, ftsVars, indexVars, countVars
<1>1. CASE SetEmpty
  BY <1>1, Zenon DEF SetEmpty
<1>2. CASE SetZero
  BY <1>2, Zenon DEF SetZero
<1> QED BY <1>1, <1>2

-----------------------------------------------------------------------------
(* Types.                                                                   *)

LEMMA OtherFacts ==
  ASSUME NEW b \in Buffers
  PROVE  /\ Other(b) \in Buffers /\ Other(b) # b /\ Other(Other(b)) = b
         /\ \A x \in Buffers : x = b \/ x = Other(b)
BY DEF Buffers, Other

\* What fts_audiofile_write appends: the first ticks of the buffer.
LEMMA AppendFacts ==
  ASSUME NEW f \in Seq(0..MaxTicks), NEW s \in [1..Size -> 0..MaxTicks], NEW n \in 0..Size
  PROVE  LET g == f \o SubSeq(s, 1, n)
         IN  /\ g \in Seq(0..MaxTicks)
             /\ Len(g) = Len(f) + n
             /\ \A i \in 1..Len(f) : g[i] = f[i]
             /\ \A i \in 1..n : g[Len(f) + i] = s[i]
<1> DEFINE u == SubSeq(s, 1, n)
           g == f \o u
<1>1. Size \in Nat /\ n \in Nat /\ n <= Size /\ Len(f) \in Nat
  BY WriteAssumption, LenProperties
<1>2. \A i \in 1..n : s[i] \in 0..MaxTicks
  BY <1>1
<1>3. /\ u \in Seq(0..MaxTicks) /\ Len(u) = (IF 1 <= n THEN n - 1 + 1 ELSE 0)
      /\ \A i \in 1..n - 1 + 1 : u[i] = s[1 + i - 1]
  BY <1>1, <1>2, SubSeqProperties
<1>4. /\ g \in Seq(0..MaxTicks) /\ Len(g) = Len(f) + Len(u)
      /\ \A i \in 1..Len(f) + Len(u) : g[i] = IF i <= Len(f) THEN f[i] ELSE u[i - Len(f)]
  BY <1>3, ConcatProperties
<1> HIDE DEF u, g
<1>5. Len(u) = n /\ \A i \in 1..n : u[i] = s[i]
  <2>1. n - 1 + 1 = n /\ \A i \in 1..n : 1 + i - 1 = i
    BY <1>1
  <2> QED BY <1>1, <1>3, <2>1
<1>6. \A i \in 1..Len(f) : g[i] = f[i]
  BY <1>1, <1>4, <1>5
<1>7. ASSUME NEW i \in 1..n PROVE g[Len(f) + i] = s[i]
  <2> DEFINE j == Len(f) + i
  <2>1. j \in 1..Len(f) + Len(u) /\ ~(j <= Len(f)) /\ j - Len(f) = i
    BY <1>1, <1>5
  <2>2. g[j] = u[j - Len(f)]
    BY <1>4, <2>1
  <2> QED BY <1>5, <2>1, <2>2
<1> QED BY <1>4, <1>5, <1>6, <1>7 DEF g, u

LEMMA InitTypes == ASSUME Init PROVE Types
<1>1. Size \in Nat \ {0} /\ MaxTicks \in Nat /\ MaxOpen \in Nat /\ MaxOrders \in Nat
  BY WriteAssumption
<1>2. Flags /\ Told
  BY DEF Init, Flags, Told
<1>3. Shared
  BY <1>1, EmptySeq DEF Init, Shared
<1>4. Places
  BY <1>1 DEF Init, Places, Buffers, Steps, Stages
<1> QED BY <1>2, <1>3, <1>4 DEF Types

\* The flags stay Boolean, and is_dead follows is_open.
LEMMA FlagsStep == ASSUME Flags, Told, full \in [Buffers -> BOOLEAN], [Next]_vars
                   PROVE  Flags' /\ Told'
<1> USE DEF Flags, Told
<1>1. CASE UNCHANGED vars
  BY <1>1 DEF vars
<1>2. CASE Close \/ Open
  BY <1>2 DEF Close, Open, CloseFile, Restart
<1>3. CASE Start
  BY <1>3, Zenon DEF Start, OrderUnchanged
<1>4. CASE Pause
  <2>1. UNCHANGED <<is_open, is_eof, is_dead, overrun, raced, failed>>
    BY <1>4, Zenon DEF Pause, OrderUnchanged
  <2>2. is_started' \in BOOLEAN
    BY <1>4, Zenon DEF Pause
  <2> QED BY <2>1, <2>2
<1>5. CASE Stop
  BY <1>5, Zenon DEF Stop, OrderUnchanged
<1>6. CASE TickStore
  <2>1. /\ overrun' = (overrun \/ full[buffer_index])
        /\ UNCHANGED <<is_open, is_started, is_eof, is_dead, raced, failed>>
    BY <1>6 DEF TickStore
  <2> QED BY <2>1, Zenon
<1>7. CASE SetFull \/ SetEnd \/ Stopped
  <2>1. CASE SetFull
    BY <2>1, Zenon DEF SetFull
  <2>2. CASE SetEnd
    BY <2>2, Zenon DEF SetEnd
  <2>3. CASE Stopped
    BY <2>3, Zenon DEF Stopped
  <2> QED BY <1>7, <2>1, <2>2, <2>3
<1>8. CASE Swap
  <2>1. /\ overrun' = (overrun \/ full[Other(buffer_index)])
        /\ UNCHANGED <<is_open, is_started, is_eof, is_dead, raced, failed>>
    BY <1>8 DEF Swap
  <2> QED BY <2>1, Zenon
<1>9. CASE Disk
  <2>1. UNCHANGED <<is_open, is_started, is_eof, is_dead, overrun>>
    BY <1>9 DEF Disk, Wake, WriteOther, WriteCurrent, WriteFile, SetEmpty, SetZero, ftsVars
  <2>2. failed' \in BOOLEAN
    <3>1. CASE WriteFile
      <4>1. failed' = failed \/ \E n \in 0..level : failed' = (failed \/ n < level)
        BY <3>1, Zenon DEF WriteFile
      <4> QED BY <4>1, Zenon
    <3>2. CASE Wake \/ WriteOther \/ WriteCurrent \/ SetEmpty \/ SetZero
      BY <3>2 DEF Wake, WriteOther, WriteCurrent, SetEmpty, SetZero
    <3> QED BY <1>9, <3>1, <3>2 DEF Disk
  <2>3. raced' \in BOOLEAN
    <3>1. ASSUME NEW b, NEW next, Begin(b, next) PROVE raced' \in BOOLEAN
      BY <3>1, Zenon DEF Begin
    <3>2. CASE Wake \/ WriteFile \/ SetEmpty
      BY <3>2 DEF Wake, WriteFile, SetEmpty
    <3>3. CASE SetZero
      BY <3>3, Zenon DEF SetZero
    <3>4. CASE WriteOther \/ WriteCurrent
      BY <3>1, <3>4 DEF WriteOther, WriteCurrent
    <3> QED BY <1>9, <3>2, <3>3, <3>4 DEF Disk
  <2> QED BY <2>1, <2>2, <2>3
<1> QED BY <1>1, <1>2, <1>3, <1>4, <1>5, <1>6, <1>7, <1>8, <1>9 DEF Next, Messages, Handler

\* The buffers and the file.
LEMMA SharedStep == ASSUME Types, Flags', [Next]_vars PROVE Shared'
<1>1. Size \in Nat \ {0} /\ MaxTicks \in Nat
  BY WriteAssumption
<1>2. <<>> \in Seq(0..MaxTicks)
  BY EmptySeq
<1> USE DEF Types, Flags, Shared
<1>3. CASE UNCHANGED vars
  BY <1>3 DEF vars, bufferVars
<1>4. CASE Close \/ Open
  <2>1. slot' = slot /\ file' \in {<<>>, file}
    BY <1>4, CloseFacts, OpenFacts
  <2>2. full' \in {[b \in Buffers |-> FALSE], full}
    BY <1>4, CloseFacts, OpenFacts DEF Cleared
  <2>3. end_index' \in {[b \in Buffers |-> 0], end_index}
    BY <1>4, CloseFacts, OpenFacts DEF Cleared
  <2>4. [b \in Buffers |-> FALSE] \in [Buffers -> BOOLEAN]
    OBVIOUS
  <2>5. [b \in Buffers |-> 0] \in [Buffers -> 0..Size]
    BY <1>1
  <2> QED BY <1>2, <2>1, <2>2, <2>3, <2>4, <2>5
<1>6. CASE Start \/ Pause \/ Stop
  BY <1>6, OrderFacts
<1>7. CASE TickStore
  <2>1. /\ slot' = [slot EXCEPT ![buffer_index][write_index + 1] = recorded + 1]
        /\ fpc = "idle" /\ recorded < MaxTicks
        /\ UNCHANGED <<full, end_index, file>>
    BY <1>7, TickStoreFacts
  <2>2. buffer_index \in Buffers /\ write_index + 1 \in 1..Size /\ recorded + 1 \in 0..MaxTicks
    BY <1>1, <2>1 DEF Places
  <2>3. [slot[buffer_index] EXCEPT ![write_index + 1] = recorded + 1] \in [1..Size -> 0..MaxTicks]
    BY <2>2
  <2> QED BY <2>1, <2>2, <2>3
<1>8. CASE SetFull \/ SetEnd \/ Stopped
  <2>1. buffer_index \in Buffers /\ write_index \in 0..Size
    BY DEF Places
  <2> QED BY <1>8, <2>1, HandlerFacts
<1>9. CASE Swap
  BY <1>9, SwapFacts
<1>10. CASE Wake \/ WriteOther \/ WriteCurrent
  BY <1>10, TakeFacts DEF Same
<1>11. CASE WriteFile
  <2>1. \A n \in 0..level : file \o SubSeq(slot[target], 1, n) \in Seq(0..MaxTicks)
    BY <1>1, AppendFacts DEF Places
  <2> QED BY <1>11, <2>1, WriteFileFacts DEF Same
<1>12. CASE SetEmpty \/ SetZero
  <2>1. target \in Buffers
    BY DEF Places
  <2>2. /\ slot' = slot /\ file' = file
        /\ full' \in {full, [full EXCEPT ![target] = FALSE]}
        /\ end_index' \in {end_index, [end_index EXCEPT ![target] = 0]}
    BY <1>12, ReturnFacts DEF Same
  <2>3. [full EXCEPT ![target] = FALSE] \in [Buffers -> BOOLEAN]
    BY <2>1
  <2>4. [end_index EXCEPT ![target] = 0] \in [Buffers -> 0..Size]
    BY <1>1, <2>1
  <2> QED BY <2>2, <2>3, <2>4
<1> QED BY <1>3, <1>4, <1>6, <1>7, <1>8, <1>9, <1>10, <1>11, <1>12
        DEF Next, Messages, Handler, Disk

\* The indices, the counters and where the two threads are.
LEMMA PlacesStep == ASSUME Types, Flags', [Next]_vars PROVE Places'
<1>1. Size \in Nat \ {0} /\ MaxTicks \in Nat /\ MaxOpen \in Nat /\ MaxOrders \in Nat
  BY WriteAssumption
<1>2. Other(buffer_index) \in Buffers /\ 0 \in Buffers
  BY OtherFacts DEF Types, Places, Buffers
<1>3. end_index \in [Buffers -> 0..Size]
  BY DEF Types, Shared
<1>a. /\ "idle" \in Steps /\ "tick_mark" \in Steps /\ "tick_level" \in Steps
      /\ "swap" \in Steps /\ "stop_mark" \in Steps /\ "stop_level" \in Steps
      /\ "stopped" \in Steps
  BY DEF Steps
<1>b. /\ "sleep" \in Stages /\ "other" \in Stages /\ "eof" \in Stages
      /\ "write_other" \in Stages /\ "write_current" \in Stages
      /\ "empty_other" \in Stages /\ "empty_current" \in Stages
      /\ "zero_other" \in Stages /\ "zero_current" \in Stages
  BY DEF Stages
<1> USE <1>a, <1>b DEF Types, Flags, Places, SameDisk
<1>4. CASE UNCHANGED vars
  BY <1>4 DEF vars, indexVars, diskVars, countVars
<1>5. CASE Close
  BY <1>1, <1>5, CloseFacts DEF Cleared
<1>6. CASE Open
  <2>1. /\ fpc = "idle" /\ opened < MaxOpen /\ opened' = opened + 1
        /\ UNCHANGED <<buffer_index, fpc, orders>> /\ SameDisk
    BY <1>6, OpenFacts
  <2>2. write_index' \in {0, write_index} /\ recorded' \in {0, recorded}
    BY <1>6, OpenFacts DEF Cleared
  <2> QED BY <1>1, <2>1, <2>2
<1>7. CASE Start \/ Pause \/ Stop
  BY <1>1, <1>7, OrderFacts
<1>8. CASE TickStore
  BY <1>1, <1>8, TickStoreFacts
<1>9. CASE SetFull \/ SetEnd \/ Stopped
  BY <1>1, <1>9, HandlerFacts
<1>10. CASE Swap
  BY <1>1, <1>2, <1>10, SwapFacts
<1>11. CASE Wake \/ WriteOther \/ WriteCurrent
  BY <1>1, <1>2, <1>3, <1>11, TakeFacts DEF Same, Takes, Leaves
<1>12. CASE WriteFile
  BY <1>1, <1>2, <1>12, WriteFileFacts DEF Same
<1>13. CASE SetEmpty \/ SetZero
  BY <1>1, <1>2, <1>13, ReturnFacts DEF Same
<1> QED BY <1>4, <1>5, <1>6, <1>7, <1>8, <1>9, <1>10, <1>11, <1>12, <1>13
        DEF Next, Messages, Handler, Disk

LEMMA TypesStep == ASSUME Types, [Next]_vars PROVE Types'
BY FlagsStep, SharedStep, PlacesStep DEF Types, Shared

-----------------------------------------------------------------------------
(* The order of the ticks, one lemma per action.                            *)

Faithful == Marks /\ Writes /\ Ordered

\* How many ticks there are in the file and in the buffers.
LEMMA CountTypes ==
  ASSUME Types
  PROVE  /\ Len(file) \in Nat /\ Base \in Nat
         /\ \A b \in Buffers : Left(b) \in 0..Size
         /\ Older \in 0..Size /\ Newer \in 0..Size
<1>1. Size \in Nat
  BY WriteAssumption
<1>2. Len(file) \in Nat
  BY LenProperties DEF Types, Shared
<1>3. \A b \in Buffers : Left(b) \in 0..Size
  BY <1>1 DEF Types, Shared, Left
<1>4. Other(buffer_index) \in Buffers /\ buffer_index \in Buffers /\ write_index \in 0..Size
  BY OtherFacts DEF Types, Places
<1> QED BY <1>2, <1>3, <1>4 DEF Base, Older, Newer

\* A step that neither records nor writes.
LEMMA OrderedKept ==
  ASSUME Ordered, UNCHANGED <<slot, buffer_index, recorded>>,
         Base' = Base, Older' = Older, Newer' = Newer,
         is_open' => \A i \in 1..Len(file') : file'[i] = i
  PROVE  Ordered'
BY DEF Ordered

\* A close, and an open of a file that is not the first, begin anew.
LEMMA ClearedFaithful ==
  ASSUME Types, Types', Cleared, Good', SameDisk, fpc' = "idle", is_open' => file' = <<>>
  PROVE  Faithful'
<1>1. tpc' = "sleep" /\ ~Writing' /\ ~Written'
  BY DEF Cleared, Good, SameDisk, Writing, Written
<1>2. \A b \in Buffers : ~full'[b]
  BY DEF Cleared
<1>3. buffer_index' \in Buffers /\ Other(buffer_index') \in Buffers
  BY OtherFacts DEF Types, Places
<1>4. write_index' = 0 /\ recorded' = 0
  BY DEF Cleared
<1>5. Marks'
  BY <1>2, <1>3 DEF Marks
<1>6. Writes'
  BY <1>1 DEF Writes
<1>7. Older' = 0
  BY <1>2, <1>3 DEF Older, Left
<1>8. Newer' = 0
  BY <1>2, <1>3, <1>4 DEF Newer
<1>9. Base' = 0 /\ (is_open' => Len(file') = 0)
  BY EmptySeq DEF Base
<1>10. Ordered'
  BY <1>4, <1>7, <1>8, <1>9 DEF Ordered
<1> QED BY <1>5, <1>6, <1>10 DEF Faithful

LEMMA CloseFaithful == ASSUME Types, Types', Close, Good' PROVE Faithful'
BY CloseFacts, ClearedFaithful

\* The first open after a close: what was recorded since then is in the
\* buffers, and the disk thread sleeps.
LEMMA OpenFaithful == ASSUME Types, Types', Good => Faithful, Open, Good' PROVE Faithful'
<1>1. CASE is_open
  BY <1>1, OpenFacts, ClearedFaithful
<1>2. CASE ~is_open
  <2>1. /\ UNCHANGED <<slot, buffer_index, fpc, full, end_index, write_index, recorded>>
        /\ SameDisk /\ file' = <<>> /\ is_open' /\ Good
    BY <1>2, OpenFacts DEF Good
  <2>2. tpc' = "sleep" /\ tpc = "sleep" /\ ~Writing' /\ ~Written' /\ ~Writing /\ ~Written
    BY <1>2, <2>1 DEF Faithful, Writes, SameDisk, Writing, Written
  <2>3. Marks'
    BY <2>1, <2>2 DEF Faithful, Marks, SameDisk
  <2>4. Writes'
    BY <2>2 DEF Writes
  <2>5. Base = 0 /\ Base' = 0 /\ Len(file') = 0
    BY <1>2, <2>1, EmptySeq DEF Base
  <2>6. Older' = Older /\ Newer' = Newer
    BY <2>1, <2>2 DEF Older, Newer, Left
  <2>7. Ordered'
    BY <2>1, <2>5, <2>6, OrderedKept DEF Faithful
  <2> QED BY <2>3, <2>4, <2>7 DEF Faithful
<1> QED BY <1>1, <1>2

\* Start, pause and the beginning of a stop.
LEMMA OrderFaithful ==
  ASSUME Types, Types', Good => Faithful, Start \/ Pause \/ Stop, Good'
  PROVE  Faithful'
<1>1. /\ fpc = "idle"
      /\ \/ fpc' = fpc
         \/ fpc' = "stopped" /\ full[buffer_index]
         \/ fpc' = "stop_mark" /\ ~full[buffer_index]
      /\ SameFlags /\ SameDisk
      /\ UNCHANGED <<slot, full, end_index, buffer_index, write_index, file, opened, recorded>>
  BY OrderFacts
<1>2. Good /\ Faithful
  BY <1>1 DEF Good, SameFlags
<1>3. /\ Writing' <=> Writing
      /\ Written' <=> Written
  BY <1>1 DEF Writing, Written, SameDisk
<1>4. Marks'
  BY <1>1, <1>2, <1>3 DEF Faithful, Marks, SameDisk
<1>5. Writes'
  BY <1>1, <1>2, <1>3 DEF Faithful, Writes, SameDisk, SameFlags
<1>6. Base' = Base
  BY <1>1 DEF Base, SameFlags
<1>7. \A b : Left(b)' = Left(b)
  BY <1>1, <1>3 DEF Left, SameDisk
<1>8. Older' = Older /\ Newer' = Newer
  BY <1>1, <1>7 DEF Older, Newer
<1>9. Ordered'
  BY <1>1, <1>2, <1>6, <1>8, OrderedKept DEF Faithful, Ordered, SameFlags
<1> QED BY <1>4, <1>5, <1>9 DEF Faithful

\* A tick is stored in the current buffer, which is not full.
LEMMA TickStoreFaithful ==
  ASSUME Types, Types', Good => Faithful, TickStore, Good'
  PROVE  Faithful'
<1>1. /\ fpc = "idle"
      /\ slot' = [slot EXCEPT ![buffer_index][write_index + 1] = recorded + 1]
      /\ recorded' = recorded + 1 /\ write_index' = write_index + 1
      /\ fpc' \in {"idle", "tick_mark"}
      /\ UNCHANGED <<full, end_index, file, buffer_index, opened>> /\ SameDisk
      /\ is_open' <=> is_open
  BY TickStoreFacts
<1>2. Good /\ Faithful /\ ~full[buffer_index]
  BY TickStoreFacts DEF Good
<1>3. /\ Writing' <=> Writing
      /\ Written' <=> Written
  BY <1>1 DEF Writing, Written, SameDisk
<1>4. Marks'
  BY <1>1, <1>2 DEF Marks
<1>5. Writes'
  BY <1>1, <1>2, <1>3 DEF Faithful, Writes, SameDisk
<1>6. Base' = Base
  BY <1>1 DEF Base
<1>7. \A b : Left(b)' = Left(b)
  BY <1>1, <1>3 DEF Left, SameDisk
<1>8. Older' = Older
  BY <1>1, <1>7 DEF Older
<1>9. Newer = write_index /\ Newer' = write_index + 1
  BY <1>1, <1>2 DEF Newer
<1>10. /\ Base \in Nat /\ Older \in Nat /\ write_index \in Nat /\ recorded \in Nat
       /\ write_index < Size /\ Size \in Nat
       /\ Base + Older + write_index = recorded
       /\ buffer_index \in Buffers /\ slot \in [Buffers -> [1..Size -> 0..MaxTicks]]
       /\ Other(buffer_index) \in Buffers /\ Other(buffer_index) # buffer_index
  <2>1. Base \in Nat /\ Older \in 0..Size /\ Size \in Nat /\ MaxTicks \in Nat
    BY CountTypes, WriteAssumption
  <2>2. /\ buffer_index \in Buffers /\ slot \in [Buffers -> [1..Size -> 0..MaxTicks]]
        /\ write_index \in 0..Size /\ write_index < Size /\ recorded \in 0..MaxTicks
    BY <1>1 DEF Types, Places, Shared
  <2>3. Base + Older + write_index = recorded
    BY <1>2, <1>9 DEF Faithful, Ordered
  <2>4. Other(buffer_index) \in Buffers /\ Other(buffer_index) # buffer_index
    BY <2>2, OtherFacts
  <2> QED BY <2>1, <2>2, <2>3, <2>4
<1>11. /\ slot'[Other(buffer_index)] = slot[Other(buffer_index)]
       /\ slot'[buffer_index] = [slot[buffer_index] EXCEPT ![write_index + 1] = recorded + 1]
  BY <1>1, <1>10
<1>12. /\ slot'[buffer_index][write_index + 1] = recorded + 1
       /\ \A i \in 1..write_index : slot'[buffer_index][i] = slot[buffer_index][i]
  <2>1. slot[buffer_index] \in [1..Size -> 0..MaxTicks] /\ write_index + 1 \in 1..Size
    BY <1>10
  <2>2. \A i \in 1..write_index : i \in 1..Size /\ i # write_index + 1
    BY <1>10
  <2> QED BY <1>11, <2>1, <2>2
<1>13. ASSUME NEW i \in 1..write_index + 1
       PROVE  slot'[buffer_index][i] = Base + Older + i
  <2>1. CASE i = write_index + 1
    <3>1. Base + Older + i = recorded + 1
      BY <1>10, <2>1
    <3> QED BY <1>12, <2>1, <3>1
  <2>2. CASE i # write_index + 1
    <3>1. i \in 1..write_index
      BY <1>10, <2>2
    <3> QED BY <1>2, <1>9, <1>12, <3>1 DEF Faithful, Ordered
  <2> QED BY <2>1, <2>2
<1>14. Base + Older + (write_index + 1) = recorded + 1
  BY <1>10
<1>15. Ordered'
  BY <1>1, <1>2, <1>6, <1>8, <1>9, <1>11, <1>13, <1>14 DEF Faithful, Ordered
<1> QED BY <1>4, <1>5, <1>15 DEF Faithful

\* The current buffer is marked full and told its level; a stop ends.
LEMMA HandlerFaithful ==
  ASSUME Types, Types', Good => Faithful, SetFull \/ SetEnd \/ Stopped, Good'
  PROVE  Faithful'
<1>1. /\ SameFlags /\ SameDisk
      /\ UNCHANGED <<slot, buffer_index, file, opened, orders, recorded>>
  BY HandlerFacts
<1>2. Good /\ Faithful
  BY <1>1 DEF Good, SameFlags
<1>3. /\ Writing' <=> Writing
      /\ Written' <=> Written
  BY <1>1 DEF Writing, Written, SameDisk
<1>4. Base' = Base
  BY <1>1 DEF Base, SameFlags
<1>5. /\ buffer_index \in Buffers /\ Other(buffer_index) \in Buffers
      /\ Other(buffer_index) # buffer_index
      /\ target \in Buffers /\ (target = buffer_index \/ target = Other(buffer_index))
      /\ full \in [Buffers -> BOOLEAN] /\ end_index \in [Buffers -> 0..Size]
  BY OtherFacts DEF Types, Places, Shared
<1>6. ASSUME Marks', Writes', Older' = Older, Newer' = Newer PROVE Faithful'
  <2>1. Ordered'
    BY <1>1, <1>2, <1>4, <1>6, OrderedKept DEF Faithful, Ordered, SameFlags
  <2> QED BY <1>6, <2>1 DEF Faithful
<1>7. CASE SetFull
  <2>1. /\ full' = [full EXCEPT ![buffer_index] = TRUE]
        /\ \/ fpc = "tick_mark" /\ fpc' = "tick_level"
           \/ fpc = "stop_mark" /\ fpc' = "stop_level"
        /\ UNCHANGED <<end_index, write_index>>
    BY <1>7, HandlerFacts DEF SetFull, SetEnd, Stopped
  <2>2. ~full[buffer_index]
    BY <1>2, <2>1 DEF Faithful, Marks
  <2>3. full'[buffer_index] /\ (full'[Other(buffer_index)] <=> full[Other(buffer_index)])
    BY <1>5, <2>1
  <2>4. target = buffer_index => ~Writing /\ ~Written
    BY <1>2, <2>2 DEF Faithful, Writes
  <2>5. Marks'
    BY <1>1, <1>3, <2>1, <2>3, <2>4 DEF Marks, SameDisk
  <2>6. Writes'
    BY <1>1, <1>2, <1>3, <1>5, <2>1, <2>3, <2>4 DEF Faithful, Writes, SameDisk, SameFlags
  <2>7. Older' = Older
    BY <1>1, <1>3, <2>1, <2>3 DEF Older, Left, SameDisk
  <2>8. Newer' = Newer
    BY <2>1 DEF Newer
  <2> QED BY <1>6, <2>5, <2>6, <2>7, <2>8
<1>8. CASE SetEnd
  <2>1. /\ end_index' = [end_index EXCEPT ![buffer_index] = write_index]
        /\ \/ fpc = "tick_level" /\ fpc' = "swap"
           \/ fpc = "stop_level" /\ fpc' = "stopped"
        /\ UNCHANGED <<full, write_index>>
    BY <1>8, HandlerFacts DEF SetFull, SetEnd, Stopped
  <2>2. full[buffer_index] /\ (target = buffer_index => ~Writing /\ ~Written)
    BY <1>2, <2>1 DEF Faithful, Marks
  <2>3. /\ end_index'[buffer_index] = write_index
        /\ end_index'[Other(buffer_index)] = end_index[Other(buffer_index)]
    BY <1>5, <2>1
  <2>4. Marks'
    BY <2>1 DEF Marks
  <2>5. Writes'
    BY <1>1, <1>2, <1>3, <1>5, <2>1, <2>2, <2>3 DEF Faithful, Writes, SameDisk, SameFlags
  <2>6. Older' = Older
    BY <1>1, <1>3, <2>1, <2>3 DEF Older, Left, SameDisk
  <2>7. Newer' = Newer
    BY <1>1, <1>3, <2>1, <2>2, <2>3 DEF Newer, Left, SameDisk
  <2> QED BY <1>6, <2>4, <2>5, <2>6, <2>7
<1>9. CASE Stopped
  <2>1. /\ fpc = "stopped" /\ fpc' = "idle" /\ write_index' = 0
        /\ UNCHANGED <<full, end_index>>
    BY <1>9, HandlerFacts DEF SetFull, SetEnd, Stopped
  <2>2. Marks'
    BY <2>1 DEF Marks
  <2>3. Writes'
    BY <1>1, <1>2, <1>3, <2>1 DEF Faithful, Writes, SameDisk, SameFlags
  <2>4. Older' = Older
    BY <1>1, <1>3, <2>1 DEF Older, Left, SameDisk
  <2>5. Newer' = Newer
    BY <1>1, <1>3, <2>1 DEF Newer, Left, SameDisk
  <2> QED BY <1>6, <2>2, <2>3, <2>4, <2>5
<1> QED BY <1>7, <1>8, <1>9

\* The buffers are swapped: the new current one is empty.
LEMMA SwapFaithful ==
  ASSUME Types, Types', Good => Faithful, Swap, Good'
  PROVE  Faithful'
<1> DEFINE c == buffer_index
           o == Other(buffer_index)
<1>1. /\ fpc = "swap" /\ fpc' = "idle" /\ buffer_index' = o /\ write_index' = 0
      /\ UNCHANGED <<slot, full, end_index, file, opened, orders, recorded>> /\ SameDisk
      /\ is_open' <=> is_open
  BY SwapFacts
<1>2. Good /\ Faithful /\ ~full[o]
  BY SwapFacts DEF Good
<1>3. /\ Writing' <=> Writing
      /\ Written' <=> Written
  BY <1>1 DEF Writing, Written, SameDisk
<1>4. Other(o) = c /\ Other(buffer_index') = c
  BY <1>1, OtherFacts DEF Types, Places
<1>5. Marks'
  BY <1>1, <1>2 DEF Marks
<1>6. Writes'
  BY <1>1, <1>2, <1>3, <1>4 DEF Faithful, Writes, SameDisk
<1>7. \A b : Left(b)' = Left(b)
  BY <1>1, <1>3 DEF Left, SameDisk
<1>8. Older' = Left(c) /\ Newer' = 0
  BY <1>1, <1>2, <1>4, <1>7 DEF Older, Newer
<1>9. Older = 0 /\ Newer = Left(c)
  BY <1>1, <1>2 DEF Older, Newer, Left
<1>10. Base' = Base /\ Base \in Nat /\ Left(c) \in Nat
  BY <1>1, CountTypes, WriteAssumption DEF Base, Types, Places
<1>11. Ordered'
  <2>1. Base + Left(c) + 0 = recorded /\ Base + 0 = Base
    BY <1>2, <1>9, <1>10 DEF Faithful, Ordered
  <2>2. \A i \in 1..Left(c) : slot[c][i] = Base + i
    BY <1>2, <1>9, <1>10 DEF Faithful, Ordered
  <2> QED BY <1>1, <1>2, <1>4, <1>8, <1>10, <2>1, <2>2 DEF Faithful, Ordered
<1> QED BY <1>5, <1>6, <1>11 DEF Faithful

\* The disk thread wakes up, looks at a buffer and takes it if it is full.
LEMMA TakeFaithful ==
  ASSUME Types, Types', Good => Faithful, Wake \/ WriteOther \/ WriteCurrent, Good'
  PROVE  Faithful'
<1> DEFINE c == buffer_index
           o == Other(buffer_index)
<1>1. /\ Same /\ UNCHANGED <<full, end_index, file>> /\ (failed' <=> failed)
      /\ \/ tpc = "sleep" /\ tpc' = "other" /\ Leaves /\ ~is_dead
         \/ tpc = "other" /\ tpc' = "write_other" /\ Takes(o)
         \/ tpc = "other" /\ tpc' = "eof" /\ Leaves
         \/ tpc = "eof" /\ tpc' = "write_current" /\ Takes(c)
         \/ tpc = "eof" /\ tpc' = "sleep" /\ Leaves
  BY TakeFacts
<1>2. Good /\ Faithful
  BY <1>1 DEF Good, Same, Leaves, Takes
<1>3. ~Writing /\ ~Written /\ ~Written'
  BY <1>1 DEF Writing, Written
<1>4. o # c
  BY OtherFacts DEF Types, Places
<1>5. is_open' /\ is_open
  <2>1. is_open
    BY <1>1, <1>2 DEF Faithful, Writes, Types, Told
  <2> QED BY <1>1, <2>1 DEF Same
<1>6. /\ Writing' => full[target'] /\ wfile' = opened /\ level' = end_index[target']
      /\ Writing' /\ target' = c => fpc \notin {"tick_level", "stop_level"} /\ ~full[o]
  <2>1. CASE ~Writing'
    BY <2>1
  <2>2. CASE tpc' = "write_other"
    BY <1>1, <1>4, <2>2 DEF Takes
  <2>3. CASE tpc' = "write_current"
    BY <1>1, <2>3 DEF Takes, Good
  <2> QED BY <2>1, <2>2, <2>3 DEF Writing
<1>7. Marks'
  BY <1>1, <1>2, <1>3, <1>6 DEF Faithful, Marks, Same
<1>8. Writes'
  BY <1>1, <1>3, <1>5, <1>6 DEF Writes, Same
<1>9. Base' = Base /\ Older' = Older /\ Newer' = Newer
  BY <1>1, <1>3, <1>5 DEF Base, Older, Newer, Left, Same
<1>10. Ordered'
  BY <1>1, <1>2, <1>5, <1>9, OrderedKept DEF Faithful, Ordered, Same
<1> QED BY <1>7, <1>8, <1>10 DEF Faithful

\* fts_audiofile_write appends the oldest ticks to the file.
LEMMA WriteFileFaithful ==
  ASSUME Types, Types', Good => Faithful, WriteFile, Good'
  PROVE  Faithful'
<1> DEFINE c == buffer_index
           o == Other(buffer_index)
<1>1. Same /\ UNCHANGED <<full, end_index>> /\ (raced' <=> raced) /\ Writing
  BY WriteFileFacts
<1>2. Good /\ Faithful
  BY <1>1, WriteFileFacts DEF Good, Same
<1>3. is_open /\ is_open' /\ ~Closed /\ full[target] /\ level = end_index[target]
  BY <1>1, <1>2 DEF Faithful, Writes, Same, Closed, Writing
<1>4. /\ file' = file \o SubSeq(slot[target], 1, level)
      /\ UNCHANGED <<target, wfile, level>> /\ Written' /\ ~Writing'
  <2>1. UNCHANGED <<target, wfile, level>> /\ Written' /\ ~Writing'
    BY <1>1, <1>3, WriteFileFacts DEF Writing, Written
  <2>2. PICK n \in 0..level : /\ file' = file \o SubSeq(slot[target], 1, n)
                              /\ failed' <=> failed \/ n < level
    BY <1>3, WriteFileFacts
  <2>3. ~(n < level)
    BY <2>2, Zenon DEF Good
  <2>4. n = level
    BY <2>3, WriteAssumption DEF Types, Places
  <2>5. file' = file \o SubSeq(slot[target], 1, level)
    BY <2>2, <2>4
  <2> QED BY <2>1, <2>5
<1>5. /\ c \in Buffers /\ o \in Buffers /\ o # c /\ (target = c \/ target = o)
      /\ slot[target] \in [1..Size -> 0..MaxTicks] /\ level \in 0..Size
      /\ file \in Seq(0..MaxTicks)
  BY OtherFacts DEF Types, Places, Shared
<1>6. /\ Len(file') = Len(file) + level
      /\ \A i \in 1..Len(file) : file'[i] = file[i]
      /\ \A i \in 1..level : file'[Len(file) + i] = slot[target][i]
  BY <1>4, <1>5, AppendFacts
<1>7. Marks'
  BY <1>1, <1>2, <1>4 DEF Faithful, Marks, Same
<1>8. Writes'
  BY <1>1, <1>2, <1>3, <1>4 DEF Faithful, Writes, Same
<1>9. /\ Left(target) = level /\ Left(target)' = 0
      /\ \A b \in Buffers \ {target} : Left(b)' = Left(b)
  <2>1. ~Written
    BY <1>1 DEF Writing, Written
  <2>2. Left(target) = level
    BY <1>3, <2>1 DEF Left
  <2>3. Left(target)' = 0
    BY <1>4 DEF Left
  <2>4. ASSUME NEW b \in Buffers \ {target} PROVE Left(b)' = Left(b)
    BY <1>1, <1>4, <2>1, <2>4 DEF Left
  <2> QED BY <2>2, <2>3, <2>4
<1>10. /\ Len(file) \in Nat /\ Older \in Nat /\ Newer \in Nat /\ level \in Nat
       /\ Base = Len(file) /\ Base' = Len(file) + level
  BY <1>3, <1>5, <1>6, CountTypes, WriteAssumption DEF Base
<1>11. \A i \in 1..level : slot[target][i] = Len(file) + i
  <2>1. CASE target = o
    BY <1>2, <1>9, <1>10, <2>1 DEF Faithful, Ordered, Older
  <2>2. CASE target = c
    <3>1. Older = 0
      BY <1>1, <1>2, <2>2 DEF Faithful, Writes, Older, Left
    <3>2. fpc \in {"swap", "stopped", "idle"}
      BY <1>1, <1>2, <1>3, <2>2 DEF Faithful, Marks, Types, Places, Steps
    <3>3. Newer = level
      BY <1>3, <1>9, <2>2, <3>2 DEF Newer
    <3>4. Base + Older = Len(file)
      BY <1>10, <3>1
    <3> QED BY <1>2, <2>2, <3>3, <3>4 DEF Faithful, Ordered
  <2> QED BY <1>5, <2>1, <2>2
<1>12. ASSUME NEW i \in 1..Len(file') PROVE file'[i] = i
  <2>1. CASE i \in 1..Len(file)
    BY <1>2, <1>3, <1>6, <2>1 DEF Faithful, Ordered
  <2>2. CASE i \notin 1..Len(file)
    <3>1. i - Len(file) \in 1..level /\ i = Len(file) + (i - Len(file))
      BY <1>6, <1>10, <2>2
    <3>2. file'[i] = slot[target][i - Len(file)]
      BY <1>6, <3>1
    <3>3. slot[target][i - Len(file)] = i
      BY <1>11, <3>1
    <3> QED BY <3>2, <3>3
  <2> QED BY <2>1, <2>2
<1>13. Ordered'
  <2>1. CASE target = o
    <3>1. Older = level /\ Older' = 0 /\ Newer' = Newer
      BY <1>1, <1>4, <1>5, <1>9, <2>1 DEF Older, Newer, Same
    <3>2. /\ Base' + 0 + Newer = recorded
          /\ Base' + 0 = Base + Older
      BY <1>2, <1>10, <3>1 DEF Faithful, Ordered
    <3> QED BY <1>1, <1>2, <1>12, <3>1, <3>2 DEF Faithful, Ordered, Same
  <2>2. CASE target = c
    <3>1. Older = 0
      BY <1>1, <1>2, <2>2 DEF Faithful, Writes, Older, Left
    <3>2. fpc \in {"swap", "stopped", "idle"}
      BY <1>1, <1>2, <1>3, <2>2 DEF Faithful, Marks, Types, Places, Steps
    <3>3. Newer = level /\ Newer' = 0 /\ Older' = 0
      BY <1>1, <1>3, <1>4, <1>5, <1>9, <2>2, <3>1, <3>2 DEF Newer, Older, Same
    <3>4. Base' + 0 + 0 = recorded
      BY <1>2, <1>10, <3>1, <3>3 DEF Faithful, Ordered
    <3> QED BY <1>1, <1>12, <3>3, <3>4 DEF Ordered, Same
  <2> QED BY <1>5, <2>1, <2>2
<1> QED BY <1>7, <1>8, <1>13 DEF Faithful

\* The disk thread marks the buffer empty and clears its level.
LEMMA ReturnFaithful ==
  ASSUME Types, Types', Good => Faithful, SetEmpty \/ SetZero, Good'
  PROVE  Faithful'
<1> DEFINE c == buffer_index
           o == Other(buffer_index)
<1>1. Same /\ file' = file /\ (failed' <=> failed)
  BY ReturnFacts
<1>2. Good /\ Faithful
  BY <1>1, ReturnFacts DEF Good, Same
<1>3. /\ c \in Buffers /\ o \in Buffers /\ o # c /\ target \in Buffers
      /\ (target = c \/ target = o)
      /\ full \in [Buffers -> BOOLEAN] /\ end_index \in [Buffers -> 0..Size]
  BY OtherFacts DEF Types, Places, Shared
<1>4. ~Writing' /\ ~Written'
  BY ReturnFacts DEF Writing, Written
<1>5. is_open /\ is_open'
  <2>1. tpc # "sleep"
    BY ReturnFacts
  <2> QED BY <1>1, <1>2, <2>1 DEF Faithful, Writes, Same
<1>6. Base' = Base
  BY <1>1, <1>5 DEF Base
<1>7. Writes'
  BY <1>4, <1>5 DEF Writes
<1>8. ASSUME Marks', Older' = Older, Newer' = Newer PROVE Faithful'
  <2>1. Ordered'
    BY <1>1, <1>2, <1>5, <1>6, <1>8, OrderedKept DEF Faithful, Ordered, Same
  <2> QED BY <1>7, <1>8, <2>1 DEF Faithful
<1>9. CASE SetEmpty
  <2>1. /\ full' = [full EXCEPT ![target] = FALSE] /\ end_index' = end_index
        /\ target' = target /\ Written
    BY <1>9, ReturnFacts DEF SetEmpty, SetZero, Written
  <2>2. ~full'[target] /\ \A b \in Buffers \ {target} : full'[b] <=> full[b]
    BY <1>3, <2>1
  <2>3. full[target] /\ (target = c => ~full[o])
    BY <1>2, <2>1 DEF Faithful, Writes
  <2>4. target = c => fpc \in {"idle", "swap", "stopped"}
    BY <1>2, <2>1, <2>3 DEF Faithful, Marks, Types, Places, Steps
  <2>5. Marks'
    BY <1>1, <1>2, <1>3, <1>4, <2>2, <2>4 DEF Faithful, Marks, Same
  <2>6. \A b \in Buffers : Left(b)' = Left(b)
    BY <1>3, <1>4, <2>1, <2>2 DEF Left
  <2>7. Older' = Older
    BY <1>1, <1>3, <2>6 DEF Older, Same
  <2>8. Newer' = Newer
    <3>1. CASE target = c /\ fpc = "idle"
      <4>1. Newer = 0
        BY <2>1, <2>3, <3>1 DEF Newer, Left
      <4>2. write_index = 0
        BY <1>2, <2>3, <3>1 DEF Faithful, Marks
      <4>3. Newer' = write_index
        BY <1>1, <2>2, <3>1 DEF Newer, Same
      <4> QED BY <4>1, <4>2, <4>3
    <3>2. CASE target = c /\ fpc \in {"swap", "stopped"}
      BY <1>1, <1>3, <2>6, <3>2 DEF Newer, Same
    <3>3. CASE target = o
      BY <1>1, <1>3, <2>2, <2>6, <3>3 DEF Newer, Same
    <3> QED BY <1>3, <2>4, <3>1, <3>2, <3>3
  <2> QED BY <1>8, <2>5, <2>7, <2>8
<1>10. CASE SetZero
  <2>1. /\ end_index' = [end_index EXCEPT ![target] = 0] /\ full' = full
        /\ ~full[target] /\ ~Written
    BY <1>10, ReturnFacts DEF SetEmpty, SetZero, Written, Good
  <2>2. \A b \in Buffers \ {target} : end_index'[b] = end_index[b]
    BY <1>3, <2>1
  <2>3. Marks'
    BY <1>1, <1>2, <1>4, <2>1 DEF Faithful, Marks, Same
  <2>4. \A b \in Buffers : Left(b)' = Left(b)
    BY <1>3, <1>4, <2>1, <2>2 DEF Left
  <2>5. Older' = Older /\ Newer' = Newer
    BY <1>1, <1>3, <2>1, <2>4 DEF Older, Newer, Same
  <2> QED BY <1>8, <2>3, <2>5
<1> QED BY <1>9, <1>10

-----------------------------------------------------------------------------
(* The theorems.                                                            *)

LEMMA InitIInv == ASSUME Init PROVE IInv
<1>1. Types
  BY InitTypes
<1>2. \A b \in Buffers : ~full[b]
  BY DEF Init
<1>3. buffer_index \in Buffers /\ Other(buffer_index) \in Buffers
  BY <1>1, OtherFacts DEF Types, Places
<1>4. Marks
  BY <1>2, <1>3 DEF Init, Marks
<1>5. Writes
  BY DEF Init, Writes, Writing, Written
<1>6. Base = 0 /\ Older = 0 /\ Newer = 0
  BY <1>2, <1>3 DEF Init, Base, Older, Newer, Left
<1>7. Ordered
  BY <1>6 DEF Init, Ordered
<1> QED BY <1>1, <1>4, <1>5, <1>7 DEF IInv

LEMMA NextIInv == ASSUME IInv, [Next]_vars PROVE IInv'
<1>1. Types /\ Types' /\ (Good => Faithful)
  BY TypesStep DEF IInv, Faithful
<1>2. ASSUME Good' PROVE Faithful'
  <2>1. CASE UNCHANGED vars
    BY <1>1, <1>2, <2>1
       DEF vars, bufferVars, indexVars, diskVars, countVars, Good, Faithful, Marks, Writes,
           Ordered, Base, Older, Newer, Left, Writing, Written
  <2>2. CASE Messages
    BY <1>1, <1>2, <2>2, CloseFaithful, OpenFaithful, OrderFaithful DEF Messages
  <2>3. CASE TickStore
    BY <1>1, <1>2, <2>3, TickStoreFaithful
  <2>4. CASE Handler
    BY <1>1, <1>2, <2>4, HandlerFaithful, SwapFaithful DEF Handler
  <2>5. CASE Disk
    BY <1>1, <1>2, <2>5, TakeFaithful, WriteFileFaithful, ReturnFaithful DEF Disk
  <2> QED BY <2>1, <2>2, <2>3, <2>4, <2>5 DEF Next
<1> QED BY <1>1, <1>2 DEF IInv, Faithful

LEMMA Inductive == Spec => []IInv
BY InitIInv, NextIInv, PTL DEF Spec

\* A tick that is stored lies inside its buffer, and so on, whatever FTS and
\* the disk thread do to each other.
THEOREM TypeCorrect == Spec => []TypeOK
<1>1. IInv => TypeOK
  <2> SUFFICES ASSUME Types PROVE TypeOK
    BY DEF IInv
  <2>1. {is_open, is_started, is_eof, is_dead, overrun, raced, failed} \subseteq BOOLEAN
    BY DEF Types, Flags
  <2>2. \A b \in Buffers : /\ slot[b] \in [1..Size -> 0..MaxTicks]
                           /\ full[b] \in BOOLEAN
                           /\ end_index[b] \in 0..Size
    BY DEF Types, Shared
  <2>3. {buffer_index, target} \subseteq Buffers
    BY DEF Types, Places
  <2>4. write_index \in 0..(IF fpc = "idle" THEN Size - 1 ELSE Size)
    BY WriteAssumption DEF Types, Places
  <2>5. file \in Seq(0..MaxTicks)
    BY DEF Types, Shared
  <2>6. /\ level \in 0..Size /\ wfile \in 0..opened
        /\ fpc \in Steps /\ tpc \in Stages
        /\ recorded \in 0..MaxTicks /\ opened \in 0..MaxOpen /\ orders \in 0..MaxOrders
    BY DEF Types, Places
  <2> QED BY <2>1, <2>2, <2>3, <2>4, <2>5, <2>6, Zenon DEF TypeOK, Steps, Stages
<1> QED BY <1>1, Inductive, PTL

\* The file holds the ticks as they were recorded, and the ones that it does
\* not hold are still in a buffer that will be written, however the messages
\* and the two threads interleave, up to an overrun, a lost race or a failed write.
THEOREM FileFaithfulThm == Spec => []FileFaithful
<1>1. ASSUME IInv PROVE FileFaithful
  <2> SUFFICES ASSUME Good, is_open
               PROVE  /\ file = Numbers(Len(file))
                      /\ \A t \in 1..recorded : Contains(file, t) \/ InBuffer(t)
    BY DEF FileFaithful, Good
  <2>1. Types /\ Ordered
    BY <1>1 DEF IInv
  <2>2. /\ Len(file) \in Nat /\ Older \in 0..Size /\ Newer \in 0..Size
        /\ Size \in Nat /\ MaxTicks \in Nat /\ recorded \in Nat /\ Base = Len(file)
    BY <2>1, CountTypes, WriteAssumption DEF Types, Places, Base
  <2>3. \A i \in 1..Len(file) : file[i] = i
    BY <2>1 DEF Ordered
  <2>4. file = Numbers(Len(file))
    <3>1. file \in [1..Len(file) -> 0..MaxTicks]
      BY <2>1, LenProperties DEF Types, Shared
    <3> QED BY <2>3, <3>1 DEF Numbers
  <2>5. ASSUME NEW t \in 1..recorded PROVE Contains(file, t) \/ InBuffer(t)
    <3>1. Len(file) + Older + Newer = recorded
      BY <2>1, <2>2 DEF Ordered
    <3>2. CASE t <= Len(file)
      <4>1. t \in 1..Len(file) /\ file[t] = t
        BY <2>2, <2>3, <3>2
      <4> QED BY <4>1 DEF Contains
    <3>3. CASE t > Len(file) /\ t <= Len(file) + Older
      <4> DEFINE i == t - Len(file)
                 o == Other(buffer_index)
      <4>1. i \in 1..Older /\ Len(file) + i = t
        BY <2>2, <3>3
      <4>2. slot[o][i] = t
        BY <2>1, <2>2, <4>1 DEF Ordered
      <4>3. o \in Buffers /\ full[o] /\ Older = end_index[o]
        <5>1. Older # 0
          BY <2>2, <4>1
        <5> QED BY <2>1, <5>1, OtherFacts DEF Types, Places, Older, Left
      <4> QED BY <4>1, <4>2, <4>3 DEF InBuffer
    <3>4. CASE t > Len(file) + Older
      <4> DEFINE i == t - (Len(file) + Older)
                 c == buffer_index
      <4>1. i \in 1..Newer /\ Len(file) + Older + i = t
        BY <2>2, <3>1, <3>4
      <4>2. slot[c][i] = t
        BY <2>1, <2>2, <4>1 DEF Ordered
      <4>3. c \in Buffers /\ (Newer = write_index \/ (full[c] /\ Newer = end_index[c]))
        <5>1. Newer # 0
          BY <2>2, <4>1
        <5> QED BY <2>1, <5>1 DEF Types, Places, Newer, Left
      <4> QED BY <4>1, <4>2, <4>3 DEF InBuffer
    <3> QED BY <2>2, <3>2, <3>3, <3>4
  <2> QED BY <2>4, <2>5
<1> QED BY <1>1, Inductive, PTL
=============================================================================
