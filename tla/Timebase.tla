------------------------------ MODULE Timebase ------------------------------
(***************************************************************************)
(* The alarms of the main time base, fts/time.c.  Everything runs in the    *)
(* FTS thread, but the method of an alarm sends messages through the patch, *)
(* and so may add alarms, remove or flush those of any object and delete    *)
(* objects while fts_timebase_advance or fts_timebase_flush_object is still *)
(* walking the list: the calls in progress are a stack of frames.           *)
(*                                                                          *)
(* An alarm (fts_timebase_entry_t) refers to its object from the moment it  *)
(* is added until it is freed.  Time is counted in the smallest delay that  *)
(* matters.                                                                 *)
(***************************************************************************)
EXTENDS Integers, Sequences, FiniteSets, SequencesExt, Lists

CONSTANTS Objects,
          Step,         \* the tick step of the time base
          Delays,       \* delays given to fts_timebase_add_call
          MaxAlarms,    \* bound on the alarms ever added
          MaxTime,      \* no tick begins after this time
          MaxDepth      \* bound on nested calls

ASSUME TimebaseAssumption == /\ Step \in Nat \ {0}
                             /\ Delays \subseteq Int
                             /\ {MaxAlarms, MaxTime, MaxDepth} \subseteq Nat

VARIABLES time,      \* logical time of the time base
          target,    \* the time the running tick advances to
          entries,   \* the list of alarms, in the order of the list
          frames,    \* the calls of advance and flush in progress
          added,     \* alarms added so far: an alarm's name is its number
          fired,     \* alarms whose method has been called
          held,      \* objects the patch refers to
          refcnt,    \* reference counts
          destroyed, \* objects that have been destroyed
          dangling,  \* has a freed entry been followed?
          foreign    \* history: has a method called by a flush removed or
                     \* flushed alarms of another object?

vars == <<time, target, entries, frames, added, fired, held, refcnt, destroyed,
          dangling, foreign>>

Head0 == 0         \* the pointer &timebase->entries
NoAlarm == [n |-> 0]

Alarm == [n : 1 .. MaxAlarms, time : Nat, object : Objects]

Top == Last(frames)
Running == {frames[i].entry : i \in DOMAIN frames} \ {NoAlarm}

\* The FTS thread is in a method, or between two ticks, and may call the
\* operations of the time base.
InMethod == /\ ~dangling
            /\ frames # <<>> => Top.entry # NoAlarm

Init == /\ time = 0 /\ target = 0
        /\ entries = <<>> /\ frames = <<>>
        /\ added = 0 /\ fired = {}
        /\ held = Objects
        /\ refcnt = [o \in Objects |-> 1]
        /\ destroyed = {}
        /\ dangling = FALSE /\ foreign = FALSE

-----------------------------------------------------------------------------
(* References.  fts_object_release destroys an object whose count drops to  *)
(* zero.                                                                    *)

Release(o, k) == /\ refcnt' = [refcnt EXCEPT ![o] = @ - k]
                 /\ destroyed' = IF k > 0 /\ refcnt[o] = k
                                 THEN destroyed \cup {o} ELSE destroyed

Refer(o) == refcnt' = [refcnt EXCEPT ![o] = @ + 1] /\ UNCHANGED destroyed

Of(o) == {i \in DOMAIN entries : entries[i].object = o}

-----------------------------------------------------------------------------
(* Operations called from a method or between ticks.                        *)

\* Mutant: a new alarm goes before the alarms of the same time.
timebase_insert_entry_Before(e) ==
  LET later == SelectInSeq(entries, LAMBDA x : x.time >= e.time)
  IN  IF later = 0 THEN Append(entries, e) ELSE InsertAt(entries, later, e)

\* The list is ordered by time; a new alarm goes behind those of its time.
timebase_insert_entry(e) ==
  LET later == SelectInSeq(entries, LAMBDA x : x.time > e.time)
  IN  IF later = 0 THEN Append(entries, e) ELSE InsertAt(entries, later, e)

\* Mutant: a negative delay is added to the time.
When_Unchecked(delay) == time + delay

\* A delay that is not positive means now.
When(delay) == IF delay > 0 THEN time + delay ELSE time

\* Mutant: the entry does not claim its object.
fts_timebase_add_call_NoRefer(o, delay) ==
  /\ InMethod
  /\ o \notin destroyed
  /\ added < MaxAlarms
  /\ added' = added + 1
  /\ entries' = timebase_insert_entry([n |-> added + 1, time |-> When(delay), object |-> o])
  /\ UNCHANGED <<time, target, frames, fired, held, refcnt, destroyed,
                                  dangling, foreign>>

\* The delay counts from the logical time, which during a tick is the time of
\* the alarm being fired.
fts_timebase_add_call(o, delay) ==
  /\ InMethod
  /\ o \notin destroyed
  /\ added < MaxAlarms
  /\ added' = added + 1
  /\ entries' = timebase_insert_entry([n |-> added + 1, time |-> When(delay), object |-> o])
  /\ Refer(o)
  /\ UNCHANGED <<time, target, frames, fired, held, dangling, foreign>>

\* Removing or flushing the alarms of o while a flush of another object is
\* in progress.
Foreign(o) == foreign' = (foreign \/ \E i \in DOMAIN frames :
                            frames[i].kind = "flush" /\ frames[i].object # o)

fts_timebase_remove_object(o) ==
  /\ InMethod
  /\ o \notin destroyed
  /\ Of(o) # {}
  /\ Foreign(o)
  /\ entries' = Without(entries, {e \in ToSet(entries) : e.object = o})
  /\ Release(o, Cardinality(Of(o)))
  /\ UNCHANGED <<time, target, frames, added, fired, held, dangling>>

\* The patch deletes an object: its own reference goes.  (The destructor of an
\* object that removes its alarms finds none in the list: each was a
\* reference.  A patcher that deletes its contents is a series of these.)
DeleteObject(o) == /\ InMethod
                   /\ o \in held
                   /\ held' = held \ {o}
                   /\ Release(o, 1)
                   /\ UNCHANGED <<time, target, entries, frames, added, fired,
                                  dangling, foreign>>

-----------------------------------------------------------------------------
(* fts_timebase_flush_object: p is the address of the next field of the     *)
(* entry it stands behind (or of the head of the list), kept across the     *)
(* calls of the methods.                                                    *)

FlushBegin(o) == /\ InMethod
                 /\ o \notin destroyed
                 /\ Foreign(o)
                 /\ Len(frames) < MaxDepth
                 /\ frames' = Append(frames, [kind |-> "flush", object |-> o,
                                              p |-> Head0, entry |-> NoAlarm])
                 /\ UNCHANGED <<time, target, entries, added, fired, held, refcnt,
                                destroyed, dangling>>

\* The place in the list that p points to: behind the entry named p.
PlaceOf(p) == IF p = Head0 THEN 1
              ELSE 1 + SelectInSeq(entries, LAMBDA e : e.n = p)

\* Mutant of FlushStep: p moves into the entry that is about to be freed.
FlushStep_Past ==
  /\ frames # <<>> /\ Top.kind = "flush" /\ Top.entry = NoAlarm /\ ~dangling
  /\ LET lost  == Top.p # Head0 /\ \A i \in DOMAIN entries : entries[i].n # Top.p
         place == PlaceOf(Top.p)
     IN \/ lost /\ dangling' = TRUE /\ UNCHANGED <<frames, entries, fired>>
        \/ /\ ~lost /\ place > Len(entries)
           /\ frames' = Front(frames)
           /\ UNCHANGED <<dangling, entries, fired>>
        \/ /\ ~lost /\ place <= Len(entries) /\ entries[place].object = Top.object
           /\ frames' = [frames EXCEPT ![Len(frames)].entry = entries[place],
                                      ![Len(frames)].p = entries[place].n]
           /\ entries' = RemoveAt(entries, place)
           /\ fired' = fired \cup {entries[place].n}
           /\ UNCHANGED dangling
        \/ /\ ~lost /\ place <= Len(entries) /\ entries[place].object # Top.object
           /\ frames' = [frames EXCEPT ![Len(frames)].p = entries[place].n]
           /\ UNCHANGED <<dangling, entries, fired>>
  /\ UNCHANGED <<time, target, added, held, refcnt, destroyed, foreign>>

FlushStep ==
  /\ frames # <<>> /\ Top.kind = "flush" /\ Top.entry = NoAlarm /\ ~dangling
  /\ LET lost  == Top.p # Head0 /\ \A i \in DOMAIN entries : entries[i].n # Top.p
         place == PlaceOf(Top.p)
     IN \/ \* the entry p lies in has been freed
           /\ lost
           /\ dangling' = TRUE
           /\ UNCHANGED <<frames, entries, fired>>
        \/ \* the end of the list
           /\ ~lost /\ place > Len(entries)
           /\ frames' = Front(frames)
           /\ UNCHANGED <<dangling, entries, fired>>
        \/ \* an alarm of the object: remove it and call its method
           /\ ~lost /\ place <= Len(entries) /\ entries[place].object = Top.object
           /\ frames' = [frames EXCEPT ![Len(frames)].entry = entries[place]]
           /\ entries' = RemoveAt(entries, place)
           /\ fired' = fired \cup {entries[place].n}
           /\ UNCHANGED dangling
        \/ \* an alarm of another object: pass
           /\ ~lost /\ place <= Len(entries) /\ entries[place].object # Top.object
           /\ frames' = [frames EXCEPT ![Len(frames)].p = entries[place].n]
           /\ UNCHANGED <<dangling, entries, fired>>
  /\ UNCHANGED <<time, target, added, held, refcnt, destroyed, foreign>>

-----------------------------------------------------------------------------
(* fts_timebase_advance.                                                    *)

AdvanceBegin == /\ frames = <<>> /\ ~dangling
                /\ time <= MaxTime
                /\ target' = time + Step
                /\ frames' = <<[kind |-> "advance", entry |-> NoAlarm]>>
                /\ UNCHANGED <<time, entries, added, fired, held, refcnt, destroyed,
                               dangling, foreign>>

\* Mutant of Due: only alarms that were due before the tick are fired.
Due_Before == entries # <<>> /\ Head(entries).time < time

Due == entries # <<>> /\ Head(entries).time < target

Advancing == frames # <<>> /\ Top.kind = "advance" /\ Top.entry = NoAlarm /\ ~dangling

\* Mutant of FireNext: the alarm stays in the list while its method runs.
FireNext_Keep == /\ Advancing /\ Due
                 /\ time' = Head(entries).time
                 /\ fired' = fired \cup {Head(entries).n}
                 /\ frames' = [frames EXCEPT ![Len(frames)].entry = Head(entries)]
                 /\ UNCHANGED <<target, entries, added, held, refcnt, destroyed,
                                  dangling, foreign>>

\* The first alarm leaves the list, the logical time becomes its time and its
\* method is called.
FireNext == /\ Advancing /\ Due
            /\ entries' = Tail(entries)
            /\ time' = Head(entries).time
            /\ fired' = fired \cup {Head(entries).n}
            /\ frames' = [frames EXCEPT ![Len(frames)].entry = Head(entries)]
            /\ UNCHANGED <<target, added, held, refcnt, destroyed,
                                  dangling, foreign>>

AdvanceEnd == /\ Advancing /\ ~Due
              /\ time' = target
              /\ frames' = <<>>
              /\ UNCHANGED <<target, entries, added, fired, held, refcnt, destroyed,
                                  dangling, foreign>>

\* The method returns and its entry is freed (advance and flush alike).
MethodEnd == /\ frames # <<>> /\ Top.entry # NoAlarm /\ ~dangling
             /\ frames' = [frames EXCEPT ![Len(frames)].entry = NoAlarm]
             /\ Release(Top.entry.object, 1)
             /\ UNCHANGED <<time, target, entries, added, fired, held, dangling, foreign>>

-----------------------------------------------------------------------------
Operation == \E o \in Objects :
               \/ \E d \in Delays : fts_timebase_add_call(o, d)
               \/ fts_timebase_remove_object(o)
               \/ FlushBegin(o)
               \/ DeleteObject(o)

Loop == FlushStep \/ AdvanceBegin \/ FireNext \/ AdvanceEnd \/ MethodEnd

Next == Operation \/ Loop

\* The audio manager runs a tick again and again, whatever messages arrive
\* between two ticks, and a method returns after finitely many operations.
Spec == /\ Init /\ [][Next]_vars
        /\ WF_vars(Loop) /\ SF_vars(AdvanceBegin) /\ SF_vars(MethodEnd)

-----------------------------------------------------------------------------
(* Properties.                                                              *)

\* Type invariant.
TypeOK == /\ time \in Nat /\ target \in Nat
          /\ entries \in Seq(Alarm)
          /\ Len(frames) <= MaxDepth + 1
          /\ Running \subseteq Alarm
          /\ added \in 0 .. MaxAlarms
          /\ fired \subseteq 1 .. added
          /\ held \subseteq Objects /\ destroyed \subseteq Objects
          /\ refcnt \in [Objects -> Nat]
          /\ {dangling, foreign} \subseteq BOOLEAN

\* The list is ordered by time, alarms of one time in the order in which they
\* were added, and no alarm lies in the past of the logical time: methods that
\* add alarms in the middle of a tick cannot break either.
Ordered == /\ \A i, j \in DOMAIN entries : i < j =>
                \/ entries[i].time < entries[j].time
                \/ entries[i].time = entries[j].time /\ entries[i].n < entries[j].n
           /\ \A i \in DOMAIN entries : entries[i].time >= time

\* When a tick ends, every alarm before its end has been fired and none of
\* those left was fired before: no alarm is late, early or fired twice.  On
\* the way time does not go back: "An FTS timebase is a monotonous time base."
TickComplete == [][/\ time' >= time
                   /\ frames # <<>> /\ frames' = <<>> /\ Top.kind = "advance" =>
                        \A i \in DOMAIN entries :
                           entries[i].time >= time' /\ entries[i].n \notin fired]_vars

\* The count of an object is the number of those who refer to it: the patch,
\* its alarms in the list and its alarms whose method is running.  So a method
\* is never called for, and never runs in, a destroyed object.
RefsExact ==
  /\ \A o \in Objects :
       refcnt[o] = (IF o \in held THEN 1 ELSE 0) + Cardinality(Of(o))
                     + Cardinality({e \in Running : e.object = o})
  /\ \A e \in ToSet(entries) \cup Running : e.object \notin destroyed

\* The pointer the flush keeps across a method call stays valid as long as
\* the methods it calls leave the alarms of other objects alone.
NoDangling == dangling => foreign

\* A method adds an alarm that a call in progress will come to: one that is
\* due in the running tick (a delay that is not positive makes one) or one of
\* the object that is being flushed.
Chases == \E i \in DOMAIN frames, e \in ToSet(entries') :
             /\ added' = added + 1 /\ e.n = added'
             /\ \/ frames[i].kind = "advance" /\ e.time < target
                \/ frames[i].kind = "flush" /\ e.object = frames[i].object

\* Every alarm before the last tick is fired or removed in the end, provided
\* that methods do not for ever add alarms that the loop which called them has
\* still to come to: those would keep the while of fts_timebase_advance, or of
\* fts_timebase_flush_object, from ending.  (In a run MaxAlarms sees to that;
\* the code does nothing about it.)
NothingForgotten == (<>[][~Chases]_vars) => \A n \in 1 .. MaxAlarms :
   (\E i \in DOMAIN entries : entries[i].n = n /\ entries[i].time <= MaxTime)
     ~> (dangling \/ \A i \in DOMAIN entries : entries[i].n # n)
=============================================================================
