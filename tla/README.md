# jMax / FTS: a TLA+ verification project

jMax is a visual programming environment for real-time audio.  Its core is
FTS, a server in C (`fts/`, `include/fts/`, and the loadable `packages/`) that
runs patches; a Java client edits them over a socket or pipe.  This directory
models the control logic of FTS: everything where a wrong order of steps, a
stale pointer or a full queue would hurt, and that a unit test hardly reaches.

## 1. The system: inventory

FTS is one main thread (the *scheduler loop*: poll callbacks, run the audio
manager, advance the time base by one tick, run the compiled DSP program) plus
helper threads that talk to it through lock-free fifos or shared flags.

| component | state it keeps | operations | what makes it correct |
|---|---|---|---|
| fifo (`fts/fifo.c`) | read and write index in bytes | levels, increments | one reader and one writer without a lock: nothing lost, torn, repeated, reordered |
| thread manager (`fts/thread.c`, `fts/linux.c`) | a create and a cancel fifo, `is_dead` and `id` of each worker | create, cancel; the manager's polling loop; the workers' loops | a request is honoured once, in order; a cancelled worker stops; nobody else's thread is cancelled |
| disk streaming (`packages/dtd`) | two communication buffers, flags, file | open, close, start, stop, pause, delete, DSP tick; disk thread | disk thread and tick never in the same buffer; the file is played in order; no use after free |
| time base (`fts/time.c`) | logical time, ordered alarm list, slaves | add call, remove, flush, advance, locate, slaves | alarms fire once, in time order, in their tick; time never runs backwards |
| scheduler (`fts/sched.c`) | callback list, run status | add, remove, run, halt | the list may change under the iteration that calls it |
| DSP graph (`fts/dspgraph.c`) | objects, predecessor counts, signals and their reference counts, program | add, remove, compile, run, reset | the program is a topological order; a signal is not reused while it has readers; loops are refused |
| DSP control (`fts/dsp.c`, `fts/sigconn.c`) | active flag, sample rate, the main graph, the table of signal connections | activate, desactivate, restart, set sample rate, tick | the chain that runs is the chain of the current objects, connections and rate; edits leave DSP as the user wants it |
| objects (`fts/object.c`) | reference counts, client ids, listeners | create, destroy, refer, release | freed once, when nobody refers to it |
| connections (`fts/connection.c`) | connection lists at outlets and inlets | new, delete | both ends agree, no duplicates |
| parameters (`fts/param.c`) | value, listeners | set, add and remove listener | listeners called once each |
| client (`fts/client.c`, `fts/clientmanager.c`) | object table, symbol cache, protocol automaton | register, release, decode, handlers | ids are unique, a message is decoded or skipped as a whole |
| audio ports and labels (`fts/audio.c`) | port list, label to port, use counts | set port, set channel, rename, tick | a port is open exactly while a label uses it |
| MIDI (`fts/midi.c`) | midi fifo, ports, labels | poll, write, listeners | events keep order and are delivered once |
| jack manager (`packages/jack`) | run fifo of multi-atom commands | open, close, connect, activate | a command arrives whole |
| watchdog (`fts/linux.c`) | alarm counters | arm, high, low | a stuck engine is lowered in priority |
| patchers (`fts/patcher.c`, `patcherobject.c`) | object tree, connections | add, redefine, delete, on request of the client | DSP is switched off before a change of the running chain and on again after it |
| definitions, variables, templates (`define.c`, `variable.c`, `template.c`) | name tables | define, change | every user of a name sees its latest value |
| ftl, memory, hashtable, list, symbols | containers, program memory | insert, remove, compile | container semantics |
| files (`patfile.c`, `bmaxfile.c`, `midifile.c`, `atomfile.c`) | readers and writers | load, save | formats, I/O |
| packages of classes (`signal`, `control`, `ispw`, `data`, `numeric`, `sequence`, ...) | per-object DSP and data code | messages, DSP functions | numeric and per-class behaviour |
| Java client (`java/`, `client/`) | GUI | editing | user interface |

How they interact: the scheduler loop calls the audio manager, which calls
`fts_dsp_run_tick`, which advances the main time base (firing alarms, which may
add and remove alarms, objects and callbacks) and then runs the DSP program;
`readsf~` in that program exchanges buffers with a disk thread, which the
thread manager started because `readsf_open` put a worker in its create fifo.
A request of the client that edits the patch switches DSP off by setting a
parameter, whose listeners run in the middle of the request and may switch DSP
themselves, changes objects and connections, and switches DSP on again.

The behaviours that are hard: the fifo's two threads without a lock; create
and cancel requests that travel in two queues; users that open, close and
delete faster than the manager polls; methods that change the very list
(alarms, callbacks) whose walk called them; signals reused by the DSP compiler
as soon as their count is zero; two buffers shared by the DSP tick and the disk
thread without a lock; edits that are interrupted by the listeners they call.
`PROJECT.json` lists them as hazards, each at its line.

## 2. The modules

Each specification module has its bounds as CONSTANTS, one action per
operation or step of a loop, mutated forms of some definitions (named
`Definition_What`, each a plausible slip in that code; nothing uses them in
the specification) and its properties at the end.  The `MC*` modules give the
constants their values; a module `XProofs` holds the theorems about `X`
(section 5).

**Fifo, FifoChannel, Channel, FifoProofs.**  `Fifo` holds the five functions of
`fifo.c` as operators on the record of buffer size and two byte indices.
`FifoChannel` runs a writer and a reader on it, one action per access to shared
memory: the writer tests the level (`WriteBegin`), fills the slot (`WriteEnd`)
and moves the index (`Publish`).  The code has two kinds of readers: the thread
manager moves the read index *before* it looks at the element (`Take`,
`FetchTaken`), the MIDI poll looks and then moves (`Peek`, `Consume`); both are
actions and every run of the reader may be of either kind.  `Channel` is the
abstract specification: a bounded channel with `Send` and `Receive`, in which an
element is its place in the stream of everything ever sent.  The refinement
mapping takes an element as sent when the write index moves and as received
when the reader has fetched it.
Assumption: memory operations of one thread are seen in program order (x86, as
the code has no barriers).

**ThreadManager.**  The FTS thread's handlers (`Open`, `Close`, `Delete`) are
lists of steps (`todo`): the two halves of `fts_thread_manager_create_thread`
and `..._cancel_thread` and the `free` of `readsf_delete`, so that the manager
and the workers may run between any two of them.  The manager's loop is
`TakeCreate`, `StartThread` or `StartFails`, `TakeCancel`, `CancelThread`; a
worker's loop is `TestDead`, `MethodDone`, `WakeUp`, and `Die` where a pending
cancellation takes effect (pthreads; external).  `worker->id` is what malloc
left there until `pthread_create` sets it; a field of a freed worker is read as
any value.  Thread identifiers are used again after a thread has ended, as
pthreads allows.  The fifos are bounded sequences: that is what FifoChannel
shows them to be.  The variable `calm`, chosen at the start, distinguishes two
environments: in a calm one, `pthread_create` succeeds and a user does not begin
a new operation before the last one has taken effect; in the other one anything
goes.  The code does not enforce calm, so properties that need it say so, and
their unconditional forms are the ones that fail (section 4).

**Lists.**  `Without(s, R)` is what the loop that unlinks entries from a list as it
walks it leaves (`fts_sched_remove`, `fts_timebase_remove_object`): the entries
at the places it keeps (`Kept`), the `k`-th of them (`KeptPlace`) at place `k`.
Sched, Timebase and DspGraph use it.

**Timebase.**  The alarm list in list order; the calls of
`fts_timebase_advance` and `fts_timebase_flush_object` in progress are a stack
of frames, because a method called by either may call everything again.
`fts_timebase_add_call`, `fts_timebase_remove_object`, `FlushBegin` and
`DeleteObject` (a patch releases the object and `fts_object_destroy` frees it with
its last reference) happen between ticks and inside methods.  What destructors
do to the list is left to these actions.
The frame of a flush keeps `p`, the address of a `next` field, as the name of
the entry it lies in; if that entry is gone when the flush goes on, `dangling`
becomes true and the model stops.  References are counted as
`fts_timebase_entry_set` and `_reset` do.  `foreign` is a history variable.
Slave time bases are left out: nothing in the repository adds one.

**Sched.**  The callback list, walked twice per turn.  `Visit` reads `next` and
calls the method; in the method, `fts_sched_add`, `fts_sched_remove` and
`fts_sched_halt` may happen any number of times; `MethodEnd` goes to `next`,
and `VisitFreed` is the step to a callback that is not allocated any more.
`select` returns any subset of what it was asked about.  No class of the
repository defines `sched_error`, so the error branch is never taken.  The
parameter that `fts_sched_halt` sets for listeners is left out.  `others` is a
history variable.

**DspGraph.**  Edits (`Connect`, `fts_dsp_graph_add_object`,
`fts_dsp_graph_remove_object`, `fts_dsp_graph_reset`) alternate with
compilations.  A compilation is the code's recursion as a stack of frames: an
object is scheduled (`ScheduleNode`: inputs unreferenced), gets its outputs
(`GenOutput`), puts its call (`PutNode`), then every connection decrements the
count of its successor and passes the signal (`Edge`: order forcing, first
signal, or a sum), unused outputs are freed (`EdgesEnd`), and successors that
have become ready are scheduled (`Depth`).  Signals are named by the order in
which they were made and found from the latest, as in the code's list.
`Content` is the reference definition: what each signal holds after every
instruction of the program, as the set of outlets summed up in it, or `Stale`.  An
instruction knows the number of samples it reads (`size`) and a sum whether its
signals have one length (`even`): the sum of two lengths reads behind the end of
one or leaves a part of the other out (`dspgraph.c:628`), and is `Stale`;
`sig_zero` has a tick of samples, and who reads more of it (`dspgraph.c:449`) reads
what lies behind (`Reads`).  Both happen behind `up~` and `down~`.

Abstracted: the graph iterator's way through patchers, inlets and labels (a
connection leads to the DSP object reached in the end).  With it goes the case
that one outlet reaches one inlet in several ways: the compiler sums each of them
and reads the kind of the direct connection for all (`dspgraph.c:613`); here one
connection leads from an outlet to an inlet.  Left out: the message
`put_after_successors` at the end of the walk from an object (`dspgraph.c:665`),
with which `switch~` (`packages/ispw/c/src/sigswitch.c:75`) makes the calls put
in the walk a subroutine that runs only while it is open, so the model's programs
have no calls that are skipped; type and range checks of connections; the calls
objects add in prologue and epilogue, which use no signals.  The calls an object
adds in `put` are one instruction that reads all inputs before it writes outputs.
`GraphAssumption`: finitely many objects, inlets and outlets, numbered from 1,
outlets without a gap in their numbers, and objects that leave the length of a
vector alone, double it or halve it, as those of the repository do (the code
shifts by any number).

**ReadSf.**  `readsf~` and `dtd_thread_read`.  FTS is one thread: a tick is cut
where the disk thread may step in (`TickFirst`, `TickSecond`, `TickSilence`,
`TickCopy`; `TickStopped` and `TickEof` are its early returns), messages and the
alarm at the end of the file come between ticks.  The disk thread tests
`is_dead` (`Wake`), chooses the buffer FTS does not use (`Choose`), reads
(`ReadFile`, or `ReadClosed` when the file was closed under it), and stores
`full`, `end_index` and `is_eof` in that order.  A frame is its file and its
place in it, so that the properties see what is heard.  The variable `calm`
again chooses between two environments: in a calm one the thread sleeps its
50 ms (`Rest` ticks) between two calls, and nobody closes the file while the
method runs or the alarm is due.  `heard` is a history variable: the frames
played, or `Spoilt` after something that makes the code lose its place.

**WriteSf.**  `writesf~` and `dtd_thread_write`, in the same way; the unit is a
tick.  `writesf_stop` and the end of a tick store `full` before `end_index`
(`SetFull`, `SetEnd`), and the disk thread may act in between.  `overrun`,
`raced` and `failed` are histories: the tick never tests `full`, the disk thread may
meet a buffer whose level is not told yet or is being told again, and
`fts_audiofile_write` may write less than it was given, or nothing, which
`dtd_thread_write` does not look at before it marks the buffer empty.

**DspControl.**  One thread, but nested handlers: `todo` lists the steps the
current handler has still to do, and what a listener does is put in front of
them.  `SetActive` is `fts_param_set_int`; `React` is the object `dsp` of
`packages/system`, whose outlet may lead back to a message that switches DSP, also
in the middle of an edit, where it is the edit's own switching on that has the
last word (`Restarts`);
`SwitchGraph` is the listener of `dsp.c`, called last, which sees the value
through a pointer.  The requests (`DeleteObject`, `RedefineObject`,
`DeleteConnection`, `AddObject`, `AddConnection`, `DeleteAbandoned` for the early
return on an object that does not exist any more) queue the switching off, the
change and the switching on, as the code decides; `RecomputeObject` is
`fts_object_recompute`, which does not switch anything.  A compiled chain is the
objects and connections it was made from; how it is scheduled is DspGraph's.
Connections have identities and a type, so that a moved connection is not the
old one.  A redefined object is of the same kind as before: error objects are
left out.  The histories say what was asked for (`wanted`) and what happened
behind the back of the graph: an object of the chain was replaced (`foreign`), a
request given up half way (`abandoned`), audio connections deleted since the last
reset (`dropped`) or moved to another object (`moved`), while the chain ran.

Abstract specifications: `Channel` for the fifo.  For the compiler, `Content`
and `Blocked` play that role as reference definitions.

## 3. The runs that pass

| run | instance | what it shows |
|---|---|---|
| `fifo` | elements of 3 bytes, 4 slots, 12 elements | the writer never touches a slot the reader still points to (`NoOverwrite`), elements are fetched whole and in order (`InOrder`), every one in the end (`Delivered`), and the fifo implements `Channel` (`Implements`) |
| `threads` | 2 workers, 2 thread identifiers, fifos of 2; 6 calm or 3 other requests | calm: one thread per worker (`OneThread`), cancels reach their own (`CancelsOwn`), workers end when closed and run while open (`FollowsUser`).  Always: no request is stuck (`RequestsTaken`) and a closed worker falls silent (`QuietAfterClose`) |
| `timebase` | 2 objects, 3 alarms, delays -1, 1, 2 with step 2, 2 ticks, nesting 2 | the list stays ordered and not in the past (`Ordered`), time is monotonous and a tick leaves nothing due and repeats nothing (`TickComplete`), every alarm goes in the end, if methods do not for ever add alarms that are due at once (`NothingForgotten`), references are exact, so that no method runs in a destroyed object (`RefsExact`), and the pointer of a flush stays valid while its methods leave other objects' alarms alone (`NoDangling`) |
| `sched` | 2 objects, 1 descriptor, 3 callbacks | nobody is skipped, called twice or called before select has looked (`OnceEach`); removing the running callback is safe (`RemoveIsSafe`); callbacks that always run are served (`AlwaysServed`) |
| `dsp` | 4 objects with 2 inlets and 2 outlets, one resampling, 14 possible wires, 4 edits | counts are the readers left (`CountsExact`), every inlet whose sources have one length hears exactly their sum (`HearsItsSources`), the order respects every connection and leaves out exactly the objects on or behind loops (`Sequential`), compilation ends (`Terminates`) |
| `readsf` | ticks of 2 frames, buffers of 2 ticks, files of 7 and 8 frames, 2 opens, 4 calm or 1 other message | calm: ticks play the file in order, untorn and without gaps, however late the disk is (`PlaysInOrder`); the end is signalled after the last whole tick (`EofIsReal`), and it is (`EofComes`); a closed file is neither heard nor read (`OldFileIsGone`).  Always: indices stay inside the buffers (`TypeOK`) |
| `writesf` | buffers of 2 ticks, 5 ticks, 2 opens, 4 messages | without overrun, lost race and failed write the file holds what was recorded, in order, and the rest is in a buffer that will be written (`FileFaithful`); a stop brings it all to the file (`StopFlushes`) |
| `dspcontrol` | 2 DSP objects joined directly and through a thru object, 2 rates, 6 requests, 2 reactions | the compiled chain holds no dead object and no old rate (`ChainCurrent`); DSP runs if and only if `dsp_active` says so (`ActiveRuns`); edits leave DSP as the user wants it (`EditsKeepDsp`); no deleted connection is in the chain and the table holds exactly the marked ones (`MarksExact`) |

Why the bounds are enough to be interesting: four slots and twelve elements make the fifo wrap and
fill with a reader in the middle; two workers and two identifiers let an
identifier be used again by the other worker, and three hasty requests fill a
fifo; three alarms let one method remove or flush alarms before and behind the
one that fires; three callbacks put one before, one at and one behind the
walk; four wires make triple sums, diamonds, loops with a tail, an order
against the list, and an object whose inputs do not match with a successor.
Edits after a compilation make stale descriptors meet a new compilation.
Files of 7 and 8 frames with buffers of 4 end inside a buffer, inside a tick and
at the end of a buffer, and are played again; five ticks fill both buffers of
`writesf~` and leave a tail in the first; six requests make, run, change twice
and delete connections, with a listener that interrupts two of them.

Conditions.  `NothingForgotten` supposes that at some time no method adds an alarm
any more that the loop which called it has still to come to (`Chases`): a method
that adds itself again without a delay keeps `fts_timebase_advance` from ending
(`time.c:282`), and nothing in the code prevents it; in a run the bound on
alarms does.  `HearsItsSources` is about inlets whose sources have one length, and
about inlets without any if the object reads no more than a tick (`Matching`).
`FileFaithful` and `StopFlushes` hold up to an overrun, a lost race or a failed
write.  `ActiveRuns` stops short of `fts_object_recompute`, which
ends the chain and leaves `dsp_active` on (`foreign`, until DSP is switched again).
`EditsKeepDsp` holds whenever listeners interrupt an edit; it stops short of the early
return in `patcher_delete_objects_from_client`, which leaves DSP off (`abandoned`), and
of audio connections moved while the chain ran (`moved`): a thru object
redefined, any object recomputed, or an object redefined in an edit in
whose middle a listener has switched DSP on again.  `MarksExact` stops short of
`moved` and, until the next reset, of a deletion under the running chain
(`dropped`).  Each of these is a behaviour the
code has and the model reaches; section 4 lists what they lead to.
CHECK_DEADLOCK is off where a bound ends the behaviour or the loop really stops
(`halted`, `crashed`, no ticks left).

Fairness.  Fifo: reader and writer go on with what they have begun, as threads
that the system schedules.  ThreadManager: the FTS thread finishes a handler it
is in; manager and workers are endless loops with finite sleeps, and a disk
method returns; users owe nothing.  Timebase and Sched: the loop runs (weak
fairness), a method returns after finitely many operations although it could
always do one more, and a tick begins although messages could always arrive
before it (strong fairness for `MethodEnd` and `AdvanceBegin`).  DspGraph: the
compilation is a call and runs to its end; nobody has to compile.  ReadSf:
audio runs, so ticks come and alarms fire, and the disk thread is scheduled.
WriteSf: a handler that has begun ends, and the disk thread is scheduled; ticks
owe nothing.  DspControl has no liveness property.

## 4. The runs that find a violation

* `threads_stop` (`AlwaysStops`): "Here we stop the worker_thread"
  (`readsf.c:288`).  Open and close while the manager stands between its two
  polls: the cancel is taken before the create, finds no thread, and the thread
  started afterwards is never cancelled.  `is_dead` keeps it silent
  (`QuietAfterClose`), but it stays for ever and wakes up again with the next
  open, next to a second one.
* `threads_free` (`NeverUsedAfterFree`): "delete the reader thread"
  (`readsf.c:407`).  The worker is freed right behind the cancel request; the
  request in the fifo and the running thread still use it.
* `sched_remove` (`AnyRemoveIsSafe`): "the callback method ***can*** call
  fts_sched_remove" (`sched.c:193`).  Removing the callback behind the running
  one leaves `next` pointing to freed memory.

* `writesf_stop` (`StopWritesAll`): "tell thread writer to write all buffer"
  (`writesf.c:243`).  The stop stores `is_eof` and `full` before `end_index`; the
  disk thread flushes the current buffer in between with the level it had before,
  marks it empty, and the tail of the recording is never written.  The same run
  reaches the other order: both buffers full, and the newer one written first
  because the disk thread had already looked at the other one.

Things the models reach and no document denies.  `readsf~`: `readsf_close` does
not reset `end_index`, `read_index` and `is_eof`, so the first ticks after the
next open may be silent and a start without a file may raise the alarm; a pause
in an underrun lets the disk thread fill a buffer again that was filled but
marked empty; a method that runs during the alarm sets `is_eof` once more; after
a last chunk that is not a whole buffer `read_index` is stale in the next pass;
`readsf_stop` does not seek.  DSP control: a thru object redefined, or
any object recomputed, while the chain runs passes `fts_c_audio_active` on to connections the table does not
know; they stay marked for ever, and deleting one of them later switches DSP on
although it was off.  A deletion request that names an object that is gone
leaves DSP off and the objects before it in the patch, out of the client's
reach.  Also: a method called by
`fts_timebase_flush_object` that removes alarms of *another* object can free
the entry `p` lies in (`dangling` with `foreign`); and an object whose inputs
do not match has no outputs, so that a double connection behind it makes the
compiler follow a null pointer (phase `crashed`).  Sums of two lengths and silent
inlets behind an upsampler read behind the end of a signal.  A write of the disk
thread that fails is marked as done.

## 5. The proofs

The theorems hold for every value of the constants that the named assumptions
allow; what the modules assume of their constants is in their `ASSUME`s, which
every run evaluates.  No safety invariant that a run checks is inductive
alone.  Each proof module states the one that is (`IInv`), as a conjunction of
named parts, and proves `Init => IInv`, `IInv /\ [Next]_vars => IInv'` with one
case (or lemma) per action, and what follows from `IInv`.  TLC has checked each
`IInv` on the instances of section 3 (`SchedProofs` also with four callbacks,
`ReadSfProofs` with other sizes of tick, buffer and file).

**FifoProofs** (`TypeCorrect`, `NoOverwriteThm`, `InOrderThm`, `Refinement`), for
every element size, number of slots and number of elements, and either kind of
reader.  `Refinement` shows `Implements`: initial states map to the channel's
and every step to a step or a stutter (`Channel` has no fairness: that elements
arrive in the end is `Delivered`, which only TLC checks).  `IInv` adds
`Accounting` (every byte published is fetched, in the reader's hands or in the
ring), `RingContent` (the slots from the read index on hold the elements
published and not taken, oldest first), `ReaderHold` (the reader's pointer is one
element behind the read index and still on the element it was taken for, or at
the read index of a non-empty fifo) and `WriterHold` (the writer's level test
stays true until it has published: the reader can only make more room).  What
protects a reader that has given its slot back too early is the byte
`fts_fifo_write_level` keeps back.  Assumed: elements of at least one byte, a
buffer of a whole number of them, and program order of memory accesses, which
the actions express.

**ThreadManagerProofs** (`TypeCorrect`, `OneThreadThm`, `CancelsOwnThm`), for every set of workers and thread identifiers and every
capacity of the fifos.  `TypeCorrect` needs nothing of the users; the others are
about calm environments, as their properties say.  The invariant says where
the one request of a worker is: `Rising` (in the handler, in the create fifo or
in the manager's hands) and `Falling`, each in one place only and with the state
of the file that belongs to it (`RisesOnce`, `FallsOnce`), and that a worker that
is being freed has neither (`Unused`).  `CancelsOwnThm` has a hypothesis of its
own, `Roomy`: fifos and thread identifiers for every worker.  It is needed, as
TLC shows with a fifo of one slot and two workers, or one identifier for two: a
request that is dropped, or a thread that does not start, leaves an old
identifier in the worker, and the next cancellation reaches whoever has that
identifier now.  The code has 39 slots and does not count its workers.

Two lemmas come back in the modules about lists.  `WithoutPlaces` (SchedProofs,
TimebaseProofs, DspGraphProofs): `Without` keeps exactly the entries it should, in
their order, for every list.  The rank of a kept place (the number of kept places
up to it) grows with the place (`RankGrows`), and every rank is reached
(`RankReaches`, by counting), so that `KeptPlace` chooses from one place only.
`NatMin`: a set of natural numbers that is not empty has a least element, from
the library's theorem on minimal elements of well-founded sets.  Proofs that go
along a list or a program use it in the place of induction, for which the provers
have no rule they can instantiate: they take the least place where the claim
would fail (`Induct`) and derive a contradiction.

**SchedProofs** (`TypeCorrect`, `RemoveIsSafeThm`, `OnceEachThm`), for any number of
objects, descriptors and callbacks.  New callbacks go to the head, so that the
list is ordered by name, the latest first (`Numbered`): what was added during a
walk lies before everything the walk began with (`Seen`).  `Course`: what lies
before the cursor (the pointer kept across a method) was served, and nothing
else.  `Alive`: the cursor is in the list, or the end, as long as no method
has removed a callback of another object.

**TimebaseProofs** (`TypeCorrect`, `OrderedThm`, `RefsExactThm`, `NoDanglingThm`,
`TickCompleteThm`), for any number of objects and alarms and any depth of nested
calls.  The list is both an ordered sequence and a set that counts are about.
`Waiting`: ordered, without repetition, nothing late or fired in the list, and
every alarm whose method runs in the hands of one call.  `Counts`: a count is
the alarms in the list and in hands, and what the patch holds.  `Outermost`: a
tick is the first frame of the stack.  `Pointers`: until somebody interferes, all
flushes in progress are of one object and keep their pointers in alarms of
other objects, which is why nobody frees them.

**WriteSfProofs** (`TypeCorrect`, `FileFaithfulThm`), for every size of buffers.
`Marks` (when a buffer is full), `Writes` (the disk thread never writes the current
buffer before the other one, and up to the level that was told) and `Ordered`
(file, other buffer and current buffer together are all that was recorded, in
order) hold while there was no overrun, lost race or failed write.

**ReadSfProofs** (`TypeCorrect`, `PlaysInOrderThm`, `EofIsRealThm`,
`OldFileIsGoneThm`), for every size of tick, buffer and file.  `Types` and, in a
calm environment, `Own` (the buffers hold frames of the file, or silence, up to
their levels; the disk thread is awake only with a file) need no more.  While the
place in the file is not lost (`Clean`): `InLine` (the current buffer, the other
one, what the disk thread has read and not told, and the position in the file
follow each other without a gap), `Flight` (the disk thread fills a buffer without
a tick in it), `AtEnd` (behind the end of the file nothing is read, and its mark
stays until the current buffer is played), `Missed` and `Stray`.  The last two are
the argument for two stores without a lock: a tick that comes between the
disk thread's `full` and `end_index` marks a buffer empty that is being
filled; the next tick takes it, because the disk thread now sleeps.  Therefore
`ReadAssumption` asks for a sleep of two ticks or more (`Rest >= 2`; the code
sleeps 50 ms, which is 34 ticks at 64 frames and 44100 Hz); with a sleep of one
tick TLC finds a tick that is copied while the disk thread overwrites it.

**DspControlProofs** (`TypeCorrect`, `ChainCurrentThm`, `ActiveRunsThm`,
`EditsKeepDspThm`, `MarksExactThm`), for every set of objects, every wiring, every
number of requests and every depth of reactions.  The key is `Shape`: what a
handler has left to do is some calls of `dsp_active` of `dsp.c` that nested settings
have left over, or such calls followed by an edit and the switching on, or an
edit alone, with at most one setting or reaction in front.  `Links` says that
connections share neither ends nor identities; `Stopped` and `Sync` relate chain,
`compiled` and `active`; `Marks` keeps table, chain and types together as long as
nothing was moved or dropped; `Wants` says that the last setting to come is what is
wanted, and that a reaction in the middle of an edit is not the last; `EditsSafe`,
that a connection deleted without switching DSP off is not in the table.

**DspGraphProofs** (`TypeCorrect`, `CountsCorrect`, `HearsCorrect`,
`SequentialCorrect`), for every number of objects, inlets and outlets, every wiring
with loops and several connections to one inlet, objects that double and halve the
length of vectors in any order, and every sequence of edits and compilations;
assumed is `GraphAssumption` alone.  The argument goes
by the connections the compiler has not passed yet (`Unpassed`): those of objects
not scheduled, and those the walk of the object being scheduled has still before
it (`Ahead`).  In a compilation:

* *Order.*  The count of an object is the number of connections into it that are
  not passed (`Counted`); an object that is ready is in the rest of the list or
  before a walk on the stack (`Reached`); no set of objects that wait for each
  other gets an object scheduled (`LoopsWait`).  At the end list and stack are
  empty, hence the objects left out are such a set and the largest one (`LeftWait`).
  With `PutOnce`, `PutScheduled` and `PutBehind` this is `Sequential`.
* *Counts.*  `Counts` is `CountsExact` with the state of the stack spelled out.
  `Waiting` says that `sig_zero` is nobody's output and an object not yet
  scheduled has no outputs; `Outputs`, that the outputs of the object being
  scheduled are pending and distinct until their connections are passed.  What
  the allocator takes therefore has no reader and is no output that is still to
  be passed on.
* *Contents.*  An input of an object that waits has the length of one of the
  outlets passed to it and, if they all have one, holds their sum (`InletSum`); an
  outlet keeps its signal and a signal its length (`LengthsKept`), because the
  allocator takes a free signal of the same length only; the object being scheduled finds its sources in its
  inputs and its own output in each outlet not passed yet (`TopHears`); what was
  put has heard its sources (`Heard`).  `Content` is a recursive function of the
  program; that it exists and is the only one (`ContentOne`), and what one more
  instruction or one more signal makes of it (`ContentLonger`, `ContentWider`),
  are lemmas.

`Edge` that adds two signals is the longest step (`EdgeAdd`): the sum may be put
into one of the two signals it is made of, whose other readers must not be there.

Only model-checked: the nine liveness properties (`Delivered`, `FollowsUser`,
`RequestsTaken`, `QuietAfterClose`, `NothingForgotten`, `AlwaysServed`,
`Terminates`, `EofComes`, `StopFlushes`), which are out of the prover's reach.
Every invariant and every action property of the passing runs is a theorem.

## 6. Plan

The threads, alarms, callbacks, the compiler, disk streaming and DSP control
are modelled.  What could follow, in this order:

1. Jack commands of several atoms on `FifoChannel` (a reader that sees the
   beginning of a command).
2. Client object table and protocol automaton; audio labels and ports.
3. The step of the time base when the sample rate changes; slave time bases
   (`fts_timebase_remove_slave` returns before it resets the master; nothing in
   the repository calls it).
4. `put_after_successors`: the programs of `switch~`, in which some calls are skipped.

The modules have no RECURSIVE operators, so that theorems about them can be
proved; new ones should keep to that.

Not modelled and not planned: self-removal of a listener while a parameter
calls its listeners (none does it), the missing destructor of `dsp_control`
(`packages/guiobj`, visible in its one line), a build that stores `buffer_index`
between the increment and the modulo of `writesf_dsp`, containers, file formats, other platforms,
numeric packages and the Java client, for the reasons `PROJECT.json` gives.
