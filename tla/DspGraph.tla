------------------------------ MODULE DspGraph ------------------------------
(***************************************************************************)
(* The compiler of the DSP graph, fts/dspgraph.c.  The objects of a patch   *)
(* are put in an order in which every object comes behind those it hears    *)
(* from, and the signals (vectors of samples) between them are allocated    *)
(* with reference counts, so that an object may write where nobody has to   *)
(* read any more, its own inputs included.  Several connections to one      *)
(* inlet are added up by calls the compiler puts in between, connections of *)
(* kind "order" only force an order.  The traversal is the recursion of     *)
(* dsp_graph_schedule_depth: a stack of frames.                             *)
(*                                                                          *)
(* A signal is named by the order in which it was made; sig_zero is the     *)
(* first.  "Thru" objects (patchers, inlets, labels) are what the graph     *)
(* iterator looks through: a connection here leads from a DSP object to     *)
(* the DSP object that is reached in the end.                               *)
(***************************************************************************)
EXTENDS Integers, Sequences, FiniteSets, SequencesExt, Lists

CONSTANTS Objects,
          Ins, Outs,     \* numbers of the signal inlets and outlets: 1 .. n
          Wires,         \* the connections a user may draw, see Conn
          Resamp,        \* log2 of the resampling factor of every object
          TickSize,      \* tick_size of the graph
          MaxEdits       \* bound on the changes of the patch

\* A connection in the list of an outlet.
Conn == [dst : Objects, inlet : Ins, kind : {"signal", "order"}]

\* A patch has finitely many objects, with finitely many inlets and outlets.
ASSUME GraphAssumption == /\ IsFiniteSet(Objects) /\ IsFiniteSet(Ins) /\ IsFiniteSet(Outs)
                          /\ Ins \subseteq Nat \ {0} /\ Outs \subseteq Nat \ {0}
                          /\ \A k \in Outs : 1 .. k \subseteq Outs
                          /\ Wires \subseteq Objects \X Outs \X Conn
                          /\ Resamp \in [Objects -> {-1, 0, 1}]
                          /\ TickSize \in Nat \ {0} /\ MaxEdits \in Nat

VARIABLES objects,  \* graph->objects
          conns,    \* connections of every outlet, in the order of the list
          status,   \* graph->status: "reset" or "compiled"
          phase,    \* "idle", or what fts_dsp_graph_compile is doing
          roots,    \* objects dsp_graph_schedule has still to look at
          frames,   \* calls of dsp_graph_schedule_depth in progress
          pred_cnt, \* predecessors left to schedule, or SCHEDULED
          in, out,  \* descr.in and descr.out
          signals,  \* signal_list
          program,  \* graph->chain
          edits

graphVars == <<objects, conns, edits>>
vars == <<objects, conns, status, phase, roots, frames, pred_cnt, in, out,
          signals, program, edits>>

Nil == 0
sig_zero == 1
SIGNAL_PENDING == -1
SCHEDULED == -1

\* All connections as <<source, outlet, connection>>.
Edges == UNION {{<<x[1], x[2], conns[x][i]>> : i \in DOMAIN conns[x]} : x \in Objects \X Outs}

NoSignals(Lets) == [o \in Objects |-> [i \in Lets |-> Nil]]

\* A patch whose objects are not connected yet.
Init == /\ objects \in {SetToSeq(Objects), Reverse(SetToSeq(Objects))}
        /\ conns = [x \in Objects \X Outs |-> <<>>]
        /\ status = "reset" /\ phase = "idle"
        /\ roots = <<>> /\ frames = <<>>
        /\ pred_cnt = [o \in Objects |-> 0]
        /\ in = NoSignals(Ins) /\ out = NoSignals(Outs)
        /\ signals = <<>> /\ program = <<>>
        /\ edits = 0

-----------------------------------------------------------------------------
(* Changes of the patch.                                                    *)

Edit == /\ phase = "idle"
        /\ edits < MaxEdits /\ edits' = edits + 1

\* fts_dsp_graph_reset: the program is destroyed.
Reset == status' = "reset" /\ program' = <<>>

\* fts_connection_new: a new connection is the first of its outlet; a double
\* connection is ignored.  A compiled program stays as it is.  (One connection
\* leads from an outlet to an inlet: several ways through thru objects are left
\* out, which the compiler would sum, all with the kind of the direct one.)
Connect(o, k, c) ==
  /\ Edit
  /\ {o, c.dst} \subseteq ToSet(objects)
  /\ \A d \in ToSet(conns[<<o, k>>]) : <<d.dst, d.inlet>> # <<c.dst, c.inlet>>
  /\ conns' = [conns EXCEPT ![<<o, k>>] = <<c>> \o @]
  /\ UNCHANGED <<objects, status, phase, roots, frames, pred_cnt, in, out, signals, program>>

\* An object is deleted: its connections go, then fts_dsp_graph_remove_object
\* takes it off the list, after a reset if the graph is compiled.  (An object
\* that is added later is a new one, with a new descriptor.)
fts_dsp_graph_remove_object(o) ==
  /\ Edit
  /\ Contains(objects, o)
  /\ conns' = [x \in Objects \X Outs |->
                 IF x[1] = o THEN <<>>
                 ELSE Without(conns[x], {c \in ToSet(conns[x]) : c.dst = o})]
  /\ objects' = Without(objects, {o})
  /\ Reset
  /\ in' = [in EXCEPT ![o] = [i \in Ins |-> Nil]]
  /\ out' = [out EXCEPT ![o] = [k \in Outs |-> Nil]]
  /\ pred_cnt' = [pred_cnt EXCEPT ![o] = 0]
  /\ UNCHANGED <<phase, roots, frames, signals>>

\* fts_dsp_graph_add_object: to the head of the list.
fts_dsp_graph_add_object(o) ==
  /\ Edit
  /\ ~Contains(objects, o)
  /\ objects' = <<o>> \o objects
  /\ UNCHANGED <<conns, status, phase, roots, frames, pred_cnt, in, out, signals, program>>

\* The DSP is switched off.
fts_dsp_graph_reset == /\ phase = "idle"
                       /\ status = "compiled"
                       /\ Reset
                       /\ UNCHANGED <<graphVars, phase, roots, frames, pred_cnt, in, out,
                                      signals>>

-----------------------------------------------------------------------------
(* The signal allocator.                                                    *)

\* Mutant: a signal is reused although somebody has still to read it.
Reusable_Last(list, length) == {s \in DOMAIN list : list[s].refcnt \in {0, 1}
                                                    /\ s # sig_zero /\ list[s].length = length}

\* The signals a new one may be taken from.
Reusable(list, length) == {s \in DOMAIN list : list[s].refcnt = 0 /\ list[s].length = length}

\* The list is searched from its head, where the latest signal is; without
\* one to reuse a new signal is made.
Allocated(list, length) == IF Reusable(list, length) = {} THEN Len(list) + 1
                           ELSE Max(Reusable(list, length))

fts_dsp_signal_new(list, length) ==
  LET s == Allocated(list, length)
      new == [refcnt |-> SIGNAL_PENDING, length |-> length]
  IN  IF s \in DOMAIN list THEN [list EXCEPT ![s] = new] ELSE Append(list, new)

fts_dsp_signal_unreference(list, s) ==
  IF list[s].refcnt = SIGNAL_PENDING THEN list ELSE [list EXCEPT ![s].refcnt = @ - 1]

\* Mutant: a pending signal is counted from -1.
fts_dsp_signal_reference_Plain(list, s) == [list EXCEPT ![s].refcnt = @ + 1]

fts_dsp_signal_reference(list, s) ==
  [list EXCEPT ![s].refcnt = IF @ = SIGNAL_PENDING THEN 1 ELSE @ + 1]

-----------------------------------------------------------------------------
(* fts_dsp_graph_compile.                                                   *)

\* Mutant: a connection that only forces an order is not counted.
Predecessors_Signals(o) ==
  Cardinality({e \in Edges : e[3].dst = o /\ e[3].kind = "signal"})

\* dsp_graph_count_predecessors: one for every connection.
Predecessors(o) == Cardinality({e \in Edges : e[3].dst = o})

\* Mutant of CompileBegin: the inputs of the last compilation are kept.
CompileBegin_Stale ==
  /\ phase = "idle" /\ status # "compiled"
  /\ signals' = <<[refcnt |-> 1, length |-> TickSize]>>
  /\ out' = NoSignals(Outs)
  /\ pred_cnt' = [o \in Objects |-> Predecessors(o)]
  /\ program' = <<>>
  /\ roots' = objects
  /\ phase' = "schedule"
  /\ UNCHANGED <<graphVars, status, frames, in>>

\* Signals and counts are initialised and predecessors are counted.
CompileBegin ==
  /\ phase = "idle" /\ status # "compiled"
  /\ signals' = <<[refcnt |-> 1, length |-> TickSize]>>
  /\ in' = NoSignals(Ins) /\ out' = NoSignals(Outs)
  /\ pred_cnt' = [o \in Objects |-> Predecessors(o)]
  /\ program' = <<>>
  /\ roots' = objects
  /\ phase' = "schedule"
  /\ UNCHANGED <<graphVars, status, frames>>

Ready(o) == pred_cnt[o] = 0

\* gen_outputs: the inputs that are not silent must have one length.
Input(o, i) == IF in[o][i] = Nil THEN sig_zero ELSE in[o][i]
Lengths(o) == {signals[Input(o, i)].length : i \in {j \in Ins : Input(o, j) # sig_zero}}
InSize(o) == IF Lengths(o) = {} THEN TickSize ELSE CHOOSE n \in Lengths(o) : TRUE
OutSize(o) == CASE Resamp[o] = 0 -> InSize(o)
                [] Resamp[o] < 0 -> InSize(o) \div 2
                [] OTHER -> InSize(o) * 2

\* The inputs give up their references first, so that outputs can reuse them.
Unreferenced(o) ==
  [s \in DOMAIN signals |->
     IF s = sig_zero \/ signals[s].refcnt = SIGNAL_PENDING THEN signals[s]
     ELSE [signals[s] EXCEPT !.refcnt = @ - Cardinality({i \in Ins : in[o][i] = s})]]

\* dsp_graph_schedule_node begins: silent inputs get sig_zero, the others are
\* unreferenced.  Objects whose inputs match go on to gen_outputs and put.
\* (SET_SCHEDULED comes a little later in the code; nothing looks before.)
ScheduleNode(o) ==
  /\ in' = [in EXCEPT ![o] = [i \in Ins |-> Input(o, i)]]
  /\ signals' = Unreferenced(o)
  /\ pred_cnt' = [pred_cnt EXCEPT ![o] = SCHEDULED]
  /\ frames' = Append(frames, [object |-> o, outlet |-> 1, at |-> 1, walk |->
                 IF Cardinality(Lengths(o)) <= 1 THEN "outputs" ELSE "edges"])

Top == Last(frames)
Here == conns[<<Top.object, Top.outlet>>]
InWalk(walk) == phase = "schedule" /\ frames # <<>> /\ Top.walk = walk
Walking == InWalk("edges") \/ InWalk("depth")

\* The walk over the connections of all outlets, in order.
AtEdge == Top.outlet \in Outs /\ Top.at <= Len(Here)
NextEdge(f) == [f EXCEPT !.at = @ + 1]
Moved == frames' = [frames EXCEPT ![Len(frames)] = NextEdge(@)]

\* dsp_graph_schedule: the next object of the list.
Root == /\ phase = "schedule" /\ frames = <<>> /\ roots # <<>>
        /\ roots' = Tail(roots)
        /\ IF Ready(Head(roots)) THEN ScheduleNode(Head(roots))
           ELSE UNCHANGED <<in, signals, pred_cnt, frames>>
        /\ UNCHANGED <<graphVars, status, phase, out, program>>

\* gen_outputs: one output signal after the other.
GenOutput == /\ InWalk("outputs") /\ Top.outlet \in Outs
             /\ LET size == OutSize(Top.object)
                IN /\ signals' = fts_dsp_signal_new(signals, size)
                   /\ out' = [out EXCEPT ![Top.object][Top.outlet] = Allocated(signals, size)]
             /\ frames' = [frames EXCEPT ![Len(frames)].outlet = @ + 1]
             /\ UNCHANGED <<graphVars, status, phase, roots, pred_cnt, in, program>>

\* The object puts its call into the program, with its inputs, their length
\* and its outputs; sig_zero is given that length, its memory stays as it is.
PutNode == /\ InWalk("outputs") /\ Top.outlet \notin Outs
           /\ signals' = [signals EXCEPT ![sig_zero].length = InSize(Top.object)]
           /\ program' = Append(program, [op |-> "put", object |-> Top.object,
                                          in |-> in[Top.object], out |-> out[Top.object],
                                          size |-> InSize(Top.object)])
           /\ frames' = [frames EXCEPT ![Len(frames)].walk = "edges",
                                       ![Len(frames)].outlet = 1]
           /\ UNCHANGED <<graphVars, status, phase, roots, pred_cnt, in, out>>

\* The end of an outlet's connections.
NextOutlet == /\ Walking
              /\ Top.outlet \in Outs /\ Top.at > Len(Here)
              /\ frames' = [frames EXCEPT ![Len(frames)].outlet = @ + 1,
                                          ![Len(frames)].at = 1]
              /\ UNCHANGED <<graphVars, status, phase, roots, pred_cnt, in, out, signals,
                             program>>

\* dsp_graph_dec_pred_inc_refcnt for a connection that carries a signal to an
\* inlet nothing has been connected to yet.
FirstSignal(sig, c) ==
  /\ signals' = IF sig = Nil THEN signals ELSE fts_dsp_signal_reference(signals, sig)
  /\ in' = [in EXCEPT ![c.dst][c.inlet] = sig]
  /\ UNCHANGED program

\* ... and for one more connection to an inlet: the sum of both signals, over
\* the length of the second ("Should verify that inputs length match").
AddSignal(sig, c) ==
  LET previous == in[c.dst][c.inlet]
      given    == fts_dsp_signal_reference(fts_dsp_signal_unreference(signals, previous), sig)
      new      == Allocated(given, signals[sig].length)
      made     == fts_dsp_signal_new(given, signals[sig].length)
  IN  /\ signals' = fts_dsp_signal_reference(fts_dsp_signal_unreference(made, sig), new)
      /\ in' = [in EXCEPT ![c.dst][c.inlet] = new]
      /\ program' = Append(program, [op |-> "add", in |-> <<previous, sig>>, out |-> new,
                                     even |-> signals[previous].length = signals[sig].length])

Edge == /\ InWalk("edges") /\ AtEdge
        /\ LET c   == Here[Top.at]
               sig == out[Top.object][Top.outlet]
           IN /\ pred_cnt' = [pred_cnt EXCEPT ![c.dst] = @ - 1]
              /\ \/ c.kind = "order" /\ phase' = phase /\ UNCHANGED <<signals, in, program>>
                 \/ /\ c.kind = "signal" /\ in[c.dst][c.inlet] = Nil
                    /\ phase' = phase
                    /\ FirstSignal(sig, c)
                 \/ /\ c.kind = "signal" /\ in[c.dst][c.inlet] # Nil /\ sig # Nil
                    /\ phase' = phase
                    /\ AddSignal(sig, c)
                 \/ \* a source without output signals: a null pointer is followed
                    /\ c.kind = "signal" /\ in[c.dst][c.inlet] # Nil /\ sig = Nil
                    /\ phase' = "crashed"
                    /\ UNCHANGED <<signals, in, program>>
        /\ Moved
        /\ UNCHANGED <<graphVars, status, roots, out>>

\* Last part of dsp_graph_schedule_node: outputs nobody reads are free again.
EdgesEnd == /\ InWalk("edges") /\ Top.outlet \notin Outs
            /\ signals' = [s \in DOMAIN signals |->
                 IF (\E k \in Outs : out[Top.object][k] = s) /\ signals[s].refcnt = SIGNAL_PENDING
                 THEN [signals[s] EXCEPT !.refcnt = 0] ELSE signals[s]]
            /\ frames' = [frames EXCEPT ![Len(frames)].walk = "depth",
                                        ![Len(frames)].outlet = 1, ![Len(frames)].at = 1]
            /\ UNCHANGED <<graphVars, status, phase, roots, pred_cnt, in, out, program>>

\* Mutant of Depth: the walk does not leave a connection to an object that
\* has to wait.
Depth_Stay == /\ InWalk("depth") /\ AtEdge
              /\ LET dst == Here[Top.at].dst
                 IN IF Ready(dst) THEN ScheduleNode(dst)
                    ELSE UNCHANGED <<frames, in, signals, pred_cnt>>
              /\ UNCHANGED <<graphVars, status, phase, roots, out, program>>

\* dsp_graph_schedule_depth for every successor: one that is ready is
\* scheduled now (it is not ready any more when the walk comes back).
Depth == /\ InWalk("depth") /\ AtEdge
         /\ LET dst == Here[Top.at].dst
            IN IF Ready(dst) THEN ScheduleNode(dst)
               ELSE Moved /\ UNCHANGED <<in, signals, pred_cnt>>
         /\ UNCHANGED <<graphVars, status, phase, roots, out, program>>

\* The walk over the successors of an object ends.  (The message
\* put_after_successors that is sent here is left out: switch~ makes what was
\* scheduled in the walk a subroutine that runs only when it is open.)
DepthEnd == /\ InWalk("depth") /\ Top.outlet \notin Outs
            /\ frames' = Front(frames)
            /\ UNCHANGED <<graphVars, status, phase, roots, pred_cnt, in, out, signals,
                           program>>

\* dsp_graph_check_loop only complains; the rest of the graph runs.
CompileEnd == /\ phase = "schedule" /\ frames = <<>> /\ roots = <<>>
              /\ phase' = "idle"
              /\ status' = "compiled"
              /\ UNCHANGED <<graphVars, roots, frames, pred_cnt, in, out, signals, program>>

Compile == \/ Root \/ GenOutput \/ PutNode \/ NextOutlet \/ Edge \/ EdgesEnd \/ Depth \/ DepthEnd \/ CompileEnd

Next == \/ \E w \in Wires : Connect(w[1], w[2], w[3])
        \/ \E o \in Objects : fts_dsp_graph_remove_object(o) \/ fts_dsp_graph_add_object(o)
        \/ fts_dsp_graph_reset
        \/ CompileBegin
        \/ Compile

\* fts_dsp_graph_compile is a call that runs to its end.
Spec == Init /\ [][Next]_vars /\ WF_vars(Compile)

-----------------------------------------------------------------------------
(* What a program computes: the content of a signal is the set of outlets   *)
(* whose output is summed up in it, and Stale what no object has put there  *)
(* in this tick.                                                            *)

Stale == {<<Nil, Nil>>}

Content ==
  LET after[n \in 0 .. Len(program)] ==
        IF n = 0 THEN [s \in DOMAIN signals |-> IF s = sig_zero THEN {} ELSE Stale]
        ELSE LET ins == program[n]
             IN IF ins.op = "add"
                THEN [after[n - 1] EXCEPT ![ins.out] =
                        IF ins.even THEN after[n - 1][ins.in[1]] \cup after[n - 1][ins.in[2]]
                        ELSE Stale]
                ELSE [s \in DOMAIN signals |->
                        IF \E k \in Outs : ins.out[k] = s
                        THEN {<<ins.object, k>> : k \in {j \in Outs : ins.out[j] = s}}
                        ELSE after[n - 1][s]]
  IN  after

Puts == {n \in DOMAIN program : program[n].op = "put"}
PutOf(o) == {n \in Puts : program[n].object = o}

\* The outlets that are connected to an inlet (an object whose inputs do not
\* match is not computed and has no output signals).
Sources(o, i) == {<<e[1], e[2]>> : e \in {x \in Edges :
                    /\ x[3].dst = o /\ x[3].inlet = i /\ x[3].kind = "signal"
                    /\ out[x[1]][x[2]] # Nil}}

\* The sources of an inlet have one length.
Even(o, i) == \A x, y \in Sources(o, i) :
                signals[out[x[1]][x[2]]].length = signals[out[y[1]][y[2]]].length

\* What the call n of an object finds in an inlet: sig_zero has TickSize samples
\* of silence, and who reads more of it reads what lies behind.
Reads(n, i) == Content[n - 1][program[n].in[i]]
                 \cup (IF program[n].in[i] = sig_zero /\ program[n].size > TickSize
                       THEN Stale ELSE {})

\* A set of objects each of which waits for another of the set.
Blocked(B) == \A o \in B : \E e \in Edges : e[1] \in B /\ e[3].dst = o

-----------------------------------------------------------------------------
(* Properties.                                                              *)

\* Type invariant.
TypeOK == /\ ToSet(objects) \subseteq Objects
          /\ conns \in [Objects \X Outs -> Seq(Conn)]
          /\ status \in {"reset", "compiled"}
          /\ phase \in {"idle", "schedule", "crashed"}
          /\ pred_cnt \in [Objects -> Int]
          /\ in \in [Objects -> [Ins -> 0 .. Len(signals)]]
          /\ out \in [Objects -> [Outs -> 0 .. Len(signals)]]
          /\ \A s \in DOMAIN signals : signals[s].refcnt >= SIGNAL_PENDING

\* In the compiled program every object finds in each of its inputs exactly
\* the sum of the outputs connected there, in the same tick: no signal is
\* reused while somebody has still to read it, although objects write over
\* their own inputs and sums are made in place.  Not where vectors of two
\* lengths are added up (dspgraph.c:628), and not in an inlet nothing is connected
\* to if the others get more than a tick of samples (sig_zero, dspgraph.c:449).
Matching(n, i) == /\ Even(program[n].object, i)
                  /\ Sources(program[n].object, i) = {} => program[n].size <= TickSize

HearsItsSources ==
  [][CompileEnd => \A n \in Puts : \A i \in Ins :
        Matching(n, i) => Reads(n, i) = Sources(program[n].object, i)]_vars

\* Every connection, those that only force an order included, leads from an
\* object that is computed earlier to one that is computed later.  Nothing is
\* computed twice, and an object is left out if and only if it lies on a loop
\* or behind one: "loop in dsp graph (object not activated)".
Sequential ==
  [][CompileEnd =>
       /\ \A e \in Edges : \A n \in PutOf(e[3].dst) :
            pred_cnt[e[1]] = SCHEDULED /\ \A m \in PutOf(e[1]) : m < n
       /\ \A o \in ToSet(objects) :
            /\ Cardinality(PutOf(o)) <= 1
            /\ pred_cnt[o] # SCHEDULED <=>
                 \E B \in SUBSET ToSet(objects) : o \in B /\ Blocked(B)]_vars

\* The count of a signal is the number of inputs that have still to read it;
\* a pending signal is an output of the object that is being scheduled.
Readers(s) == {x \in ToSet(objects) \X Ins : pred_cnt[x[1]] # SCHEDULED /\ in[x[1]][x[2]] = s}

CountsExact == phase = "schedule" => \A s \in DOMAIN signals \ {sig_zero} :
   \/ signals[s].refcnt = Cardinality(Readers(s))
   \/ /\ signals[s].refcnt = SIGNAL_PENDING
      /\ Readers(s) = {}
      /\ frames # <<>> /\ Top.walk \in {"outputs", "edges"}
      /\ \E k \in Outs : out[Top.object][k] = s

\* A compilation comes to its end, with loops and without (unless it follows
\* the missing output of an object whose inputs do not match).
Terminates == phase = "schedule" ~> phase \in {"idle", "crashed"}
=============================================================================
