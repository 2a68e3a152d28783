----------------------------- MODULE DspControl -----------------------------
(***************************************************************************)
(* DSP on and off while a patch is edited: the parameter dsp_active and its *)
(* listeners (fts/dsp.c, fts/param.c), the table of signal connections      *)
(* (fts/sigconn.c), connections (fts/connection.c, fts/patcherobject.c) and *)
(* the requests of the client that edit a patch (fts/patcher.c).            *)
(*                                                                          *)
(* Everything runs in the FTS thread, but a handler that switches DSP off   *)
(* calls the listeners of dsp_active in its middle, and one of them (the    *)
(* object dsp of packages/system) sends the value into the patch, which may *)
(* switch DSP again.  A handler is a list of steps (todo); what a listener  *)
(* does goes in front of it.                                                *)
(*                                                                          *)
(* How the graph is scheduled is DspGraph's; here a compiled chain is the   *)
(* objects and the connections it was made from.                            *)
(***************************************************************************)
EXTENDS Naturals, Sequences, FiniteSets

CONSTANTS Dsp,        \* names of objects that implement put
          Thru,       \* names of objects that only propagate their inputs
          Wires,      \* the pairs of objects the client may connect, without loops
          Rates,      \* sample rates
          MaxEdits,   \* bound on the requests
          MaxReact    \* bound on the reactions of the patch

ASSUME ControlAssumption == /\ Dsp \cap Thru = {}
                            /\ Wires \subseteq (Dsp \X Dsp) \cup (Dsp \X Thru) \cup (Thru \X Dsp)
                            /\ Rates # {} /\ {MaxEdits, MaxReact} \subseteq Nat

VARIABLES active,     \* the value of dsp_active_param
          rate,       \* dsp_sample_rate, and the rate of the graph
          compiled, chain, \* status of main_dsp_graph, and what the chain was made from
          live, gen,  \* the objects that exist; which object a name stands for
          pending,    \* those of status FTS_OBJECT_STATUS_PENDING_DELETE
          conns,      \* the connections; active: the type is fts_c_audio_active
          table,      \* signal_connection_table: identities of connections
          nextId,     \* identity of the next connection
          todo,       \* the steps the handler has still to do
          edits, reactions,
          wanted,     \* histories: the value last asked for,
          foreign,    \* an object of the chain was replaced behind the back of dsp_active,
          abandoned,  \* a request was given up after it had switched DSP off,
          dropped,    \* audio connections were deleted since the last reset,
          moved       \* audio connections were moved to a new object

graphVars == <<compiled, chain, table, dropped>>
patchVars == <<live, gen, pending, conns, nextId>>
pastVars  == <<wanted, foreign, abandoned>>
vars == <<active, rate, graphVars, patchVars, todo, edits, reactions, pastVars, moved>>

Names == Dsp \cup Thru
Ids(cs) == {c.id : c \in cs}

NoChain == [objs |-> {}, conns |-> {}, rate |-> CHOOSE r \in Rates : TRUE]

Init == /\ active = FALSE
        /\ rate \in Rates
        /\ compiled = FALSE /\ chain = NoChain
        /\ live = Names /\ gen = [n \in Names |-> 0] /\ pending = {}
        /\ conns = {} /\ table = {} /\ nextId = 1
        /\ todo = <<>> /\ edits = 0 /\ reactions = 0
        /\ wanted = FALSE /\ foreign = FALSE /\ abandoned = FALSE
        /\ dropped = FALSE /\ moved = FALSE

Set(v) == [op |-> "set", arg |-> v]
AtRest == todo = <<>>

-----------------------------------------------------------------------------
(* fts_dsp_graph_compile and fts_dsp_graph_reset.                           *)

\* The connections by which a DSP object reaches another one.
Reached(cs) == {c \in cs : \/ c.src \in Dsp /\ c.dst \in Dsp
                           \/ c.dst \in Thru /\ \E d \in cs : d.src = c.dst
                           \/ c.src \in Thru /\ \E d \in cs : d.dst = c.src}

\* connection_to_thru stays set while the iterator goes on to the older
\* connections of the outlet: a thru that leads nowhere is marked with them.
Marked(cs) ==
  LET thrus(o) == {c.id : c \in {e \in cs : e.src = o /\ e.dst \in Thru}}
  IN  Reached(cs) \cup {c \in cs : \E d \in cs : /\ d.src = c.src /\ d.dst \in Dsp
                                                /\ thrus(c.src) \cap (d.id + 1)..c.id = {c.id}}

\* fts_signal_connection_add, for the connections the table takes.
MarkSignals(cs) == {[c EXCEPT !.active = (@ \/ c \in Marked(cs))] : c \in cs}

\* fts_signal_connection_remove_all.
Unmark(cs) == {[c EXCEPT !.active = (@ /\ c.id \notin table)] : c \in cs}

Compile(cs, r) == /\ compiled' = TRUE
                  /\ chain' = [objs  |-> {<<n, gen'[n]>> : n \in live' \cap Dsp},
                               conns |-> Ids(Reached(cs)), rate |-> r]
                  /\ table' = Ids({c \in Marked(cs) : ~c.active})
                  /\ conns' = MarkSignals(cs)
                  /\ dropped' = FALSE

Reset(cs) == /\ compiled' = FALSE /\ chain' = NoChain
             /\ table' = {}
             /\ conns' = Unmark(cs)
             /\ dropped' = FALSE

\* A change of the graph that must not find it compiled.
ResetIfCompiled(cs) == IF compiled THEN Reset(cs)
                       ELSE conns' = cs /\ UNCHANGED graphVars

-----------------------------------------------------------------------------
(* fts_param_set_int(dsp_active_param, v) and the listeners: objects of the *)
(* patch first, dsp_active of dsp.c, the first that was added, last.        *)

Does(name) == todo # <<>> /\ Head(todo).op = name

SetActive == /\ Does("set")
             /\ active' = Head(todo).arg
             /\ todo' = <<[op |-> "patch", arg |-> active'], [op |-> "dsp", arg |-> active']>>
                          \o Tail(todo)
             /\ UNCHANGED <<rate, graphVars, patchVars, edits, reactions, pastVars, moved>>

\* An edit will switch DSP on when it is done.
Restarts == \E i \in DOMAIN todo : todo[i].op = "set"

\* The listener sends the value from its outlet, and the patch switches DSP.
\* In the middle of an edit that does not last: the edit has the last word.
React == /\ Does("patch")
         /\ \/ todo' = Tail(todo) /\ UNCHANGED <<reactions, wanted>>
            \/ /\ reactions < MaxReact
               /\ reactions' = reactions + 1
               /\ wanted' = IF Restarts THEN wanted ELSE ~active
               /\ todo' = <<Set(~active)>> \o Tail(todo)
         /\ UNCHANGED <<active, rate, graphVars, patchVars, edits, foreign, abandoned, moved>>

\* Mutant of Seen: the listeners are given a copy of the value.
Seen_Copy(v) == v

\* param_call_listeners passes &param->value: a listener sees what a nested
\* fts_param_set_int has put there.
Seen(v) == active

\* dsp_active of dsp.c.
SwitchGraph == /\ Does("dsp")
               /\ todo' = Tail(todo)
               /\ UNCHANGED <<live, gen, pending, nextId>>
               /\ IF Seen(Head(todo).arg)
                  THEN IF compiled THEN UNCHANGED <<graphVars, conns>> ELSE Compile(conns, rate)
                  ELSE ResetIfCompiled(conns)
               /\ foreign' = FALSE
               /\ UNCHANGED <<active, rate, edits, reactions, wanted, abandoned, moved>>

-----------------------------------------------------------------------------
(* Messages and requests.                                                   *)

Request == AtRest /\ edits < MaxEdits /\ edits' = edits + 1

\* dsp_on_off, dsp_start, monitor_toggle and the others: fts_dsp_activate,
\* fts_dsp_desactivate.
Switch(v) == /\ Request
             /\ todo' = <<Set(v)>> /\ wanted' = v /\ abandoned' = FALSE
             /\ UNCHANGED <<active, rate, graphVars, patchVars, reactions, foreign, moved>>

\* fts_dsp_restart: reset and compile, without the listeners.
Restart == /\ Request /\ compiled
           /\ UNCHANGED <<live, gen, pending, nextId>>
           /\ Compile(Unmark(conns), rate)
           /\ UNCHANGED <<active, rate, todo, reactions, pastVars, moved>>

\* fts_dsp_set_sample_rate and its listener.
SetSampleRate(r) == /\ Request
                    /\ rate' = r
                    /\ UNCHANGED <<live, gen, pending, nextId>>
                    /\ IF active
                       THEN Compile(IF compiled THEN Unmark(conns) ELSE conns, r)
                       ELSE ResetIfCompiled(conns)
                    /\ foreign' = FALSE
                    /\ UNCHANGED <<active, todo, reactions, wanted, abandoned, moved>>

\* An edit that switches DSP off before and on after it, or is done at once.
Edit(what, name, off) ==
  LET step == [op |-> "edit", arg |-> [what |-> what, name |-> name]]
  IN  /\ Request
      /\ todo' = IF off THEN <<Set(FALSE), step, Set(TRUE)>> ELSE <<step>>
      /\ UNCHANGED <<active, rate, graphVars, patchVars, reactions, wanted, abandoned, moved>>

\* Mutant of StopsFor: DSP is switched on after every edit of a DSP object.
StopsFor_Always(n) == n \in Dsp

\* fts_dsp_is_active() && fts_is_dsp_object(obj)
StopsFor(n) == active /\ n \in Dsp

\* patcher_delete_objects_from_client, patcher_redefine_object_from_client:
\* a thru object of the running chain is no reason to switch DSP off.
DeleteObject(n) == /\ n \in live \ pending
                   /\ Edit("delete", n, StopsFor(n)) /\ UNCHANGED foreign
RedefineObject(n) == /\ n \in live \ pending
                     /\ Edit("replace", n, StopsFor(n)) /\ UNCHANGED foreign

\* The list of patcher_delete_objects_from_client names n and then an object
\* that does not exist any more: the handler returns in the middle.  (With more
\* objects before that one it leaves what as many such requests leave.)
DeleteAbandoned(n) == /\ Request /\ n \in live \ pending
                      /\ pending' = pending \cup {n}
                      /\ todo' = IF StopsFor(n) THEN <<Set(FALSE)>> ELSE <<>>
                      /\ abandoned' = (abandoned \/ StopsFor(n))
                      /\ UNCHANGED <<active, rate, graphVars, live, gen, conns, nextId, reactions,
                                     wanted, foreign, moved>>

\* fts_object_recompute, when a variable or a template has changed.
RecomputeObject(n) == /\ n \in live \ pending
                      /\ Edit("replace", n, FALSE)
                      /\ foreign' = (foreign \/ (compiled /\ n \in Dsp))

\* A new object joins the graph; the chain does not know it.
AddObject(n) == /\ Request /\ n \notin live
                /\ live' = live \cup {n}
                /\ gen' = [gen EXCEPT ![n] = @ + 1]
                /\ UNCHANGED <<active, rate, graphVars, pending, conns, nextId, todo, reactions,
                               pastVars, moved>>

\* Mutant of Connected: double connections are not looked for.
Connected_Never(src, dst) == FALSE

\* fts_connection_new: "double connection ignored".
Connected(src, dst) == \E c \in conns : c.src = src /\ c.dst = dst

\* patcher_add_connection_from_client.
AddConnection(src, dst) == /\ Request /\ {src, dst} \subseteq live \ pending
                           /\ ~Connected(src, dst)
                           /\ conns' = conns \cup
                                {[id |-> nextId, src |-> src, dst |-> dst, active |-> FALSE]}
                           /\ nextId' = nextId + 1
                           /\ UNCHANGED <<active, rate, graphVars, live, gen, pending, todo,
                                          reactions, pastVars, moved>>

\* Mutant of DeleteConnection: the chain keeps running.
DeleteConnection_Running(c) == /\ c \in conns /\ Edit("unlink", c.id, FALSE)
                               /\ UNCHANGED foreign

\* patcher_delete_connection_from_client: whether DSP is to be switched off
\* and on is read from the type of the connection.
DeleteConnection(c) == c \in conns /\ Edit("unlink", c.id, c.active) /\ UNCHANGED foreign

-----------------------------------------------------------------------------
(* The steps of an edit.                                                    *)

Of(n) == {c \in conns : n \in {c.src, c.dst}}

\* Some of cs are marked fts_c_audio_active.
Audio(cs) == \E c \in cs : c.active

\* Mutant of Leave: the object is taken from a graph that stays compiled.
Leave_Running(n, cs) == /\ conns' = cs
                        /\ dropped' = (dropped \/ Audio(Of(n)))
                        /\ UNCHANGED <<compiled, chain, table>>

\* The destructor of a DSP object: fts_dsp_graph_remove_object.
Leave(n, cs) == IF n \in Dsp THEN ResetIfCompiled(cs)
                ELSE /\ conns' = cs
                     /\ dropped' = (dropped \/ Audio(Of(n)))
                     /\ UNCHANGED <<compiled, chain, table>>

EditStep(what) == /\ Does("edit") /\ Head(todo).arg.what = what
                  /\ todo' = Tail(todo)
                  /\ UNCHANGED <<active, rate, edits, reactions, pastVars>>

\* fts_connection_delete: the table of the graph is not told.  The chain of an
\* audio connection runs here if a listener has switched it on again.
Unlink == /\ EditStep("unlink")
          /\ LET gone == {c \in conns : c.id = Head(todo).arg.name}
             IN  conns' = conns \ gone /\ dropped' = (dropped \/ (Restarts /\ Audio(gone)))
          /\ UNCHANGED <<compiled, chain, table, live, gen, pending, nextId, moved>>

\* fts_patcher_remove_object: connections first, then the object.
Remove == /\ EditStep("delete")
          /\ LET n == Head(todo).arg.name
             IN  live' = live \ {n} /\ Leave(n, conns \ Of(n))
          /\ UNCHANGED <<gen, pending, nextId, moved>>

\* fts_object_redefine: a new object, fts_object_move_connections, which from
\* the newest to the oldest makes connections of the type of the old ones, and
\* the end of the old object.
Replace ==
  /\ EditStep("replace")
  /\ LET n == Head(todo).arg.name
         new(c) == nextId + Cardinality({d \in Of(n) : d.id > c.id})
     IN  /\ gen' = [gen EXCEPT ![n] = @ + 1]
         /\ nextId' = nextId + Cardinality(Of(n))
         /\ moved' = (moved \/ Audio(Of(n)))
         /\ Leave(n, (conns \ Of(n)) \cup {[c EXCEPT !.id = new(c)] : c \in Of(n)})
  /\ UNCHANGED <<live, pending>>

Next == \/ SetActive \/ React \/ SwitchGraph
        \/ \E v \in BOOLEAN : Switch(v)
        \/ Restart
        \/ \E r \in Rates : SetSampleRate(r)
        \/ \E n \in Names : \/ DeleteObject(n) \/ DeleteAbandoned(n) \/ AddObject(n)
                           \/ RedefineObject(n) \/ RecomputeObject(n)
        \/ \E w \in Wires : AddConnection(w[1], w[2])
        \/ \E c \in conns : DeleteConnection(c)
        \/ Unlink \/ Remove \/ Replace

Spec == Init /\ [][Next]_vars

-----------------------------------------------------------------------------

\* The parameter, the table and the chain hold values of their types, and
\* two connections never join the same pair (fts_connection_new).
TypeOK == /\ {active, compiled, wanted, foreign, abandoned, dropped, moved} \subseteq BOOLEAN
          /\ rate \in Rates /\ chain.rate \in Rates
          /\ chain.objs \subseteq Dsp \X Nat
          /\ chain.conns \cup table \cup Ids(conns) \subseteq 1..nextId - 1
          /\ pending \subseteq live /\ live \subseteq Names /\ gen \in [Names -> Nat]
          /\ \A c, d \in conns : (c.src = d.src /\ c.dst = d.dst) \/ c.id = d.id => c = d
          /\ \A i \in DOMAIN todo : todo[i].op \in {"set", "patch", "dsp", "edit"}

\* A chain that may run holds no object that was deleted or replaced, on any
\* path by which objects come to their end (fts_dsp_graph_remove_object), and
\* was compiled for the sample rate that is set.
ChainCurrent == compiled => /\ \A o \in chain.objs : o[1] \in live /\ gen[o[1]] = o[2]
                            /\ chain.rate = rate

\* Between two requests DSP runs if and only if dsp_active says so, however
\* the listeners switch it again in the middle of a handler.  Not after
\* fts_object_recompute, which stops the chain and leaves the value.
ActiveRuns == AtRest /\ ~foreign => active = compiled

\* An edit leaves DSP as the user wanted it: restarts neither forget to
\* switch it on nor switch it on when it was off, however listeners interrupt
\* the edit; what they ask for between its two switches is overridden by the
\* second.  Not when a request was given up between the two (DeleteAbandoned),
\* and not once audio connections were moved under a running chain: the new ones
\* keep the mark for ever, and deleting one later switches DSP on.
EditsKeepDsp == AtRest /\ ~moved /\ ~abandoned => active = wanted

\* Between two requests no deleted connection is in the chain, and the table
\* of signal connections holds those whose type is fts_c_audio_active: the
\* client is told of every change, and deleting one of them restarts DSP.  Not
\* from a deletion under a running chain (with a thru object, or in an edit that a
\* listener interrupts by switching DSP on) to the next reset, and not once
\* audio connections were moved under it.
MarksExact == AtRest /\ ~moved /\ ~dropped => /\ chain.conns \subseteq Ids(conns)
                                              /\ table = Ids({c \in conns : c.active})
=============================================================================
