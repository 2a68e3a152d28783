-------------------------- MODULE DspControlProofs --------------------------
(***************************************************************************)
(* Proofs about DspControl, for every set of objects, every wiring, every   *)
(* number of requests and every depth of reactions of the patch: the chain  *)
(* that may run is current, and between two requests DSP runs if and only   *)
(* if it is wanted and the table of signal connections is exact.            *)
(***************************************************************************)
EXTENDS DspControl, FiniteSetTheorems, SequenceTheorems, TLAPS

-----------------------------------------------------------------------------
(* The inductive invariant.                                                 *)

ConnType  == [id : Nat, src : Names, dst : Names, active : BOOLEAN]
ChainType == [objs : SUBSET (Dsp \X Nat), conns : SUBSET Nat, rate : Rates]
Whats     == {"unlink", "delete", "replace"}
StepType  == [op : {"set", "patch", "dsp"}, arg : BOOLEAN]
               \cup [op : {"edit"}, arg : [what : Whats, name : Names \cup Nat]]

\* Two connections share neither their ends nor their identity.
Unique(cs) == \A c, d \in cs : (c.src = d.src /\ c.dst = d.dst) \/ c.id = d.id => c = d

\* The switches, the patch and the handler have their types.
Types == /\ active \in BOOLEAN /\ compiled \in BOOLEAN /\ wanted \in BOOLEAN
         /\ foreign \in BOOLEAN /\ abandoned \in BOOLEAN
         /\ dropped \in BOOLEAN /\ moved \in BOOLEAN
         /\ rate \in Rates /\ chain \in ChainType
         /\ live \in SUBSET Names /\ pending \in SUBSET live /\ gen \in [Names -> Nat]
         /\ todo \in Seq(StepType)

\* A set of connections that may exist before connection number next.
Table(cs, next) == /\ cs \in SUBSET ConnType /\ IsFiniteSet(cs) /\ Unique(cs)
                   /\ Ids(cs) \subseteq 1 .. next - 1

\* Connections are distinct, and all identities in use were given out.
Links == /\ nextId \in Nat \ {0}
         /\ Table(conns, nextId)
         /\ chain.conns \cup table \subseteq 1 .. nextId - 1

\* Calls of dsp_active of dsp.c that nested settings have left over; such
\* calls, and then an edit and Set(TRUE); an edit alone.
Calls(s) == \A i \in DOMAIN s : s[i].op = "dsp"
Frame(s) == /\ Len(s) > 1 /\ s[Len(s)] = Set(TRUE) /\ s[Len(s) - 1].op = "edit"
            /\ \A i \in 1 .. Len(s) - 2 : s[i].op = "dsp"
Alone(s) == Len(s) = 1 /\ s[1].op = "edit"

\* What is left after the setting or the listener of the patch in front.
Rest(s) == IF s # <<>> /\ s[1].op \in {"set", "patch"} THEN Tail(s) ELSE s

\* What a handler may have left to do.
ShapeOf(s) == /\ Calls(Rest(s)) \/ Frame(Rest(s)) \/ Alone(s)
              /\ s # <<>> /\ s[1].op = "patch" => Len(s) > 1 /\ s[2].op = "dsp"
Shape == ShapeOf(todo)

\* An edit that is still to be done is about an object that exists.
Named(s, S) == \A i \in DOMAIN s :
   s[i].op = "edit" /\ s[i].arg.what # "unlink" => s[i].arg.name \in S
EditNames == Named(todo, live \ pending)

\* Nothing of a graph is left when it is not compiled.
Stopped == ~compiled => chain = NoChain /\ table = {}

\* The handler will not call the listeners of dsp_active any more.
Quiet == todo = <<>> \/ Alone(todo)

\* Then the graph is as dsp_active says, and what the handler still removes
\* from a compiled graph was removed behind the back of dsp_active.
Sync == Quiet => /\ compiled => active
                 /\ ~foreign => (active <=> compiled)
                 /\ todo # <<>> /\ ~foreign =>
                      \/ ~compiled \/ todo[1].arg.what = "unlink"
                      \/ todo[1].arg.name \notin Dsp

\* The connections whose type is fts_c_audio_active.
On(cs) == {c \in cs : c.active}

\* The table knows the connections that are marked, until one is moved under
\* the running graph; it knows no others, until one is deleted under it.
Exact == chain.conns \subseteq table /\ table = Ids(On(conns))
Marks == ~moved => /\ Ids(On(conns)) \subseteq table
                   /\ ~dropped => Exact

\* An edit between Set(FALSE) and Set(TRUE).
Framed == Frame(Rest(todo))

\* A connection that is deleted without them is not in the running graph.
EditsSafe == ~moved /\ ~dropped /\ Alone(todo) /\ todo[1].arg.what = "unlink"
               => todo[1].arg.name \notin table

\* What is wanted is what the last Set of the handler will bring, or what is.
Wants == ~moved /\ ~abandoned =>
   /\ Framed => wanted
   /\ ~Framed /\ todo # <<>> /\ todo[1].op = "set" => (wanted <=> todo[1].arg)
   /\ ~Framed /\ (todo = <<>> \/ todo[1].op # "set") => (wanted <=> active)

IInv == /\ Types /\ Links /\ Shape /\ EditNames /\ Stopped /\ ChainCurrent
        /\ Sync /\ Marks /\ EditsSafe /\ Wants

-----------------------------------------------------------------------------
(* The operators on sets of connections.                                    *)

\* Connection d is connection c, perhaps with another mark.
SameLink(c, d) == d \in ConnType /\ d.id = c.id /\ d.src = c.src /\ d.dst = c.dst

\* The compiler changes marks only: identities and ends of connections stay.
LEMMA Remarked ==
  ASSUME NEW cs, NEW next \in Nat, Table(cs, next), NEW on \in SUBSET cs,
         NEW ds, NEW g \in Surjection(cs, ds),
         \A c \in cs : SameLink(c, g[c]) /\ (g[c].active <=> c \in on)
  PROVE  Table(ds, next) /\ Ids(ds) = Ids(cs) /\ Ids(On(ds)) = Ids(on)
<1>1. \A c \in cs : /\ g[c] \in ConnType
                    /\ g[c].id = c.id /\ g[c].src = c.src /\ g[c].dst = c.dst
  BY DEF SameLink
<1>2. /\ \A c \in cs : g[c] \in ds
      /\ \A d \in ds : \E c \in cs : d = g[c]
  BY DEF Surjection
<1>3. IsFiniteSet(ds)
  BY FS_Surjection DEF Table
<1>4. Unique(ds)
  <2> SUFFICES ASSUME NEW x \in ds, NEW y \in ds,
                      (x.src = y.src /\ x.dst = y.dst) \/ x.id = y.id
               PROVE  x = y
    BY DEF Unique
  <2>1. PICK c \in cs : x = g[c]
    BY <1>2
  <2>2. PICK d \in cs : y = g[d]
    BY <1>2
  <2>3. (c.src = d.src /\ c.dst = d.dst) \/ c.id = d.id
    BY <1>1, <2>1, <2>2
  <2>4. c = d
    BY <2>3 DEF Table, Unique
  <2> QED BY <2>1, <2>2, <2>4
<1>5. Ids(ds) = Ids(cs)
  BY <1>1, <1>2 DEF Ids
<1>6. Ids(On(ds)) = Ids(on)
  <2>1. \A c \in on : c \in cs /\ g[c] \in On(ds) /\ g[c].id = c.id
    BY <1>1, <1>2 DEF On
  <2>2. \A d \in On(ds) : \E c \in on : d.id = c.id
    BY <1>1, <1>2 DEF On
  <2> QED BY <2>1, <2>2 DEF Ids
<1>7. ds \in SUBSET ConnType
  BY <1>1, <1>2
<1> QED BY <1>3, <1>4, <1>5, <1>6, <1>7 DEF Table

\* What the compiler marks is a set of connections of the graph, and among
\* them are all it reached.
LEMMA MarkedSubset == ASSUME NEW cs
                      PROVE  Reached(cs) \subseteq Marked(cs) /\ Marked(cs) \subseteq cs
BY DEF Reached, Marked

\* fts_signal_connection_add marks those and no other.
LEMMA MarkFacts ==
  ASSUME NEW cs, NEW next \in Nat, Table(cs, next)
  PROVE  /\ Table(MarkSignals(cs), next)
         /\ Ids(MarkSignals(cs)) = Ids(cs)
         /\ Ids(On(MarkSignals(cs))) = Ids(On(cs) \cup Marked(cs))
<1> DEFINE on == On(cs) \cup Marked(cs)
           g  == [c \in cs |-> [c EXCEPT !.active = (@ \/ c \in Marked(cs))]]
<1>1. on \in SUBSET cs
  BY MarkedSubset DEF On
<1>2. g \in Surjection(cs, MarkSignals(cs))
  BY DEF MarkSignals, Surjection
<1>3. ASSUME NEW c \in cs
      PROVE  SameLink(c, g[c]) /\ (g[c].active <=> c \in on)
  <2>1. c \in ConnType
    BY DEF Table
  <2>2. (c \in on) <=> (c.active \/ c \in Marked(cs))
    BY DEF On
  <2>3. g[c] = [c EXCEPT !.active = (c.active \/ c \in Marked(cs))]
    OBVIOUS
  <2> HIDE DEF g, on
  <2> QED BY <2>1, <2>2, <2>3 DEF ConnType, SameLink
<1> HIDE DEF g, on
<1>4. Table(MarkSignals(cs), next) /\ Ids(MarkSignals(cs)) = Ids(cs)
        /\ Ids(On(MarkSignals(cs))) = Ids(on)
  BY <1>1, <1>2, <1>3, Remarked
<1> QED BY <1>4 DEF on

\* fts_signal_connection_remove_all takes the marks of the table away.
LEMMA UnmarkFacts ==
  ASSUME NEW cs, NEW next \in Nat, Table(cs, next)
  PROVE  /\ Table(Unmark(cs), next)
         /\ Ids(Unmark(cs)) = Ids(cs)
         /\ Ids(On(cs)) \subseteq table => On(Unmark(cs)) = {}
<1> DEFINE on == {c \in cs : c.active /\ c.id \notin table}
           g  == [c \in cs |-> [c EXCEPT !.active = (@ /\ c.id \notin table)]]
<1>1. on \in SUBSET cs
  OBVIOUS
<1>2. g \in Surjection(cs, Unmark(cs))
  BY DEF Unmark, Surjection
<1>3. ASSUME NEW c \in cs
      PROVE  SameLink(c, g[c]) /\ (g[c].active <=> c \in on)
  <2>1. c \in ConnType
    BY DEF Table
  <2>2. (c \in on) <=> (c.active /\ c.id \notin table)
    OBVIOUS
  <2>3. g[c] = [c EXCEPT !.active = (c.active /\ c.id \notin table)]
    OBVIOUS
  <2> HIDE DEF g, on
  <2> QED BY <2>1, <2>2, <2>3 DEF ConnType, SameLink
<1>4. Ids(On(cs)) \subseteq table => on = {}
  BY DEF Ids, On
<1> HIDE DEF g, on
<1>5. Table(Unmark(cs), next) /\ Ids(Unmark(cs)) = Ids(cs) /\ Ids(On(Unmark(cs))) = Ids(on)
  BY <1>1, <1>2, <1>3, Remarked
<1>6. on = {} => On(Unmark(cs)) = {}
  BY <1>5 DEF Ids
<1> QED BY <1>4, <1>5, <1>6

\* A part of a table is a table.
LEMMA TablePart ==
  ASSUME NEW cs, NEW next \in Nat, Table(cs, next), NEW ds \in SUBSET cs
  PROVE  Table(ds, next) /\ Ids(ds) \subseteq Ids(cs)
<1>1. IsFiniteSet(ds)
  BY FS_Subset DEF Table
<1> QED BY <1>1 DEF Table, Unique, Ids

\* The connections that are newer than c and moved before it, and all
\* connections after fts_object_move_connections (see Replace).
Newer(n, c) == {d \in Of(n) : d.id > c.id}
Moved(n) == (conns \ Of(n))
              \cup {[c EXCEPT !.id = nextId + Cardinality(Newer(n, c))] : c \in Of(n)}

\* fts_object_move_connections gives every connection an identity of its own.
LEMMA NewIds ==
  ASSUME NEW n, nextId \in Nat \ {0}, Table(conns, nextId)
  PROVE  /\ IsFiniteSet(Of(n)) /\ Cardinality(Of(n)) \in Nat
         /\ \A c \in Of(n) : /\ Cardinality(Newer(n, c)) \in Nat
                             /\ Cardinality(Newer(n, c)) < Cardinality(Of(n))
         /\ \A c, d \in Of(n) : c # d => Cardinality(Newer(n, c)) # Cardinality(Newer(n, d))
<1>1. IsFiniteSet(Of(n)) /\ Of(n) \subseteq conns
  BY FS_Subset DEF Of, Table
<1>2. Cardinality(Of(n)) \in Nat
  BY <1>1, FS_CardinalityType
<1>3. \A c \in Of(n) : c \in ConnType /\ c.id \in Nat
  BY <1>1 DEF Table, ConnType
<1>4. ASSUME NEW c \in Of(n)
      PROVE  /\ IsFiniteSet(Newer(n, c)) /\ Cardinality(Newer(n, c)) \in Nat
             /\ Cardinality(Newer(n, c)) < Cardinality(Of(n))
  <2>1. Newer(n, c) \in SUBSET Of(n) /\ c \notin Newer(n, c)
    BY <1>3 DEF Newer
  <2>2. /\ IsFiniteSet(Newer(n, c)) /\ Cardinality(Newer(n, c)) <= Cardinality(Of(n))
        /\ Cardinality(Newer(n, c)) # Cardinality(Of(n))
    BY <1>1, <2>1, FS_Subset
  <2>3. Cardinality(Newer(n, c)) \in Nat
    BY <2>2, FS_CardinalityType
  <2> QED BY <1>2, <2>2, <2>3
<1>5. ASSUME NEW c \in Of(n), NEW d \in Of(n), c.id < d.id
      PROVE  Cardinality(Newer(n, d)) < Cardinality(Newer(n, c))
  <2>1. Newer(n, d) \in SUBSET Newer(n, c)
    BY <1>3, <1>5 DEF Newer
  <2>2. d \in Newer(n, c) /\ d \notin Newer(n, d)
    BY <1>3, <1>5 DEF Newer
  <2>3. /\ Cardinality(Newer(n, d)) <= Cardinality(Newer(n, c))
        /\ Cardinality(Newer(n, d)) # Cardinality(Newer(n, c))
    BY <1>4, <2>1, <2>2, FS_Subset
  <2> QED BY <1>4, <2>3
<1>6. ASSUME NEW c \in Of(n), NEW d \in Of(n), c # d
      PROVE  Cardinality(Newer(n, c)) # Cardinality(Newer(n, d))
  <2>1. c.id # d.id
    BY <1>1, <1>6 DEF Table, Unique
  <2>2. c.id < d.id \/ d.id < c.id
    BY <1>3, <2>1
  <2> QED BY <2>2, <1>4, <1>5
<1> QED BY <1>1, <1>2, <1>4, <1>6

\* After it connections are as distinct as before, and marked as before.
LEMMA MovedFacts ==
  ASSUME NEW n, nextId \in Nat \ {0}, Table(conns, nextId)
  PROVE  /\ nextId + Cardinality(Of(n)) \in Nat \ {0}
         /\ Table(Moved(n), nextId + Cardinality(Of(n)))
         /\ ~Audio(Of(n)) => On(Moved(n)) = On(conns)
<1> DEFINE g  == [c \in Of(n) |-> [c EXCEPT !.id = nextId + Cardinality(Newer(n, c))]]
           ds == {g[c] : c \in Of(n)}
           next == nextId + Cardinality(Of(n))
<1>1. /\ Cardinality(Of(n)) \in Nat /\ IsFiniteSet(Of(n))
      /\ \A c \in Of(n) : /\ Cardinality(Newer(n, c)) \in Nat
                          /\ Cardinality(Newer(n, c)) < Cardinality(Of(n))
      /\ \A c, d \in Of(n) : c # d => Cardinality(Newer(n, c)) # Cardinality(Newer(n, d))
  BY NewIds
<1>2. /\ conns \in SUBSET ConnType /\ IsFiniteSet(conns) /\ Of(n) \subseteq conns
      /\ \A c \in conns : c.id \in 1 .. nextId - 1
  BY DEF Table, Of, Ids
<1>3. ASSUME NEW c \in Of(n)
      PROVE  /\ g[c] \in ConnType /\ g[c].id = nextId + Cardinality(Newer(n, c))
             /\ g[c].src = c.src /\ g[c].dst = c.dst /\ (g[c].active <=> c.active)
  <2>1. c \in ConnType /\ nextId + Cardinality(Newer(n, c)) \in Nat
    BY <1>1, <1>2
  <2>2. g[c] = [c EXCEPT !.id = nextId + Cardinality(Newer(n, c))]
    OBVIOUS
  <2> HIDE DEF g
  <2> QED BY <2>1, <2>2 DEF ConnType
<1>4. Moved(n) = (conns \ Of(n)) \cup ds
  BY DEF Moved
<1>5. g \in Surjection(Of(n), ds) /\ \A d \in ds : \E c \in Of(n) : d = g[c]
  BY DEF Surjection
<1> HIDE DEF g, ds
<1>6. IsFiniteSet(Moved(n))
  <2>1. IsFiniteSet(ds)
    BY <1>1, <1>5, FS_Surjection
  <2>2. IsFiniteSet(conns \ Of(n))
    BY <1>2, FS_Difference
  <2> QED BY <1>4, <2>1, <2>2, FS_Union
<1>7. ASSUME NEW x \in conns \ Of(n), NEW y \in ds
      PROVE  x.id # y.id /\ ~(x.src = y.src /\ x.dst = y.dst)
  <2>1. PICK c \in Of(n) : y = g[c]
    BY <1>5
  <2>2. x \in conns /\ c \in conns /\ x # c
    BY <1>2
  <2>3. ~(x.src = c.src /\ x.dst = c.dst)
    BY <2>2 DEF Table, Unique
  <2> QED BY <1>1, <1>2, <1>3, <2>1, <2>2, <2>3
<1>8. ASSUME NEW x \in ds, NEW y \in ds, (x.src = y.src /\ x.dst = y.dst) \/ x.id = y.id
      PROVE  x = y
  <2>1. PICK c \in Of(n) : x = g[c]
    BY <1>5
  <2>2. PICK d \in Of(n) : y = g[d]
    BY <1>5
  <2>3. c \in conns /\ d \in conns
    BY <1>2
  <2>4. CASE x.src = y.src /\ x.dst = y.dst
    <3>1. c.src = d.src /\ c.dst = d.dst
      BY <1>3, <2>1, <2>2, <2>4
    <3> QED BY <2>1, <2>2, <2>3, <3>1 DEF Table, Unique
  <2>5. CASE x.id = y.id
    <3>1. Cardinality(Newer(n, c)) = Cardinality(Newer(n, d))
      BY <1>1, <1>3, <2>1, <2>2, <2>5
    <3> QED BY <1>1, <2>1, <2>2, <3>1
  <2> QED BY <1>8, <2>4, <2>5
<1>9. Unique(Moved(n))
  <2>1. \A x, y \in conns \ Of(n) : (x.src = y.src /\ x.dst = y.dst) \/ x.id = y.id => x = y
    BY DEF Table, Unique
  <2> QED BY <1>4, <1>7, <1>8, <2>1 DEF Unique
<1>10. Ids(Moved(n)) \subseteq 1 .. next - 1
  <2>1. ASSUME NEW d \in ds PROVE d.id \in 1 .. next - 1
    <3>1. PICK c \in Of(n) : d = g[c]
      BY <1>5
    <3> QED BY <1>1, <1>3, <3>1
  <2>2. \A c \in conns : c.id \in 1 .. next - 1
    BY <1>1, <1>2
  <2> QED BY <1>4, <2>1, <2>2 DEF Ids
<1>11. Moved(n) \in SUBSET ConnType
  BY <1>2, <1>3, <1>4, <1>5
<1>12. ~Audio(Of(n)) => On(Moved(n)) = On(conns)
  <2> SUFFICES ASSUME ~Audio(Of(n)) PROVE On(Moved(n)) = On(conns)
    OBVIOUS
  <2>1. \A c \in Of(n) : ~c.active
    BY DEF Audio
  <2>2. \A d \in ds : ~d.active
    BY <1>3, <1>5, <2>1
  <2> QED BY <1>4, <2>1, <2>2 DEF On
<1> QED BY <1>1, <1>6, <1>9, <1>10, <1>11, <1>12 DEF Table

-----------------------------------------------------------------------------
(* The graph after it was compiled or reset.                                *)

\* fts_dsp_graph_compile: the chain is current, and marks are exact if none
\* was left from before.
LEMMA CompileFacts ==
  ASSUME NEW cs, NEW r \in Rates, nextId' \in Nat \ {0}, Table(cs, nextId'),
         live' \in SUBSET Names, gen' \in [Names -> Nat], Compile(cs, r)
  PROVE  /\ compiled' = TRUE /\ chain' \in ChainType
         /\ Table(conns', nextId') /\ chain'.conns \cup table' \subseteq 1 .. nextId' - 1
         /\ chain'.rate = r
         /\ \A o \in chain'.objs : o[1] \in live' /\ gen'[o[1]] = o[2]
         /\ dropped' = FALSE
         /\ On(cs) = {} => chain'.conns \subseteq table' /\ table' = Ids(On(conns'))
<1>1. /\ chain'.conns = Ids(Reached(cs)) /\ chain'.rate = r
      /\ chain'.objs = {<<n, gen'[n]>> : n \in live' \cap Dsp}
      /\ chain' = [objs |-> chain'.objs, conns |-> chain'.conns, rate |-> chain'.rate]
      /\ table' = Ids({c \in Marked(cs) : ~c.active}) /\ conns' = MarkSignals(cs)
      /\ compiled' = TRUE /\ dropped' = FALSE
  BY DEF Compile
<1>2. Reached(cs) \subseteq cs /\ {c \in Marked(cs) : ~c.active} \subseteq cs
  BY MarkedSubset
<1>3. Ids(Reached(cs)) \cup table' \subseteq 1 .. nextId' - 1
  BY <1>1, <1>2 DEF Table, Ids
<1>4. \A o \in chain'.objs : o \in Dsp \X Nat /\ o[1] \in live' /\ gen'[o[1]] = o[2]
  BY <1>1 DEF Names
<1>5. chain' \in ChainType
  <2>1. chain'.objs \in SUBSET (Dsp \X Nat) /\ chain'.conns \in SUBSET Nat /\ chain'.rate \in Rates
    BY <1>1, <1>3, <1>4
  <2> QED BY <1>1, <2>1 DEF ChainType
<1>6. Table(conns', nextId') /\ Ids(On(conns')) = Ids(On(cs) \cup Marked(cs))
  BY <1>1, MarkFacts
<1>7. On(cs) = {} => {c \in Marked(cs) : ~c.active} = Marked(cs) /\ On(cs) \cup Marked(cs) = Marked(cs)
  BY MarkedSubset DEF On
<1>8. Ids(Reached(cs)) \subseteq Ids(Marked(cs))
  BY MarkedSubset DEF Ids
<1> QED BY <1>1, <1>3, <1>4, <1>5, <1>6, <1>7, <1>8

\* fts_dsp_graph_reset, or a graph that is not compiled: nothing is left, and
\* no mark if the table had them all.
LEMMA ResetFacts ==
  ASSUME NEW cs, nextId' \in Nat, Table(cs, nextId'), compiled \in BOOLEAN,
         dropped \in BOOLEAN, Stopped, ResetIfCompiled(cs)
  PROVE  /\ compiled' = FALSE /\ chain' = NoChain /\ table' = {}
         /\ Table(conns', nextId') /\ dropped' \in BOOLEAN
         /\ Ids(On(cs)) \subseteq table => On(conns') = {}
<1>1. CASE compiled
  <2>1. /\ compiled' = FALSE /\ chain' = NoChain /\ table' = {} /\ conns' = Unmark(cs)
        /\ dropped' = FALSE
    BY <1>1 DEF ResetIfCompiled, Reset
  <2> QED BY <2>1, UnmarkFacts
<1>2. CASE ~compiled
  <2>1. /\ compiled' = FALSE /\ chain' = NoChain /\ table' = {} /\ conns' = cs /\ table = {}
        /\ dropped' = dropped
    BY <1>2 DEF ResetIfCompiled, graphVars, Stopped
  <2>2. Ids(On(cs)) = {} => On(cs) = {}
    BY DEF Ids
  <2> QED BY <2>1, <2>2
<1> QED BY <1>1, <1>2

\* NoChain is a chain.
LEMMA NoChainType == NoChain \in ChainType /\ NoChain.conns = {} /\ NoChain.objs = {}
BY ControlAssumption DEF NoChain, ChainType

-----------------------------------------------------------------------------
(* The handler.                                                             *)

\* Taking the first step away, and putting steps in front.
LEMMA TailFacts ==
  ASSUME NEW s \in Seq(StepType), s # <<>>
  PROVE  /\ Head(s) = s[1] /\ s[1] \in StepType
         /\ Len(s) \in Nat /\ Len(s) >= 1 /\ DOMAIN s = 1 .. Len(s)
         /\ Tail(s) \in Seq(StepType) /\ Len(Tail(s)) = Len(s) - 1
         /\ DOMAIN Tail(s) = 1 .. Len(s) - 1
         /\ \A i \in 1 .. Len(s) - 1 : Tail(s)[i] = s[i + 1]
BY DEF StepType

\* The types of the arguments.
LEMMA StepFacts ==
  ASSUME NEW e \in StepType
  PROVE  /\ e.op \in {"set", "patch", "dsp", "edit"}
         /\ e.op # "edit" => e.arg \in BOOLEAN
         /\ e.op = "edit" => e.arg.what \in Whats
BY DEF StepType

\* Putting a step in front.
LEMMA ConsFacts ==
  ASSUME NEW s \in Seq(StepType), NEW e \in StepType
  PROVE  /\ <<e>> \o s \in Seq(StepType) /\ <<e>> \o s # <<>>
         /\ (<<e>> \o s)[1] = e /\ Tail(<<e>> \o s) = s
         /\ Len(<<e>> \o s) = Len(s) + 1 /\ DOMAIN (<<e>> \o s) = 1 .. Len(s) + 1
         /\ \A i \in 1 .. Len(s) : (<<e>> \o s)[i + 1] = s[i]
OBVIOUS

\* Two steps in front are one and one.
LEMMA ConsTwo ==
  ASSUME NEW s \in Seq(StepType), NEW d \in StepType, NEW e \in StepType
  PROVE  <<d, e>> \o s = <<d>> \o (<<e>> \o s)
<1> DEFINE t == <<e>> \o s
           u == <<d>> \o t
           v == <<d, e>> \o s
<1>1. Len(s) \in Nat /\ t \in Seq(StepType) /\ Len(t) = Len(s) + 1 /\ t[1] = e
  BY ConsFacts
<1>2. \A i \in 1 .. Len(s) : t[i + 1] = s[i]
  BY ConsFacts
<1> HIDE DEF t
<1>3. u \in Seq(StepType) /\ Len(u) = Len(t) + 1 /\ u[1] = d
  BY <1>1, ConsFacts
<1>4. \A i \in 1 .. Len(t) : u[i + 1] = t[i]
  BY <1>1, ConsFacts
<1>5. /\ v \in Seq(StepType) /\ Len(v) = Len(s) + 2 /\ v[1] = d /\ v[2] = e
      /\ \A i \in 1 .. Len(s) : v[i + 2] = s[i]
  OBVIOUS
<1> HIDE DEF u, v
<1>6. ASSUME NEW i \in 1 .. Len(v) PROVE u[i] = v[i]
  <2>1. i = 1 \/ i = 2 \/ i - 2 \in 1 .. Len(s)
    BY <1>1, <1>5
  <2>2. CASE i = 1
    BY <1>3, <1>5, <2>2
  <2>3. CASE i = 2
    <3>1. 1 \in 1 .. Len(t) /\ 1 + 1 = i
      BY <1>1, <2>3
    <3> QED BY <1>1, <1>4, <1>5, <2>3, <3>1
  <2>4. CASE i - 2 \in 1 .. Len(s)
    <3>1. i - 1 \in 1 .. Len(t) /\ (i - 1) + 1 = i /\ (i - 2) + 1 = i - 1 /\ (i - 2) + 2 = i
      BY <1>1, <2>4
    <3>2. v[i] = s[i - 2] /\ t[i - 1] = s[i - 2] /\ u[i] = t[i - 1]
      BY <1>2, <1>4, <1>5, <2>4, <3>1
    <3> QED BY <3>2
  <2> QED BY <2>1, <2>2, <2>3, <2>4
<1>7. u = v
  BY <1>1, <1>3, <1>5, <1>6, SeqEqual
<1> QED BY <1>7 DEF t, u, v

\* A handler with one step.
LEMMA Singleton ==
  ASSUME NEW s \in Seq(StepType), Len(s) = 1
  PROVE  s = <<s[1]>> /\ Tail(s) = <<>>
<1>1. s = <<s[1]>>
  OBVIOUS
<1>2. s # <<>>
  OBVIOUS
<1>3. Tail(s) \in Seq(StepType) /\ Len(Tail(s)) = Len(s) - 1
  BY <1>2, HeadTailProperties
<1>4. Len(Tail(s)) = 0
  BY <1>3
<1> QED BY <1>1, <1>3, <1>4, EmptySeq

\* A call of dsp_active in front leaves the shape of the others.
LEMMA CallFirst ==
  ASSUME NEW s \in Seq(StepType), NEW e \in StepType, e.op = "dsp"
  PROVE  /\ Calls(<<e>> \o s) <=> Calls(s)
         /\ Frame(<<e>> \o s) <=> Frame(s)
<1> DEFINE t == <<e>> \o s
<1>1. /\ Len(s) \in Nat /\ DOMAIN s = 1 .. Len(s)
      /\ Len(t) = Len(s) + 1 /\ DOMAIN t = 1 .. Len(s) + 1 /\ t[1] = e
      /\ \A i \in 1 .. Len(s) : t[i + 1] = s[i]
  BY ConsFacts
<1> HIDE DEF t
<1>2. \A i \in DOMAIN t : i = 1 \/ (i - 1 \in 1 .. Len(s) /\ t[i] = s[i - 1])
  BY <1>1
<1>3. Calls(t) <=> Calls(s)
  <2>1. ASSUME Calls(s) PROVE Calls(t)
    BY <1>1, <1>2, <2>1 DEF Calls
  <2>2. ASSUME Calls(t), NEW i \in DOMAIN s PROVE s[i].op = "dsp"
    <3>1. i + 1 \in DOMAIN t /\ t[i + 1] = s[i]
      BY <1>1
    <3>2. \A j \in DOMAIN t : t[j].op = "dsp"
      BY <2>2 DEF Calls
    <3> QED BY <3>1, <3>2
  <2> QED BY <2>1, <2>2 DEF Calls
<1>4. ASSUME Frame(s) PROVE Frame(t)
  <2>1. /\ Len(s) > 1 /\ s[Len(s)] = Set(TRUE) /\ s[Len(s) - 1].op = "edit"
        /\ \A i \in 1 .. Len(s) - 2 : s[i].op = "dsp"
    BY <1>4 DEF Frame
  <2>2. t[Len(t)] = s[Len(s)] /\ t[Len(t) - 1] = s[Len(s) - 1]
    <3>1. /\ Len(s) \in 1 .. Len(s) /\ Len(s) + 1 = Len(t)
          /\ Len(s) - 1 \in 1 .. Len(s) /\ (Len(s) - 1) + 1 = Len(t) - 1
      BY <1>1, <2>1
    <3> QED BY <1>1, <3>1
  <2>3. ASSUME NEW i \in 1 .. Len(t) - 2 PROVE t[i].op = "dsp"
    <3>1. i = 1 \/ (i - 1 \in 1 .. Len(s) - 2 /\ t[i] = s[i - 1])
      BY <1>1, <1>2
    <3> QED BY <1>1, <2>1, <3>1
  <2> QED BY <1>1, <2>1, <2>2, <2>3 DEF Frame
<1>5. ASSUME Frame(t) PROVE Frame(s)
  <2>1. /\ Len(t) > 1 /\ t[Len(t)] = Set(TRUE) /\ t[Len(t) - 1].op = "edit"
        /\ \A i \in 1 .. Len(t) - 2 : t[i].op = "dsp"
    BY <1>5 DEF Frame
  <2>2. Len(t) - 1 # 1
    BY <1>1, <2>1
  <2>3. Len(s) > 1
    BY <1>1, <2>1, <2>2
  <2>4. t[Len(t)] = s[Len(s)] /\ t[Len(t) - 1] = s[Len(s) - 1]
    BY <1>1, <1>2, <2>3
  <2>5. ASSUME NEW i \in 1 .. Len(s) - 2 PROVE s[i].op = "dsp"
    <3>1. i + 1 \in 1 .. Len(t) - 2 /\ t[i + 1] = s[i]
      BY <1>1
    <3> QED BY <2>1, <3>1
  <2> QED BY <2>1, <2>3, <2>4, <2>5 DEF Frame
<1> QED BY <1>3, <1>4, <1>5 DEF t

\* SetActive calls the listeners.
LEMMA ShapeSetActive ==
  ASSUME NEW s \in Seq(StepType), s # <<>>, s[1].op = "set", ShapeOf(s),
         NEW p \in StepType, p.op = "patch", NEW e \in StepType, e.op = "dsp"
  PROVE  LET t == <<p, e>> \o Tail(s)
         IN  /\ t \in Seq(StepType) /\ t # <<>> /\ t[1] = p /\ ShapeOf(t)
             /\ Frame(Rest(t)) <=> Frame(Rest(s))
<1> DEFINE r == Tail(s)
           u == <<e>> \o r
           t == <<p>> \o u
<1>1. r \in Seq(StepType) /\ Len(s) \in Nat /\ Rest(s) = r
  BY TailFacts DEF Rest
<1>2. <<p, e>> \o r = t
  BY <1>1, ConsTwo
<1>3. u \in Seq(StepType) /\ u[1] = e /\ Len(u) = Len(r) + 1
  BY <1>1, ConsFacts
<1>4. (Calls(u) <=> Calls(r)) /\ (Frame(u) <=> Frame(r))
  BY <1>1, CallFirst
<1> HIDE DEF u
<1>5. /\ t \in Seq(StepType) /\ t # <<>> /\ t[1] = p /\ Tail(t) = u /\ Len(t) = Len(u) + 1
      /\ t[2] = e
  BY <1>3, ConsFacts
<1> HIDE DEF t
<1>6. Rest(t) = u
  BY <1>5 DEF Rest
<1>7. Calls(r) \/ Frame(r)
  BY <1>1 DEF ShapeOf, Alone
<1>8. ShapeOf(t)
  <2>1. Len(r) \in Nat
    BY <1>1
  <2> QED BY <1>3, <1>4, <1>5, <1>6, <1>7, <2>1 DEF ShapeOf
<1> QED BY <1>1, <1>2, <1>4, <1>5, <1>6, <1>8

\* React: the listener of the patch returns, or has set the parameter.
LEMMA ShapeReact ==
  ASSUME NEW s \in Seq(StepType), s # <<>>, s[1].op = "patch", ShapeOf(s),
         NEW e \in StepType, e.op = "set"
  PROVE  /\ ShapeOf(Tail(s)) /\ Tail(s) # <<>> /\ Tail(s)[1].op = "dsp"
         /\ Rest(Tail(s)) = Rest(s)
         /\ ShapeOf(<<e>> \o Tail(s)) /\ Rest(<<e>> \o Tail(s)) = Rest(s)
<1> DEFINE r == Tail(s)
           t == <<e>> \o r
<1>1. /\ r \in Seq(StepType) /\ Rest(s) = r /\ Len(s) > 1 /\ Len(r) = Len(s) - 1
      /\ s[2].op = "dsp" /\ r[1] = s[2] /\ Len(s) \in Nat
  <2>1. Len(s) > 1 /\ s[2].op = "dsp"
    BY DEF ShapeOf
  <2> QED BY <2>1, TailFacts DEF Rest
<1>2. r # <<>> /\ Rest(r) = r
  <2>1. Len(r) # 0
    BY <1>1
  <2>2. r # <<>>
    BY <2>1, EmptySeq
  <2> HIDE DEF r
  <2> QED BY <1>1, <2>2 DEF Rest
<1>3. Calls(r) \/ Frame(r)
  BY <1>1 DEF ShapeOf, Alone
<1>4. t # <<>> /\ t[1] = e /\ Tail(t) = r
  BY <1>1, ConsFacts
<1> HIDE DEF r, t
<1>5. Rest(t) = r
  BY <1>4 DEF Rest
<1>6. ShapeOf(r)
  BY <1>1, <1>2, <1>3 DEF ShapeOf
<1>7. ShapeOf(t)
  BY <1>3, <1>4, <1>5 DEF ShapeOf
<1> QED BY <1>1, <1>2, <1>4, <1>5, <1>6, <1>7 DEF r, t

\* SwitchGraph: dsp_active of dsp.c returns.
LEMMA ShapeSwitchGraph ==
  ASSUME NEW s \in Seq(StepType), s # <<>>, s[1].op = "dsp", ShapeOf(s)
  PROVE  /\ ShapeOf(Tail(s)) /\ ~Alone(Tail(s))
         /\ Tail(s) # <<>> => Tail(s)[1].op \in {"dsp", "edit"}
         /\ Frame(Rest(Tail(s))) <=> Frame(Rest(s))
<1> DEFINE r == Tail(s)
<1>1. /\ r \in Seq(StepType) /\ s[1] \in StepType /\ s = <<s[1]>> \o r
      /\ Len(s) \in Nat /\ Len(r) \in Nat
  BY TailFacts
<1>2. Rest(s) = s /\ ~Alone(s)
  BY DEF Rest, Alone
<1>3. (Calls(s) <=> Calls(r)) /\ (Frame(s) <=> Frame(r))
  BY <1>1, CallFirst
<1>4. Calls(r) \/ Frame(r)
  BY <1>2, <1>3 DEF ShapeOf
<1> HIDE DEF r
<1>5. ASSUME r # <<>> PROVE r[1].op \in {"dsp", "edit"} /\ ~Alone(r)
  <2>1. Len(r) >= 1 /\ DOMAIN r = 1 .. Len(r)
    BY <1>1, <1>5
  <2>2. CASE Calls(r)
    BY <2>1, <2>2 DEF Calls, Alone
  <2>3. CASE Frame(r)
    <3>1. Len(r) > 1 /\ r[Len(r) - 1].op = "edit" /\ \A i \in 1 .. Len(r) - 2 : r[i].op = "dsp"
      BY <2>3 DEF Frame
    <3>2. CASE Len(r) <= 2
      BY <1>1, <3>1, <3>2 DEF Alone
    <3>3. CASE Len(r) > 2
      BY <1>1, <3>1, <3>3 DEF Alone
    <3> QED BY <1>1, <3>2, <3>3
  <2> QED BY <1>4, <2>2, <2>3
<1>6. Rest(r) = r
  BY <1>5 DEF Rest
<1>7. ~Alone(<<>>)
  BY DEF Alone
<1> QED BY <1>2, <1>3, <1>4, <1>5, <1>6, <1>7 DEF ShapeOf, r

\* The edit is done: nothing or Set(TRUE) is left.
LEMMA ShapeEdit ==
  ASSUME NEW s \in Seq(StepType), s # <<>>, s[1].op = "edit", ShapeOf(s)
  PROVE  /\ Rest(s) = s
         /\ \/ Alone(s) /\ ~Frame(s) /\ Tail(s) = <<>>
            \/ ~Alone(s) /\ Frame(s) /\ Tail(s) = <<Set(TRUE)>>
<1>1. Rest(s) = s /\ Len(s) \in Nat /\ DOMAIN s = 1 .. Len(s) /\ Len(s) >= 1
  BY TailFacts DEF Rest
<1>2. ~Calls(s)
  BY <1>1 DEF Calls
<1>3. CASE Frame(s)
  <2>1. Len(s) > 1 /\ s[Len(s)] = Set(TRUE) /\ \A i \in 1 .. Len(s) - 2 : s[i].op = "dsp"
    BY <1>3 DEF Frame
  <2>2. ~(1 \in 1 .. Len(s) - 2)
    BY <2>1
  <2>3. Len(s) <= 2
    BY <1>1, <2>2
  <2>4. PICK k \in Nat : k = Len(s)
    BY <1>1
  <2>5. k = 2
    BY <2>1, <2>3, <2>4
  <2>6. s[2] = Set(TRUE)
    BY <2>1, <2>4, <2>5
  <2>7. Tail(s) \in Seq(StepType) /\ Len(Tail(s)) = 1 /\ Tail(s)[1] = s[2]
    <3>1. /\ Tail(s) \in Seq(StepType) /\ Len(Tail(s)) = k - 1
          /\ \A i \in 1 .. k - 1 : Tail(s)[i] = s[i + 1]
      BY <2>4, TailFacts
    <3>2. k - 1 = 1 /\ 1 \in 1 .. k - 1
      BY <2>5
    <3> QED BY <3>1, <3>2
  <2>8. Tail(s) = <<Set(TRUE)>>
    BY <2>6, <2>7, Singleton
  <2>9. ~Alone(s)
    BY <2>4, <2>5 DEF Alone
  <2> QED BY <1>1, <1>3, <2>8, <2>9
<1>4. CASE ~Frame(s)
  <2>1. Alone(s)
    BY <1>1, <1>2, <1>4 DEF ShapeOf
  <2>2. Len(s) = 1
    BY <2>1 DEF Alone
  <2>4. Tail(s) = <<>>
    BY <2>2, Singleton
  <2> QED BY <1>1, <1>4, <2>1, <2>4
<1> QED BY <1>3, <1>4

\* No step is left.
LEMMA ShapeNone == ShapeOf(<<>>) /\ ~Frame(Rest(<<>>)) /\ ~Alone(<<>>) /\ DOMAIN <<>> = {}
BY DEF ShapeOf, Frame, Rest, Alone, Calls

\* The step that sets dsp_active.
LEMMA SetStep == ASSUME NEW v \in BOOLEAN
                 PROVE  Set(v) \in StepType /\ Set(v).op = "set" /\ (Set(v).arg <=> v)
BY DEF Set, StepType

\* Handlers as they begin.
LEMMA ShapeBegin ==
  ASSUME NEW e \in StepType, e.op # "patch", e.op # "dsp"
  PROVE  /\ <<e>> # <<>> /\ DOMAIN <<e>> = {1}
         /\ <<e>> \in Seq(StepType) /\ <<e>>[1] = e /\ ShapeOf(<<e>>) /\ ~Frame(Rest(<<e>>))
         /\ Alone(<<e>>) <=> e.op = "edit"
<1>1. Rest(<<e>>) = IF e.op = "set" THEN <<>> ELSE <<e>>
  BY StepFacts DEF Rest
<1>2. Calls(<<>>) /\ ~Frame(<<>>) /\ ~Frame(<<e>>)
  BY DEF Calls, Frame
<1>3. Alone(<<e>>) <=> e.op = "edit"
  BY DEF Alone
<1> QED BY <1>1, <1>2, <1>3, StepFacts DEF ShapeOf

\* An edit begins between Set(FALSE) and Set(TRUE).
LEMMA ShapeFramed ==
  ASSUME NEW e \in StepType, e.op = "edit"
  PROVE  LET t == <<Set(FALSE), e, Set(TRUE)>>
         IN  /\ t \in Seq(StepType) /\ ShapeOf(t) /\ Frame(Rest(t)) /\ ~Alone(t)
             /\ t # <<>> /\ t[1].op = "set" /\ t[1].arg = FALSE
<1>1. /\ Set(FALSE) \in StepType /\ Set(TRUE) \in StepType
      /\ Set(FALSE).op = "set" /\ Set(FALSE).arg = FALSE
  BY DEF Set, StepType
<1>2. PICK f \in StepType : f = Set(FALSE)
  BY <1>1
<1>3. PICK l \in StepType : l = Set(TRUE)
  BY <1>1
<1> DEFINE t == <<f, e, l>>
<1>4. t \in Seq(StepType) /\ t # <<>> /\ t[1] = f /\ Tail(t) = <<e, l>> /\ Len(t) = 3
  OBVIOUS
<1>5. Frame(<<e, l>>)
  BY <1>3 DEF Frame
<1> HIDE DEF t
<1>6. Rest(t) = <<e, l>>
  BY <1>1, <1>2, <1>4 DEF Rest
<1>7. ShapeOf(t) /\ ~Alone(t)
  BY <1>1, <1>2, <1>4, <1>5, <1>6 DEF ShapeOf, Alone
<1> QED BY <1>1, <1>2, <1>3, <1>4, <1>5, <1>6, <1>7 DEF t

\* Steps that are done or put in front do not change what edits are about.
LEMMA NamedFacts ==
  ASSUME NEW s \in Seq(StepType), NEW S
  PROVE  /\ Named(<<>>, S)
         /\ \A e \in StepType : Named(s, S) /\ e.op # "edit" => Named(<<e>> \o s, S)
         /\ s # <<>> /\ Named(s, S) => Named(Tail(s), S)
<1>1. Named(<<>>, S)
  BY DEF Named
<1>2. ASSUME NEW e \in StepType, Named(s, S), e.op # "edit"
      PROVE  Named(<<e>> \o s, S)
  <2> DEFINE t == <<e>> \o s
  <2>1. /\ Len(s) \in Nat /\ DOMAIN s = 1 .. Len(s)
        /\ DOMAIN t = 1 .. Len(s) + 1 /\ t[1] = e
        /\ \A i \in 1 .. Len(s) : t[i + 1] = s[i]
    BY ConsFacts
  <2> HIDE DEF t
  <2>2. \A i \in DOMAIN t : i = 1 \/ (i - 1 \in DOMAIN s /\ t[i] = s[i - 1])
    BY <2>1
  <2> QED BY <1>2, <2>1, <2>2 DEF Named, t
<1>3. ASSUME s # <<>>, Named(s, S)
      PROVE  Named(Tail(s), S)
  <2> DEFINE t == Tail(s)
  <2>1. /\ Len(s) \in Nat /\ DOMAIN s = 1 .. Len(s) /\ DOMAIN t = 1 .. Len(s) - 1
        /\ \A i \in 1 .. Len(s) - 1 : t[i] = s[i + 1]
    BY <1>3, TailFacts
  <2> HIDE DEF t
  <2>2. \A i \in DOMAIN t : i + 1 \in DOMAIN s /\ t[i] = s[i + 1]
    BY <2>1
  <2> QED BY <1>3, <2>2 DEF Named, t
<1> QED BY <1>1, <1>2, <1>3

\* A handler that does not begin with a setting will come to one if and only if
\* an edit is framed.
LEMMA SetFound ==
  ASSUME NEW s \in Seq(StepType), s # <<>>, s[1].op \in {"patch", "edit"}, ShapeOf(s)
  PROVE  (\E i \in DOMAIN s : s[i].op = "set") <=> Frame(Rest(s))
<1>1. /\ Len(s) \in Nat /\ Len(s) >= 1 /\ DOMAIN s = 1 .. Len(s)
      /\ Tail(s) \in Seq(StepType) /\ Len(Tail(s)) = Len(s) - 1
      /\ \A i \in 1 .. Len(s) - 1 : Tail(s)[i] = s[i + 1]
  BY TailFacts
<1>2. Set(TRUE).op = "set"
  BY DEF Set
<1>3. CASE s[1].op = "patch"
  <2>1. Rest(s) = Tail(s) /\ Len(s) > 1 /\ s[2].op = "dsp" /\ Tail(s)[1].op = "dsp"
    BY <1>1, <1>3 DEF Rest, ShapeOf
  <2>2. CASE Frame(Tail(s))
    <3>1. Len(s) - 1 \in 1 .. Len(s) - 1 /\ (Len(s) - 1) + 1 = Len(s) /\ Len(s) \in DOMAIN s
      BY <1>1, <2>1
    <3>2. s[Len(s)] = Set(TRUE)
      BY <1>1, <2>2, <3>1 DEF Frame
    <3> QED BY <1>2, <2>1, <2>2, <3>1, <3>2
  <2>3. CASE ~Frame(Tail(s))
    <3>1. Calls(Tail(s))
      BY <2>1, <2>3 DEF ShapeOf, Alone
    <3>2. DOMAIN Tail(s) = 1 .. Len(s) - 1
      BY TailFacts
    <3>4. \A i \in 1 .. Len(s) - 1 : Tail(s)[i].op = "dsp"
      BY <3>1, <3>2 DEF Calls
    <3>5. \A i \in 1 .. Len(s) - 1 : s[i + 1].op = "dsp"
      BY <1>1, <3>4
    <3>3. ASSUME NEW i \in DOMAIN s PROVE s[i].op # "set"
      <4>1. i = 1 \/ (i - 1 \in 1 .. Len(s) - 1 /\ (i - 1) + 1 = i)
        BY <1>1
      <4> QED BY <1>3, <3>5, <4>1
    <3> QED BY <2>1, <2>3, <3>3
  <2> QED BY <2>2, <2>3
<1>4. CASE s[1].op = "edit"
  <2>1. /\ Rest(s) = s
        /\ \/ Alone(s) /\ ~Frame(s)
           \/ ~Alone(s) /\ Frame(s)
    BY <1>4, ShapeEdit
  <2>2. CASE Frame(s)
    <3>1. s[Len(s)] = Set(TRUE) /\ Len(s) \in DOMAIN s
      BY <1>1, <2>2 DEF Frame
    <3> QED BY <1>2, <2>1, <2>2, <3>1
  <2>3. CASE ~Frame(s)
    <3>1. Len(s) = 1
      BY <2>1, <2>3 DEF Alone
    <3>2. \A i \in DOMAIN s : i = 1
      BY <1>1, <3>1
    <3> QED BY <1>4, <2>1, <2>3, <3>2
  <2> QED BY <2>2, <2>3
<1> QED BY <1>3, <1>4

-----------------------------------------------------------------------------
(* Every step keeps the invariant.                                          *)

\* A handler that leaves the patch and the graph alone.
LEMMA GraphSame ==
  ASSUME IInv, UNCHANGED <<rate, graphVars, patchVars>>, moved' = moved
  PROVE  Links' /\ Stopped' /\ ChainCurrent' /\ Marks'
<1> USE DEF graphVars, patchVars
<1>1. Links'
  BY DEF IInv, Links, Table, Unique, Ids, ConnType
<1>2. Stopped'
  BY DEF IInv, Stopped, NoChain
<1>3. ChainCurrent'
  BY DEF IInv, ChainCurrent
<1>4. Marks'
  BY DEF IInv, Marks, Exact, Ids, On
<1> QED BY <1>1, <1>2, <1>3, <1>4

\* The initial states.
LEMMA InitIInv == ASSUME Init PROVE IInv
<1> USE DEF Init
<1>1. Types
  BY NoChainType, ControlAssumption, EmptySeq DEF Types, Names
<1>2. Links
  BY NoChainType, FS_EmptySet DEF Links, Table, Unique, Ids
<1>3. Shape /\ ~Frame(Rest(todo)) /\ ~Alone(todo)
  BY DEF Shape, ShapeOf, Rest, Calls, Frame, Alone
<1>4. EditNames
  BY DEF EditNames, Named
<1>5. Stopped /\ ChainCurrent /\ Sync
  BY <1>3 DEF Stopped, ChainCurrent, Sync, Quiet
<1>6. Marks
  BY NoChainType DEF Marks, Exact, Ids, On
<1>7. EditsSafe /\ Wants
  BY <1>3 DEF EditsSafe, Wants, Framed
<1> QED BY <1>1, <1>2, <1>3, <1>4, <1>5, <1>6, <1>7 DEF IInv

\* fts_param_set_int: the value is there, the listeners are still to be called.
LEMMA SetActiveIInv == ASSUME IInv, SetActive PROVE IInv'
<1>1. /\ todo \in Seq(StepType) /\ todo # <<>> /\ ShapeOf(todo)
      /\ todo[1].op = "set" /\ todo[1].arg \in BOOLEAN /\ Head(todo) = todo[1]
  BY TailFacts, StepFacts DEF IInv, Types, Shape, SetActive, Does
<1> DEFINE p == [op |-> "patch", arg |-> active']
           e == [op |-> "dsp", arg |-> active']
<1>2. (active' <=> todo[1].arg) /\ active' \in BOOLEAN
  BY <1>1 DEF SetActive
<1>3. p \in StepType /\ p.op = "patch" /\ e \in StepType /\ e.op = "dsp"
  BY <1>2 DEF StepType
<1>4. todo' = <<p, e>> \o Tail(todo)
  BY DEF SetActive
<1> HIDE DEF p, e
<1>5. /\ todo' \in Seq(StepType) /\ todo' # <<>> /\ (todo')[1] = p /\ ShapeOf(todo')
      /\ Frame(Rest(todo')) <=> Frame(Rest(todo))
  BY <1>1, <1>3, <1>4, ShapeSetActive
<1>6. ~Alone(todo')
  BY <1>3, <1>5 DEF Alone
<1>7. /\ UNCHANGED <<rate, graphVars, patchVars>>
      /\ UNCHANGED <<wanted, foreign, abandoned, moved>>
  BY DEF SetActive, pastVars
<1>8. Types'
  BY <1>2, <1>5, <1>7 DEF IInv, Types, graphVars, patchVars, ChainType
<1>9. EditNames'
  <2>1. Tail(todo) \in Seq(StepType) /\ Named(Tail(todo), live \ pending)
    BY <1>1, TailFacts, NamedFacts DEF IInv, EditNames
  <2>2. <<e>> \o Tail(todo) \in Seq(StepType) /\ Named(<<e>> \o Tail(todo), live \ pending)
    BY <1>3, <2>1, NamedFacts, ConsFacts
  <2>3. Named(<<p>> \o (<<e>> \o Tail(todo)), live \ pending)
    BY <1>3, <2>2, NamedFacts
  <2>4. todo' = <<p>> \o (<<e>> \o Tail(todo))
    BY <1>3, <1>4, <2>1, ConsTwo
  <2> QED BY <1>7, <2>3, <2>4 DEF EditNames, patchVars
<1>10. Sync'
  BY <1>5, <1>6 DEF Sync, Quiet
<1>11. EditsSafe'
  BY <1>6 DEF EditsSafe
<1>12. Wants'
  BY <1>1, <1>2, <1>3, <1>5, <1>7 DEF IInv, Wants, Framed
<1> QED BY <1>5, <1>7, <1>8, <1>9, <1>10, <1>11, <1>12, GraphSame DEF IInv, Shape

\* The listener of the patch: nothing, or DSP is switched from the patch.
LEMMA ReactIInv == ASSUME IInv, React PROVE IInv'
<1>1. /\ todo \in Seq(StepType) /\ todo # <<>> /\ ShapeOf(todo) /\ todo[1].op = "patch"
      /\ Tail(todo) \in Seq(StepType) /\ Named(Tail(todo), live \ pending)
  BY TailFacts, NamedFacts DEF IInv, Types, Shape, EditNames, React, Does
<1>2. /\ UNCHANGED <<active, rate, graphVars, patchVars, foreign, abandoned, moved>>
      /\ active \in BOOLEAN
  BY DEF React, IInv, Types
<1> DEFINE e == Set(~active)
<1>3. e \in StepType /\ e.op = "set" /\ (e.arg <=> ~active)
  BY <1>2 DEF Set, StepType
<1> HIDE DEF e
<1>4. /\ ShapeOf(Tail(todo)) /\ Tail(todo) # <<>> /\ Tail(todo)[1].op = "dsp"
      /\ Rest(Tail(todo)) = Rest(todo)
      /\ ShapeOf(<<e>> \o Tail(todo)) /\ Rest(<<e>> \o Tail(todo)) = Rest(todo)
  BY <1>1, <1>3, ShapeReact
<1>5. CASE todo' = Tail(todo) /\ wanted' = wanted
  <2>1. ~Alone(todo')
    BY <1>4, <1>5 DEF Alone
  <2>2. Types'
    BY <1>1, <1>2, <1>5 DEF IInv, Types, graphVars, patchVars, ChainType
  <2>3. EditNames'
    BY <1>1, <1>2, <1>5 DEF EditNames, patchVars
  <2>4. Sync'
    BY <1>4, <1>5, <2>1 DEF Sync, Quiet
  <2>5. EditsSafe'
    BY <2>1 DEF EditsSafe
  <2>6. Wants'
    BY <1>1, <1>2, <1>4, <1>5 DEF IInv, Wants, Framed
  <2> QED BY <1>2, <1>4, <1>5, <2>2, <2>3, <2>4, <2>5, <2>6, GraphSame DEF IInv, Shape
<1>6. CASE todo' = <<e>> \o Tail(todo) /\ wanted' = (IF Restarts THEN wanted ELSE ~active)
  <2>1. /\ todo' \in Seq(StepType) /\ todo' # <<>> /\ (todo')[1] = e
        /\ Named(todo', live \ pending)
    BY <1>1, <1>3, <1>6, ConsFacts, NamedFacts
  <2>2. ~Alone(todo')
    BY <1>3, <2>1 DEF Alone
  <2>3. (Framed' <=> Framed) /\ (Restarts <=> Framed)
    BY <1>1, <1>4, <1>6, SetFound DEF Framed, Restarts
  <2>4. Types'
    BY <1>2, <1>6, <2>1 DEF IInv, Types, graphVars, patchVars, ChainType
  <2>5. EditNames'
    BY <1>2, <2>1 DEF EditNames, patchVars
  <2>6. Sync'
    BY <2>1, <2>2 DEF Sync, Quiet
  <2>7. EditsSafe'
    BY <2>2 DEF EditsSafe
  <2>8. Wants'
    BY <1>2, <1>3, <1>6, <2>1, <2>3 DEF IInv, Wants
  <2> QED BY <1>2, <1>4, <1>6, <2>4, <2>5, <2>6, <2>7, <2>8, GraphSame DEF IInv, Shape
<1> QED BY <1>5, <1>6 DEF React, e

\* dsp_active of dsp.c: the graph follows the value.
LEMMA SwitchGraphIInv == ASSUME IInv, SwitchGraph PROVE IInv'
<1>1. /\ todo \in Seq(StepType) /\ todo # <<>> /\ ShapeOf(todo) /\ todo[1].op = "dsp"
      /\ Tail(todo) \in Seq(StepType) /\ Named(Tail(todo), live \ pending)
  BY TailFacts, NamedFacts DEF IInv, Types, Shape, EditNames, SwitchGraph, Does
<1>2. /\ UNCHANGED <<live, gen, pending, nextId, active, rate, wanted, abandoned, moved>>
      /\ todo' = Tail(todo) /\ foreign' = FALSE
  BY DEF SwitchGraph
<1>3. /\ ShapeOf(todo') /\ ~Alone(todo')
      /\ todo' # <<>> => (todo')[1].op \in {"dsp", "edit"}
      /\ Frame(Rest(todo')) <=> Frame(Rest(todo))
  BY <1>1, <1>2, ShapeSwitchGraph
<1>4. /\ Table(conns, nextId') /\ nextId' \in Nat \ {0} /\ Stopped
      /\ active \in BOOLEAN /\ compiled \in BOOLEAN /\ rate \in Rates /\ dropped \in BOOLEAN
      /\ live' \in SUBSET Names /\ gen' \in [Names -> Nat]
  BY <1>2 DEF IInv, Links, Types
<1>5. /\ (compiled' <=> active) /\ compiled' \in BOOLEAN /\ chain' \in ChainType
      /\ Table(conns', nextId') /\ chain'.conns \cup table' \subseteq 1 .. nextId' - 1
      /\ compiled' => /\ chain'.rate = rate
                      /\ \A o \in chain'.objs : o[1] \in live' /\ gen'[o[1]] = o[2]
      /\ ~compiled' => chain' = NoChain /\ table' = {}
      /\ dropped' \in BOOLEAN
      /\ ~moved => Ids(On(conns')) \subseteq table'
      /\ ~moved /\ ~dropped' => chain'.conns \subseteq table' /\ table' = Ids(On(conns'))
  <2>1. CASE active /\ compiled
    <3>1. UNCHANGED <<graphVars, conns>>
      BY <2>1 DEF SwitchGraph, Seen
    <3>2. ~moved => Ids(On(conns')) \subseteq table'
      BY <3>1 DEF graphVars, IInv, Marks, Ids, On
    <3>3. ~moved /\ ~dropped' => chain'.conns \subseteq table' /\ table' = Ids(On(conns'))
      BY <3>1 DEF graphVars, IInv, Marks, Exact, Ids, On
    <3> QED BY <1>2, <1>4, <2>1, <3>1, <3>2, <3>3 DEF graphVars, IInv, Types, Links, ChainCurrent
  <2>2. CASE active /\ ~compiled
    <3>1. Compile(conns, rate)
      BY <2>2 DEF SwitchGraph, Seen
    <3>2. ~moved => On(conns) = {}
      BY <2>2 DEF IInv, Marks, Stopped, Ids
    <3> QED BY <1>4, <2>2, <3>1, <3>2, CompileFacts
  <2>3. CASE ~active
    <3>1. ResetIfCompiled(conns)
      BY <2>3 DEF SwitchGraph, Seen
    <3>2. /\ compiled' = FALSE /\ chain' = NoChain /\ table' = {} /\ Table(conns', nextId')
          /\ dropped' \in BOOLEAN
          /\ Ids(On(conns)) \subseteq table => On(conns') = {}
      BY <1>4, <3>1, ResetFacts
    <3>3. ~moved => On(conns') = {}
      BY <3>2 DEF IInv, Marks
    <3>4. ~moved => Ids(On(conns')) = {}
      BY <3>3 DEF Ids
    <3>5. (chain').conns = {} /\ chain' \in ChainType
      BY <3>2, NoChainType DEF NoChain
    <3> QED BY <1>4, <2>3, <3>2, <3>4, <3>5
  <2> QED BY <1>4, <2>1, <2>2, <2>3
<1>6. Types'
  BY <1>1, <1>2, <1>5 DEF IInv, Types, ChainType
<1>7. Links' /\ Stopped' /\ ChainCurrent'
  BY <1>2, <1>4, <1>5 DEF Links, Stopped, ChainCurrent, Table, Unique, Ids, NoChain, ConnType
<1>8. Marks'
  BY <1>2, <1>5 DEF Marks, Exact, On, Ids
<1>9. EditNames'
  BY <1>1, <1>2 DEF EditNames
<1>10. Sync'
  BY <1>2, <1>3, <1>5 DEF Sync, Quiet
<1>11. EditsSafe'
  BY <1>3 DEF EditsSafe
<1>12. Wants'
  BY <1>1, <1>2, <1>3 DEF IInv, Wants, Framed
<1> QED BY <1>3, <1>6, <1>7, <1>8, <1>9, <1>10, <1>11, <1>12 DEF IInv, Shape

\* What is known when a request comes.
LEMMA RestFacts ==
  ASSUME IInv, todo = <<>>
  PROVE  /\ compiled => active
         /\ ~foreign => (active <=> compiled)
         /\ ~moved /\ ~abandoned => (wanted <=> active)
         /\ ~moved /\ ~dropped => \A c \in conns : c.active <=> c.id \in table
         /\ ~moved => \A c \in conns : c.active => active
<1>1. ~Frame(Rest(todo))
  BY DEF Frame, Rest
<1>2. ~moved /\ ~dropped => \A c \in conns : c.active <=> c.id \in table
  <2>1. \A c, d \in conns : c.id = d.id => c = d
    BY DEF IInv, Links, Table, Unique
  <2> QED BY <2>1 DEF IInv, Marks, Exact, On, Ids
<1>3. compiled => active
  BY DEF IInv, Sync, Quiet
<1>4. ~moved => \A c \in conns : c.active => active
  <2>1. ~moved => \A c \in conns : c.active => c.id \in table
    BY DEF IInv, Marks, On, Ids
  <2> QED BY <1>3, <2>1 DEF IInv, Stopped
<1> QED BY <1>1, <1>2, <1>3, <1>4 DEF IInv, Sync, Quiet, Wants, Framed

\* fts_dsp_activate, fts_dsp_desactivate.
LEMMA SwitchIInv == ASSUME IInv, NEW v \in BOOLEAN, Switch(v) PROVE IInv'
<1> DEFINE e == Set(v)
<1>1. e \in StepType /\ e.op = "set" /\ (e.arg <=> v)
  BY DEF Set, StepType
<1>2. /\ todo' = <<e>> /\ wanted' = v /\ abandoned' = FALSE
      /\ UNCHANGED <<active, rate, graphVars, patchVars, foreign, moved>>
  BY DEF Switch
<1> HIDE DEF e
<1>3. /\ todo' \in Seq(StepType) /\ (todo')[1] = e /\ ShapeOf(todo') /\ ~Frame(Rest(todo'))
      /\ ~Alone(todo') /\ todo' # <<>>
  BY <1>1, <1>2, ShapeBegin
<1>4. Types'
  BY <1>2, <1>3 DEF IInv, Types, graphVars, patchVars, ChainType
<1>5. EditNames'
  <2>1. DOMAIN todo' = {1}
    BY <1>2
  <2> QED BY <1>1, <1>3, <2>1 DEF EditNames, Named
<1>6. Sync'
  BY <1>3 DEF Sync, Quiet
<1>7. EditsSafe' /\ Wants'
  BY <1>1, <1>2, <1>3 DEF EditsSafe, Wants, Framed
<1> QED BY <1>2, <1>3, <1>4, <1>5, <1>6, <1>7, GraphSame DEF IInv, Shape

\* A request that edits the patch has begun, framed by Set(FALSE) and
\* Set(TRUE) or not.
LEMMA EditIInv ==
  ASSUME IInv, NEW what \in Whats, NEW name \in Names \cup Nat, NEW off \in BOOLEAN,
         Edit(what, name, off),
         what # "unlink" => name \in live \ pending,
         foreign' \in BOOLEAN, foreign => foreign',
         off /\ ~moved => active,
         ~off /\ ~foreign' => ~compiled \/ what = "unlink" \/ name \notin Dsp,
         ~off /\ ~moved /\ ~dropped /\ what = "unlink" => name \notin table
  PROVE  IInv'
<1> DEFINE e == [op |-> "edit", arg |-> [what |-> what, name |-> name]]
<1>1. /\ e \in StepType /\ e.op = "edit"
      /\ e.arg.what = what /\ e.arg.name = name
  BY DEF StepType
<1>2. /\ todo' = IF off THEN <<Set(FALSE), e, Set(TRUE)>> ELSE <<e>>
      /\ UNCHANGED <<active, rate, graphVars, patchVars, wanted, abandoned, moved>>
      /\ todo = <<>>
  BY DEF Edit, Request, AtRest
<1> HIDE DEF e
<1>3. /\ compiled => active
      /\ ~foreign => (active <=> compiled)
      /\ ~moved /\ ~abandoned => (wanted <=> active)
  BY <1>2, RestFacts
<1>4. CASE off
  <2>1. /\ todo' \in Seq(StepType) /\ ShapeOf(todo') /\ Frame(Rest(todo')) /\ ~Alone(todo')
        /\ todo' # <<>> /\ (todo')[1].op = "set" /\ (todo')[1].arg = FALSE
    BY <1>1, <1>2, <1>4, ShapeFramed
  <2>2. Types'
    BY <1>2, <2>1 DEF IInv, Types, graphVars, patchVars, ChainType
  <2>3. EditNames'
    <3>1. DOMAIN todo' = 1 .. 3 /\ (todo')[2] = e /\ (todo')[1] = Set(FALSE) /\ (todo')[3] = Set(TRUE)
      BY <1>2, <1>4
    <3>2. (todo')[1].op = "set" /\ (todo')[3].op = "set"
      BY <3>1 DEF Set
    <3>3. \A i \in DOMAIN todo' : i = 1 \/ i = 2 \/ i = 3
      BY <3>1
    <3> QED BY <1>1, <1>2, <3>1, <3>2, <3>3 DEF EditNames, Named, patchVars
  <2>4. Sync'
    BY <2>1 DEF Sync, Quiet
  <2>5. EditsSafe' /\ Wants'
    BY <1>2, <1>3, <1>4, <2>1 DEF EditsSafe, Wants, Framed
  <2> QED BY <1>2, <2>1, <2>2, <2>3, <2>4, <2>5, GraphSame DEF IInv, Shape
<1>5. CASE ~off
  <2>1. /\ todo' \in Seq(StepType) /\ (todo')[1] = e /\ ShapeOf(todo') /\ ~Frame(Rest(todo'))
        /\ Alone(todo') /\ todo' # <<>> /\ DOMAIN todo' = {1}
    BY <1>1, <1>2, <1>5, ShapeBegin
  <2>2. Types'
    BY <1>2, <2>1 DEF IInv, Types, graphVars, patchVars, ChainType
  <2>3. EditNames'
    BY <1>1, <1>2, <2>1 DEF EditNames, Named, patchVars
  <2>4. Sync'
    <3>1. UNCHANGED <<compiled, active>> /\ (todo')[1].arg.what = what /\ (todo')[1].arg.name = name
      BY <1>1, <1>2, <2>1 DEF graphVars
    <3>2. compiled' => active'
      BY <1>3, <3>1
    <3>3. ~foreign' => (active' <=> compiled')
      BY <1>3, <3>1
    <3>4. ~foreign' => \/ ~compiled' \/ (todo')[1].arg.what = "unlink"
                       \/ (todo')[1].arg.name \notin Dsp
      BY <1>5, <3>1
    <3> QED BY <3>2, <3>3, <3>4 DEF Sync
  <2>5. EditsSafe'
    BY <1>1, <1>2, <1>5, <2>1 DEF EditsSafe, graphVars
  <2>6. Wants'
    BY <1>1, <1>2, <1>3, <2>1 DEF Wants, Framed
  <2> QED BY <1>2, <2>1, <2>2, <2>3, <2>4, <2>5, <2>6, GraphSame DEF IInv, Shape
<1> QED BY <1>4, <1>5

\* The four requests that edit.
LEMMA EditRequestsIInv ==
  ASSUME IInv, NEW n \in Names, DeleteObject(n) \/ RedefineObject(n) \/ RecomputeObject(n)
  PROVE  IInv'
<1>1. todo = <<>> /\ n \in live \ pending
  BY DEF DeleteObject, RedefineObject, RecomputeObject, Edit, Request, AtRest
<1>2. compiled => active
  BY <1>1, RestFacts
<1>3. /\ foreign \in BOOLEAN /\ compiled \in BOOLEAN /\ active \in BOOLEAN
      /\ StopsFor(n) \in BOOLEAN
  BY DEF IInv, Types, StopsFor
<1>4. CASE DeleteObject(n) \/ RedefineObject(n)
  <2>1. PICK what \in {"delete", "replace"} : Edit(what, n, StopsFor(n))
    BY <1>4 DEF DeleteObject, RedefineObject
  <2>2. foreign' = foreign
    BY <1>4 DEF DeleteObject, RedefineObject
  <2>3. /\ what \in Whats /\ what # "unlink" /\ foreign' \in BOOLEAN
        /\ StopsFor(n) => active
        /\ ~StopsFor(n) => ~compiled \/ n \notin Dsp
    BY <1>2, <1>3, <2>2 DEF Whats, StopsFor
  <2> QED BY <1>1, <1>3, <2>1, <2>2, <2>3, EditIInv
<1>5. CASE RecomputeObject(n)
  <2>1. /\ Edit("replace", n, FALSE)
        /\ foreign' = (foreign \/ (compiled /\ n \in Dsp))
    BY <1>5 DEF RecomputeObject
  <2>2. /\ "replace" \in Whats /\ "replace" # "unlink"
        /\ foreign' \in BOOLEAN /\ (foreign => foreign')
        /\ ~foreign' => ~compiled \/ n \notin Dsp
    BY <1>3, <2>1 DEF Whats
  <2> QED BY <1>1, <2>1, <2>2, EditIInv
<1> QED BY <1>4, <1>5

\* patcher_delete_connection_from_client: a marked connection of a patch in
\* order belongs to a running graph.
LEMMA DeleteConnectionIInv ==
  ASSUME IInv, NEW c \in conns, DeleteConnection(c)
  PROVE  IInv'
<1>1. /\ todo = <<>> /\ Edit("unlink", c.id, c.active) /\ foreign' = foreign
  BY DEF DeleteConnection, Edit, Request, AtRest
<1>2. c \in ConnType /\ c.id \in Nat /\ c.active \in BOOLEAN
  BY DEF IInv, Links, Table, ConnType
<1>3. /\ ~moved /\ ~dropped => (c.active <=> c.id \in table)
      /\ ~moved /\ c.active => active
  BY <1>1, RestFacts
<1>4. "unlink" \in Whats /\ foreign' \in BOOLEAN
  BY <1>1 DEF Whats, IInv, Types
<1> QED BY <1>1, <1>2, <1>3, <1>4, EditIInv

\* The list of objects to delete names one that does not exist any more.
LEMMA DeleteAbandonedIInv ==
  ASSUME IInv, NEW n \in Names, DeleteAbandoned(n)
  PROVE  IInv'
<1>1. /\ todo = <<>> /\ n \in live \ pending /\ pending' = pending \cup {n}
      /\ todo' = IF StopsFor(n) THEN <<Set(FALSE)>> ELSE <<>>
      /\ abandoned' = (abandoned \/ StopsFor(n))
      /\ UNCHANGED <<active, rate, compiled, chain, table, live, gen, conns, nextId, wanted,
                     foreign, dropped, moved>>
  BY DEF DeleteAbandoned, Request, AtRest, graphVars
<1>2. /\ ~foreign => (active <=> compiled)
      /\ compiled => active
      /\ ~moved /\ ~abandoned => (wanted <=> active)
  BY <1>1, RestFacts
<1>3. Set(FALSE) \in StepType /\ Set(FALSE).op = "set"
  BY DEF Set, StepType
<1>4. /\ todo' \in Seq(StepType) /\ ShapeOf(todo') /\ ~Frame(Rest(todo')) /\ ~Alone(todo')
      /\ StopsFor(n) => todo' # <<>> /\ (todo')[1].op = "set"
      /\ \A i \in DOMAIN todo' : (todo')[i].op = "set"
  <2>1. CASE StopsFor(n)
    <3>1. PICK f \in StepType : f = Set(FALSE)
      BY <1>3
    <3>2. todo' = <<f>> /\ f.op = "set"
      BY <1>1, <1>3, <2>1, <3>1
    <3>3. DOMAIN todo' = {1} /\ (todo')[1] = f /\ todo' # <<>>
      BY <3>2
    <3> QED BY <2>1, <3>2, <3>3, ShapeBegin
  <2>2. CASE ~StopsFor(n)
    BY <1>1, <2>2, EmptySeq DEF ShapeOf, Frame, Rest, Alone, Calls
  <2> QED BY <2>1, <2>2
<1>5. Types'
  BY <1>1, <1>4 DEF IInv, Types, ChainType, StopsFor
<1>6. Links' /\ Stopped' /\ ChainCurrent' /\ Marks'
  BY <1>1 DEF IInv, Links, Stopped, ChainCurrent, Marks, Exact, Table, Unique, Ids, On, NoChain, ConnType
<1>7. EditNames'
  BY <1>4 DEF EditNames, Named
<1>8. Sync' /\ EditsSafe' /\ Wants'
  BY <1>1, <1>2, <1>4 DEF Sync, Quiet, EditsSafe, Wants, Framed
<1> QED BY <1>4, <1>5, <1>6, <1>7, <1>8 DEF IInv, Shape

\* Requests that are done at once: nothing of a handler is left.
LEMMA AtRestParts ==
  ASSUME IInv, todo = <<>>, UNCHANGED <<todo, active, wanted, abandoned, moved>>,
         compiled' => active', ~foreign' => (active' <=> compiled')
  PROVE  Shape' /\ EditNames' /\ Sync' /\ EditsSafe' /\ Wants'
<1>1. ~Frame(Rest(todo')) /\ ~Alone(todo') /\ DOMAIN todo' = {}
  BY DEF Frame, Rest, Alone
<1>2. Shape'
  BY DEF IInv, Shape, ShapeOf, Calls, Rest
<1>3. ~moved /\ ~abandoned => (wanted <=> active)
  BY RestFacts
<1> QED BY <1>1, <1>2, <1>3 DEF EditNames, Named, Sync, Quiet, EditsSafe, Wants, Framed

\* fts_dsp_restart.
LEMMA RestartIInv == ASSUME IInv, Restart PROVE IInv'
<1>1. /\ todo = <<>> /\ compiled /\ Compile(Unmark(conns), rate)
      /\ UNCHANGED <<live, gen, pending, nextId, active, rate, todo, wanted, foreign, abandoned,
                     moved>>
  BY DEF Restart, Request, AtRest, pastVars
<1>2. /\ compiled => active
      /\ ~foreign => (active <=> compiled)
  BY <1>1, RestFacts
<1>3. /\ nextId' \in Nat \ {0} /\ Table(conns, nextId') /\ rate \in Rates
      /\ live' \in SUBSET Names /\ gen' \in [Names -> Nat]
  BY <1>1 DEF IInv, Links, Types
<1>4. /\ Table(Unmark(conns), nextId')
      /\ Ids(On(conns)) \subseteq table => On(Unmark(conns)) = {}
  BY <1>3, UnmarkFacts
<1>5. ~moved => On(Unmark(conns)) = {}
  BY <1>4 DEF IInv, Marks
<1>6. /\ compiled' = TRUE /\ chain' \in ChainType
      /\ Table(conns', nextId') /\ chain'.conns \cup table' \subseteq 1 .. nextId' - 1
      /\ chain'.rate = rate
      /\ \A o \in chain'.objs : o[1] \in live' /\ gen'[o[1]] = o[2]
      /\ dropped' = FALSE
      /\ ~moved => chain'.conns \subseteq table' /\ table' = Ids(On(conns'))
  BY <1>1, <1>3, <1>4, <1>5, CompileFacts
<1>7. Types'
  BY <1>1, <1>6 DEF IInv, Types, ChainType
<1>8. Links' /\ Stopped' /\ ChainCurrent' /\ Marks'
  BY <1>1, <1>3, <1>6 DEF Links, Stopped, ChainCurrent, Marks, Exact, Table, Unique, Ids, On, NoChain, ConnType
<1>9. Shape' /\ EditNames' /\ Sync' /\ EditsSafe' /\ Wants'
  BY <1>1, <1>2, <1>6, AtRestParts
<1> QED BY <1>7, <1>8, <1>9 DEF IInv

\* fts_dsp_set_sample_rate.
LEMMA SetSampleRateIInv == ASSUME IInv, NEW r \in Rates, SetSampleRate(r) PROVE IInv'
<1>1. /\ todo = <<>> /\ rate' = r /\ foreign' = FALSE
      /\ UNCHANGED <<live, gen, pending, nextId, active, todo, wanted, abandoned, moved>>
  BY DEF SetSampleRate, Request, AtRest
<1>2. /\ nextId' \in Nat \ {0} /\ Table(conns, nextId') /\ Stopped
      /\ live' \in SUBSET Names /\ gen' \in [Names -> Nat]
      /\ active \in BOOLEAN /\ compiled \in BOOLEAN /\ dropped \in BOOLEAN
      /\ ~moved => Ids(On(conns)) \subseteq table
  BY <1>1 DEF IInv, Links, Types, Marks
<1>3. /\ (compiled' <=> active) /\ compiled' \in BOOLEAN /\ chain' \in ChainType
      /\ Table(conns', nextId') /\ chain'.conns \cup table' \subseteq 1 .. nextId' - 1
      /\ compiled' => /\ chain'.rate = r
                      /\ \A o \in chain'.objs : o[1] \in live' /\ gen'[o[1]] = o[2]
      /\ ~compiled' => chain' = NoChain /\ table' = {}
      /\ dropped' \in BOOLEAN
      /\ ~moved => Ids(On(conns')) \subseteq table'
      /\ ~moved /\ ~dropped' => chain'.conns \subseteq table' /\ table' = Ids(On(conns'))
  <2>1. CASE active
    <3>1. PICK cs : /\ cs = IF compiled THEN Unmark(conns) ELSE conns
                    /\ Compile(cs, r)
      BY <2>1 DEF SetSampleRate
    <3>2. Table(cs, nextId') /\ (~moved => On(cs) = {})
      <4>1. CASE compiled
        BY <1>2, <3>1, <4>1, UnmarkFacts
      <4>2. CASE ~compiled
        BY <1>2, <3>1, <4>2 DEF Stopped, Ids
      <4> QED BY <4>1, <4>2
    <3> QED BY <1>2, <2>1, <3>1, <3>2, CompileFacts
  <2>2. CASE ~active
    <3>1. ResetIfCompiled(conns)
      BY <2>2 DEF SetSampleRate
    <3>2. /\ compiled' = FALSE /\ chain' = NoChain /\ table' = {} /\ Table(conns', nextId')
          /\ dropped' \in BOOLEAN
          /\ ~moved => On(conns') = {}
      BY <1>2, <3>1, ResetFacts
    <3> QED BY <2>2, <3>2, NoChainType DEF Ids
  <2> QED BY <2>1, <2>2
<1>4. Types'
  BY <1>1, <1>3 DEF IInv, Types, ChainType
<1>5. Links' /\ Stopped' /\ ChainCurrent' /\ Marks'
  BY <1>1, <1>2, <1>3 DEF Links, Stopped, ChainCurrent, Marks, Exact, Table, Unique, Ids, On, NoChain, ConnType
<1>6. Shape' /\ EditNames' /\ Sync' /\ EditsSafe' /\ Wants'
  BY <1>1, <1>3, AtRestParts
<1> QED BY <1>4, <1>5, <1>6 DEF IInv

\* A new object.
LEMMA AddObjectIInv == ASSUME IInv, NEW n \in Names, AddObject(n) PROVE IInv'
<1>1. /\ todo = <<>> /\ n \notin live /\ live' = live \cup {n} /\ gen' = [gen EXCEPT ![n] = @ + 1]
      /\ UNCHANGED <<active, rate, compiled, chain, table, pending, conns, nextId, todo, wanted,
                     foreign, abandoned, dropped, moved>>
  BY DEF AddObject, Request, AtRest, graphVars, pastVars
<1>2. Types'
  BY <1>1 DEF IInv, Types, ChainType
<1>3. ChainCurrent'
  <2> SUFFICES ASSUME compiled PROVE /\ \A o \in chain.objs : o[1] \in live' /\ gen'[o[1]] = o[2]
                                     /\ chain.rate = rate
    BY <1>1 DEF ChainCurrent
  <2>1. \A o \in chain.objs : o[1] \in live /\ o[1] # n /\ gen[o[1]] = o[2]
    BY <1>1 DEF IInv, ChainCurrent
  <2>2. gen \in [Names -> Nat] /\ live \subseteq Names
    BY DEF IInv, Types
  <2>3. ASSUME NEW o \in chain.objs PROVE o[1] \in live' /\ gen'[o[1]] = o[2]
    BY <1>1, <2>1, <2>2
  <2> QED BY <2>3 DEF IInv, ChainCurrent
<1>4. Links' /\ Stopped' /\ Marks'
  BY <1>1 DEF IInv, Links, Stopped, Marks, Exact, Table, Unique, Ids, On, NoChain, ConnType
<1>5. /\ compiled => active
      /\ ~foreign => (active <=> compiled)
  BY <1>1, RestFacts
<1>6. Shape' /\ EditNames' /\ Sync' /\ EditsSafe' /\ Wants'
  BY <1>1, <1>5, AtRestParts
<1> QED BY <1>2, <1>3, <1>4, <1>6 DEF IInv

\* fts_connection_new for two objects that are not connected.
LEMMA AddConnectionIInv ==
  ASSUME IInv, NEW w \in Wires, AddConnection(w[1], w[2])
  PROVE  IInv'
<1> DEFINE c == [id |-> nextId, src |-> w[1], dst |-> w[2], active |-> FALSE]
<1>1. /\ todo = <<>> /\ {w[1], w[2]} \subseteq live \ pending /\ ~Connected(w[1], w[2])
      /\ conns' = conns \cup {c} /\ nextId' = nextId + 1
      /\ UNCHANGED <<active, rate, compiled, chain, table, live, gen, pending, todo, wanted,
                     foreign, abandoned, dropped, moved>>
  BY DEF AddConnection, Request, AtRest, graphVars, pastVars
<1>2. /\ nextId \in Nat \ {0} /\ conns \in SUBSET ConnType /\ IsFiniteSet(conns) /\ Unique(conns)
      /\ \A d \in conns : d.id \in 1 .. nextId - 1
      /\ chain.conns \cup table \subseteq 1 .. nextId - 1
      /\ live \subseteq Names
  BY DEF IInv, Links, Table, Types, Ids
<1>3. /\ c \in ConnType /\ c.id = nextId /\ c.src = w[1] /\ c.dst = w[2] /\ ~c.active
  BY <1>1, <1>2 DEF ConnType
<1> HIDE DEF c
<1>4. Types'
  BY <1>1 DEF IInv, Types, ChainType
<1>5. Links'
  <2>1. IsFiniteSet(conns')
    BY <1>1, <1>2, FS_AddElement
  <2>2. \A d \in conns : d.id # c.id /\ ~(d.src = c.src /\ d.dst = c.dst)
    BY <1>1, <1>2, <1>3 DEF Connected
  <2>3. Unique(conns')
    BY <1>1, <1>2, <2>2 DEF Unique
  <2>4. Ids(conns') \subseteq 1 .. nextId' - 1
    <3>1. \A d \in conns' : d.id \in 1 .. nextId' - 1
      BY <1>1, <1>2, <1>3
    <3> QED BY <3>1 DEF Ids
  <2>5. Table(conns', nextId')
    BY <1>1, <1>2, <1>3, <2>1, <2>3, <2>4 DEF Table
  <2>6. chain'.conns \cup table' \subseteq 1 .. nextId' - 1 /\ nextId' \in Nat \ {0}
    BY <1>1, <1>2
  <2> QED BY <2>5, <2>6 DEF Links, Table, Unique, Ids, ConnType
<1>6. Stopped' /\ ChainCurrent'
  BY <1>1 DEF IInv, Stopped, ChainCurrent, NoChain
<1>7. Marks'
  <2>1. On(conns') = On(conns)
    BY <1>1, <1>3 DEF On
  <2> QED BY <1>1, <2>1 DEF IInv, Marks, Exact, On, Ids
<1>8. /\ compiled => active
      /\ ~foreign => (active <=> compiled)
  BY <1>1, RestFacts
<1>9. Shape' /\ EditNames' /\ Sync' /\ EditsSafe' /\ Wants'
  BY <1>1, <1>8, AtRestParts
<1> QED BY <1>4, <1>5, <1>6, <1>7, <1>9 DEF IInv

\* What the step of an edit finds.
LEMMA EditFinds ==
  ASSUME IInv, Does("edit")
  PROVE  /\ todo \in Seq(StepType) /\ todo # <<>> /\ Head(todo) = todo[1] /\ todo[1].op = "edit"
         /\ todo[1].arg.what # "unlink" => todo[1].arg.name \in live \ pending
         /\ ~moved /\ ~dropped /\ ~Restarts /\ todo[1].arg.what = "unlink"
              => todo[1].arg.name \notin table
         /\ Alone(todo) => /\ compiled => active
                           /\ ~foreign => (active <=> compiled)
                           /\ ~foreign => \/ ~compiled \/ todo[1].arg.what = "unlink"
                                          \/ todo[1].arg.name \notin Dsp
<1>1. /\ todo \in Seq(StepType) /\ todo # <<>> /\ Head(todo) = todo[1] /\ todo[1].op = "edit"
      /\ ShapeOf(todo) /\ 1 \in DOMAIN todo
  BY TailFacts DEF IInv, Types, Shape, Does
<1>2. todo[1].arg.what # "unlink" => todo[1].arg.name \in live \ pending
  BY <1>1 DEF IInv, EditNames, Named
<1>3. \/ Alone(todo)
      \/ Frame(Rest(todo))
  BY <1>1, ShapeEdit
<1>4. Frame(Rest(todo)) => Restarts
  BY <1>1, SetFound DEF Restarts
<1>5. ~moved /\ ~dropped /\ ~Restarts /\ todo[1].arg.what = "unlink"
        => todo[1].arg.name \notin table
  BY <1>3, <1>4 DEF IInv, EditsSafe
<1> QED BY <1>1, <1>2, <1>5 DEF IInv, Sync, Quiet

\* What it leaves of the handler.
LEMMA EditStepParts ==
  ASSUME IInv, Does("edit"), todo' = Tail(todo),
         UNCHANGED <<active, wanted, foreign, abandoned>>, moved => moved',
         Alone(todo) => (compiled' => active),
         Alone(todo) /\ ~foreign => (active <=> compiled')
  PROVE  (todo' \in Seq(StepType)) /\ Shape' /\ EditNames' /\ Sync' /\ EditsSafe' /\ Wants'
<1>1. todo \in Seq(StepType) /\ todo # <<>> /\ todo[1].op = "edit" /\ ShapeOf(todo)
  BY EditFinds DEF IInv, Shape
<1>2. /\ Rest(todo) = todo
      /\ \/ Alone(todo) /\ ~Frame(todo) /\ todo' = <<>>
         \/ ~Alone(todo) /\ Frame(todo) /\ todo' = <<Set(TRUE)>>
  BY <1>1, ShapeEdit
<1>3. CASE Alone(todo) /\ ~Frame(todo) /\ todo' = <<>>
  <2>1. ~Frame(Rest(todo')) /\ ~Alone(todo') /\ DOMAIN todo' = {}
    BY <1>3, ShapeNone
  <2>2. Shape'
    BY <1>3, ShapeNone DEF Shape
  <2>3. ~moved /\ ~abandoned => (wanted <=> active)
    BY <1>1, <1>2, <1>3 DEF IInv, Wants, Framed
  <2> QED BY <1>3, <2>1, <2>2, <2>3, EmptySeq
          DEF EditNames, Named, Sync, Quiet, EditsSafe, Wants, Framed
<1>4. CASE ~Alone(todo) /\ Frame(todo) /\ todo' = <<Set(TRUE)>>
  <2>1. PICK e \in StepType : e = Set(TRUE) /\ e.op = "set" /\ e.arg
    BY SetStep
  <2>2. todo' = <<e>>
    BY <1>4, <2>1
  <2>3. /\ todo' \in Seq(StepType) /\ (todo')[1] = e /\ ShapeOf(todo') /\ ~Frame(Rest(todo'))
        /\ ~Alone(todo') /\ todo' # <<>> /\ DOMAIN todo' = {1}
    BY <2>1, <2>2, ShapeBegin
  <2>4. ~moved /\ ~abandoned => wanted
    BY <1>2, <1>4 DEF IInv, Wants, Framed
  <2> QED BY <2>1, <2>3, <2>4
          DEF Shape, EditNames, Named, Sync, Quiet, EditsSafe, Wants, Framed
<1> QED BY <1>2, <1>3, <1>4

\* fts_connection_delete.
LEMMA UnlinkIInv == ASSUME IInv, Unlink PROVE IInv'
<1> DEFINE i == todo[1].arg.name
           gone == {c \in conns : c.id = i}
<1>1. /\ Does("edit") /\ todo[1].arg.what = "unlink" /\ todo' = Tail(todo)
      /\ conns' = conns \ gone /\ dropped' = (dropped \/ (Restarts /\ Audio(gone)))
      /\ UNCHANGED <<active, rate, wanted, foreign, abandoned, compiled, chain, table,
                     live, gen, pending, nextId, moved>>
  BY EditFinds DEF Unlink, EditStep, pastVars
<1>2. todo' \in Seq(StepType) /\ Shape' /\ EditNames' /\ Sync' /\ EditsSafe' /\ Wants'
  BY <1>1, EditFinds, EditStepParts
<1>3. dropped' \in BOOLEAN /\ (dropped' <=> dropped \/ (Restarts /\ Audio(gone)))
  BY <1>1, Zenon DEF IInv, Types
<1> HIDE DEF gone, i
<1>4. Types'
  BY <1>1, <1>2, <1>3 DEF IInv, Types, ChainType
<1>5. Table(conns', nextId)
  BY <1>1, TablePart DEF IInv, Links
<1>6. Links'
  BY <1>1, <1>5 DEF IInv, Links, Table, Unique, Ids, ConnType
<1>7. Stopped' /\ ChainCurrent'
  BY <1>1 DEF IInv, Stopped, ChainCurrent, NoChain
<1>8. On(conns') \subseteq On(conns) /\ (~Audio(gone) => On(conns') = On(conns))
  BY <1>1 DEF On, Audio
<1>9. ~moved /\ ~dropped /\ ~Restarts => ~Audio(gone)
  <2>1. ~moved /\ ~dropped /\ ~Restarts => i \notin Ids(On(conns))
    BY <1>1, EditFinds DEF IInv, Marks, Exact, i
  <2> QED BY <2>1 DEF gone, Audio, On, Ids
<1>10. Marks'
  <2>1. ~moved => Ids(On(conns')) \subseteq table
    BY <1>8 DEF IInv, Marks, Ids
  <2>2. ~moved /\ ~dropped' => Exact /\ On(conns') = On(conns)
    BY <1>3, <1>8, <1>9 DEF IInv, Marks
  <2> QED BY <1>1, <2>1, <2>2 DEF Marks, Exact, On, Ids
<1> QED BY <1>2, <1>4, <1>6, <1>7, <1>10 DEF IInv

\* The end of an object, before or after its connections were moved: the
\* graph forgets its connections with it.
LEMMA LeaveFacts ==
  ASSUME IInv, NEW n, NEW cs, nextId' \in Nat \ {0}, nextId \in Nat, nextId <= nextId',
         Table(cs, nextId'), Leave(n, cs), UNCHANGED rate, moved => moved',
         ~moved' => Ids(On(cs)) \subseteq Ids(On(conns)),
         ~moved' /\ ~Audio(Of(n)) => On(cs) = On(conns),
         \A m \in Dsp \ {n} : gen'[m] = gen[m] /\ (m \in live => m \in live')
  PROVE  /\ Links' /\ Stopped' /\ ChainCurrent' /\ Marks'
         /\ compiled' \in BOOLEAN /\ chain' \in ChainType /\ dropped' \in BOOLEAN
         /\ compiled' => compiled
         /\ n \notin Dsp => compiled' = compiled
<1>1. /\ compiled \in BOOLEAN /\ dropped \in BOOLEAN /\ Stopped /\ chain \in ChainType
      /\ chain.conns \cup table \subseteq 1 .. nextId' - 1
      /\ ~moved' => Ids(On(cs)) \subseteq table
      /\ ~moved' /\ ~dropped => Exact
  BY DEF IInv, Types, Links, Marks
<1>2. CASE n \in Dsp
  <2>1. ResetIfCompiled(cs)
    BY <1>2 DEF Leave
  <2>2. /\ compiled' = FALSE /\ chain' = NoChain /\ table' = {} /\ Table(conns', nextId')
        /\ dropped' \in BOOLEAN
        /\ Ids(On(cs)) \subseteq table => On(conns') = {}
    BY <1>1, <2>1, ResetFacts
  <2>3. Links' /\ Stopped' /\ ChainCurrent'
    BY <2>2, NoChainType DEF Links, Stopped, ChainCurrent, Table, Unique, Ids, NoChain, ConnType
  <2>4. Marks'
    BY <1>1, <2>2, NoChainType DEF Marks, Exact, On, Ids
  <2> QED BY <1>2, <2>2, <2>3, <2>4, NoChainType
<1>3. CASE n \notin Dsp
  <2>1. /\ conns' = cs /\ UNCHANGED <<compiled, chain, table>>
        /\ dropped' = (dropped \/ Audio(Of(n)))
    BY <1>3 DEF Leave
  <2>2. dropped' \in BOOLEAN /\ (dropped' <=> dropped \/ Audio(Of(n)))
    BY <1>1, <2>1, Zenon
  <2>3. Links' /\ Stopped'
    BY <1>1, <2>1 DEF Links, Stopped, Table, Unique, Ids, NoChain, ConnType
  <2>4. ChainCurrent'
    <3>1. \A o \in chain.objs : o[1] \in Dsp \ {n}
      BY <1>1, <1>3 DEF ChainType
    <3> QED BY <2>1, <3>1 DEF IInv, ChainCurrent
  <2>5. Marks'
    <3>1. ~moved' /\ ~dropped' => Exact /\ On(cs) = On(conns)
      BY <1>1, <2>2
    <3> QED BY <1>1, <2>1, <3>1 DEF Marks, Exact, On, Ids
  <2> QED BY <1>1, <1>3, <2>1, <2>2, <2>3, <2>4, <2>5
<1> QED BY <1>2, <1>3

\* fts_patcher_remove_object.
LEMMA RemoveIInv == ASSUME IInv, Remove PROVE IInv'
<1> DEFINE n == todo[1].arg.name
           cs == conns \ Of(n)
<1>1. /\ Does("edit") /\ todo[1].arg.what = "delete" /\ todo' = Tail(todo)
      /\ live' = live \ {n} /\ Leave(n, cs)
      /\ UNCHANGED <<active, rate, wanted, foreign, abandoned, gen, pending, nextId, moved>>
  BY EditFinds DEF Remove, EditStep, pastVars
<1>2. n \in live \ pending
  BY <1>1, EditFinds
<1>3. Table(conns, nextId) /\ nextId \in Nat \ {0}
  BY DEF IInv, Links
<1>4. Table(cs, nextId)
  BY <1>3, TablePart
<1>5. /\ Ids(On(cs)) \subseteq Ids(On(conns))
      /\ ~Audio(Of(n)) => On(cs) = On(conns)
  BY DEF On, Ids, Audio
<1> HIDE DEF n, cs
<1>6. \A m \in Dsp \ {n} : gen'[m] = gen[m] /\ (m \in live => m \in live')
  BY <1>1
<1>7. /\ Links' /\ Stopped' /\ ChainCurrent' /\ Marks'
      /\ compiled' \in BOOLEAN /\ chain' \in ChainType /\ dropped' \in BOOLEAN
      /\ compiled' => compiled
      /\ n \notin Dsp => compiled' = compiled
  BY <1>1, <1>3, <1>4, <1>5, <1>6, LeaveFacts
<1>8. todo' \in Seq(StepType) /\ Shape' /\ EditNames' /\ Sync' /\ EditsSafe' /\ Wants'
  <2>1. Alone(todo) => /\ compiled => active
                       /\ ~foreign => (active <=> compiled)
                       /\ ~foreign => ~compiled \/ n \notin Dsp
    BY <1>1, EditFinds DEF n
  <2> QED BY <1>1, <1>7, <2>1, EditStepParts
<1>9. Types'
  BY <1>1, <1>2, <1>7, <1>8 DEF IInv, Types, ChainType
<1> QED BY <1>7, <1>8, <1>9 DEF IInv

\* fts_object_redefine.
LEMMA ReplaceIInv == ASSUME IInv, Replace PROVE IInv'
<1> DEFINE n == todo[1].arg.name
<1>1. /\ Does("edit") /\ todo[1].arg.what = "replace" /\ todo' = Tail(todo)
      /\ gen' = [gen EXCEPT ![n] = @ + 1] /\ nextId' = nextId + Cardinality(Of(n))
      /\ Leave(n, Moved(n)) /\ moved' = (moved \/ Audio(Of(n)))
      /\ UNCHANGED <<active, rate, wanted, foreign, abandoned, live, pending>>
  BY EditFinds DEF Replace, EditStep, pastVars, Moved, Newer
<1>2. n \in live \ pending
  BY <1>1, EditFinds
<1>3. Table(conns, nextId) /\ nextId \in Nat \ {0}
  BY DEF IInv, Links
<1>4. /\ nextId' \in Nat \ {0} /\ Table(Moved(n), nextId') /\ nextId <= nextId'
      /\ ~Audio(Of(n)) => On(Moved(n)) = On(conns)
  BY <1>1, <1>3, MovedFacts, NewIds
<1>5. moved' \in BOOLEAN /\ (moved => moved') /\ (~moved' => On(Moved(n)) = On(conns))
  <2>1. moved' \in BOOLEAN /\ (moved' <=> moved \/ Audio(Of(n)))
    BY <1>1, Zenon DEF IInv, Types
  <2> QED BY <1>4, <2>1
<1> HIDE DEF n
<1>6. gen \in [Names -> Nat] /\ n \in Names
  BY <1>2 DEF IInv, Types
<1>7. \A m \in Dsp \ {n} : gen'[m] = gen[m] /\ (m \in live => m \in live')
  BY <1>1, <1>6 DEF Names
<1>8. /\ Links' /\ Stopped' /\ ChainCurrent' /\ Marks'
      /\ compiled' \in BOOLEAN /\ chain' \in ChainType /\ dropped' \in BOOLEAN
      /\ compiled' => compiled
      /\ n \notin Dsp => compiled' = compiled
  BY <1>1, <1>3, <1>4, <1>5, <1>7, LeaveFacts
<1>9. todo' \in Seq(StepType) /\ Shape' /\ EditNames' /\ Sync' /\ EditsSafe' /\ Wants'
  <2>1. Alone(todo) => /\ compiled => active
                       /\ ~foreign => (active <=> compiled)
                       /\ ~foreign => ~compiled \/ n \notin Dsp
    BY <1>1, EditFinds DEF n
  <2> QED BY <1>1, <1>5, <1>8, <2>1, EditStepParts
<1>10. Types'
  BY <1>1, <1>5, <1>6, <1>8, <1>9 DEF IInv, Types, ChainType
<1> QED BY <1>8, <1>9, <1>10 DEF IInv

\* Stuttering.
LEMMA StutterIInv == ASSUME IInv, UNCHANGED vars PROVE IInv'
<1>1. UNCHANGED <<active, rate, graphVars, patchVars, todo, wanted, foreign, abandoned, moved>>
  BY DEF vars, pastVars
<1>2. Links' /\ Stopped' /\ ChainCurrent' /\ Marks'
  BY <1>1, GraphSame
<1>3. Types'
  BY <1>1 DEF IInv, Types, graphVars, patchVars, ChainType
<1>4. Shape' /\ EditNames'
  BY <1>1 DEF IInv, Shape, EditNames, patchVars
<1>5. Sync' /\ EditsSafe' /\ Wants'
  BY <1>1 DEF IInv, Sync, Quiet, EditsSafe, Wants, Framed, graphVars
<1> QED BY <1>2, <1>3, <1>4, <1>5 DEF IInv

\* Every step keeps the invariant.
LEMMA NextIInv == ASSUME IInv, [Next]_vars PROVE IInv'
<1>1. CASE UNCHANGED vars
  BY <1>1, StutterIInv
<1>2. CASE SetActive \/ React \/ SwitchGraph
  BY <1>2, SetActiveIInv, ReactIInv, SwitchGraphIInv
<1>3. CASE \E v \in BOOLEAN : Switch(v)
  BY <1>3, SwitchIInv
<1>4. CASE Restart
  BY <1>4, RestartIInv
<1>5. CASE \E r \in Rates : SetSampleRate(r)
  BY <1>5, SetSampleRateIInv
<1>6. CASE \E n \in Names : \/ DeleteObject(n) \/ DeleteAbandoned(n) \/ AddObject(n)
                            \/ RedefineObject(n) \/ RecomputeObject(n)
  BY <1>6, EditRequestsIInv, DeleteAbandonedIInv, AddObjectIInv
<1>7. CASE \E w \in Wires : AddConnection(w[1], w[2])
  BY <1>7, AddConnectionIInv
<1>8. CASE \E c \in conns : DeleteConnection(c)
  BY <1>8, DeleteConnectionIInv
<1>9. CASE Unlink \/ Remove \/ Replace
  BY <1>9, UnlinkIInv, RemoveIInv, ReplaceIInv
<1> QED BY <1>1, <1>2, <1>3, <1>4, <1>5, <1>6, <1>7, <1>8, <1>9 DEF Next

-----------------------------------------------------------------------------
(* The theorems.                                                            *)

\* The invariant holds in every reachable state.
LEMMA Inductive == Spec => []IInv
<1>1. Init => IInv
  BY InitIInv
<1>2. IInv /\ [Next]_vars => IInv'
  BY NextIInv
<1> QED BY <1>1, <1>2, PTL DEF Spec

\* Values keep their types; identities of connections, also those that
\* fts_object_move_connections gives, are never used twice, and two objects
\* are never connected twice (fts_connection_new).
THEOREM TypeCorrect == Spec => []TypeOK
<1>1. IInv => TypeOK
  <2> SUFFICES ASSUME IInv PROVE TypeOK
    OBVIOUS
  <2>1. \A i \in DOMAIN todo : todo[i].op \in {"set", "patch", "dsp", "edit"}
    <3>1. \A i \in DOMAIN todo : todo[i] \in StepType
      BY DEF IInv, Types
    <3> QED BY <3>1, StepFacts
  <2>2. chain.objs \subseteq Dsp \X Nat /\ chain.rate \in Rates
    BY DEF IInv, Types, ChainType
  <2>3. chain.conns \cup table \cup Ids(conns) \subseteq 1 .. nextId - 1
    BY DEF IInv, Links, Table
  <2>4. Unique(conns)
    BY DEF IInv, Links, Table
  <2>5. /\ {active, compiled, wanted, foreign, abandoned, dropped, moved} \subseteq BOOLEAN
        /\ rate \in Rates
        /\ pending \subseteq live /\ live \subseteq Names /\ gen \in [Names -> Nat]
    BY DEF IInv, Types
  <2> QED BY <2>1, <2>2, <2>3, <2>4, <2>5 DEF TypeOK, Unique
<1> QED BY <1>1, Inductive, PTL

\* The chain that may run holds no object that was deleted or replaced, and
\* was made for the sample rate that is set (fts_dsp_graph_remove_object,
\* fts_dsp_set_sample_rate).
THEOREM ChainCurrentThm == Spec => []ChainCurrent
<1>1. IInv => ChainCurrent
  BY DEF IInv
<1> QED BY <1>1, Inductive, PTL

\* Between two requests DSP runs if and only if dsp_active says so, however
\* deeply listeners have switched it again (param_call_listeners).
THEOREM ActiveRunsThm == Spec => []ActiveRuns
<1>1. IInv => ActiveRuns
  BY RestFacts DEF IInv, Types, ActiveRuns, AtRest
<1> QED BY <1>1, Inductive, PTL

\* Edits leave DSP as the user wanted it: Set(FALSE) and Set(TRUE) around an
\* edit neither switch it on nor off for good (patcher.c), also when listeners
\* switch DSP between the two.
THEOREM EditsKeepDspThm == Spec => []EditsKeepDsp
<1>1. IInv => EditsKeepDsp
  BY RestFacts DEF IInv, Types, EditsKeepDsp, AtRest
<1> QED BY <1>1, Inductive, PTL

\* Between two requests the table of signal connections holds exactly the
\* connections marked active, and no deleted connection is in the chain
\* (fts_signal_connection_add, patcher_delete_connection_from_client).
THEOREM MarksExactThm == Spec => []MarksExact
<1>1. IInv => MarksExact
  <2> SUFFICES ASSUME IInv, ~moved, ~dropped
               PROVE  chain.conns \subseteq Ids(conns) /\ table = Ids({c \in conns : c.active})
    BY DEF MarksExact
  <2>1. chain.conns \subseteq table /\ table = Ids(On(conns))
    BY DEF IInv, Marks, Exact
  <2>2. Ids(On(conns)) \subseteq Ids(conns)
    BY DEF Ids, On
  <2> QED BY <2>1, <2>2 DEF On
<1> QED BY <1>1, Inductive, PTL
=============================================================================
