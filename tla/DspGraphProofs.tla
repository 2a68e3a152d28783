-------------------------- MODULE DspGraphProofs --------------------------
(***************************************************************************)
(* The compiler of the DSP graph for any patch: in every signal the count   *)
(* of its readers, in every program the order of its connections, and in    *)
(* every inlet the sum of what is connected to it.                          *)
(*                                                                          *)
(* The argument goes by the connections the compiler has not passed yet:    *)
(* those of objects not scheduled, and those that lie before the walk of    *)
(* the object being scheduled.  The counts of predecessors count them, the  *)
(* inputs of an object sum up the others.                                   *)
(***************************************************************************)
EXTENDS DspGraph, FiniteSetTheorems, SequenceTheorems, WellFoundedInduction, TLAPS

-----------------------------------------------------------------------------
(* What the loop of Lists leaves of a list, for every list.                 *)

\* A set of natural numbers that is not empty has a least element.
LEMMA NatMin == ASSUME NEW T \in SUBSET Nat, T # {}
                PROVE  \E m \in T : \A k \in T : m <= k
<1>1. IsWellFoundedOn(OpToRel(<, Nat), Nat)  BY NatLessThanWellFounded
<1>2. PICK m \in T : \A k \in T : ~(<<k, m>> \in OpToRel(<, Nat)) BY <1>1, WFMin
<1>3. \A k \in T : ~(k < m) BY <1>2 DEF OpToRel
<1> HIDE <1>2
<1> QED BY <1>3

\* Induction up to N, as a fact about sets: the places up to
\* which a program can be followed, if they go on from 0 step by step, are all.
LEMMA Induct == ASSUME NEW N \in Nat, NEW T \in SUBSET (0 .. N), 0 \in T,
                       \A n \in 0 .. N - 1 : n \in T => n + 1 \in T
                PROVE  T = 0 .. N
<1> SUFFICES ASSUME T # 0 .. N PROVE FALSE
  OBVIOUS
<1> DEFINE Out == (0 .. N) \ T
<1>1. Out \in SUBSET Nat
  OBVIOUS
<1>0. Out # {}
  OBVIOUS
<1>2. PICK m \in Out : \A k \in Out : m <= k
  BY <1>1, <1>0, NatMin
<1>3. m - 1 \in 0 .. N - 1 /\ m - 1 \notin Out
  BY <1>2
<1> QED BY <1>3, <1>2

\* t is what is left of the first n entries of s: h gives the old place of
\* every entry of t, keeps their order, and misses only entries in R.
Places(t, s, R, n, h) ==
   /\ h \in [1 .. Len(t) -> 1 .. n]
   /\ \A j, k \in 1 .. Len(t) : j < k => h[j] < h[k]
   /\ \A k \in 1 .. Len(t) : t[k] = s[h[k]] /\ s[h[k]] \notin R
   /\ \A i \in 1 .. n : s[i] \notin R => \E k \in 1 .. Len(t) : h[k] = i

\* The places up to one that is kept are more than those up to an earlier one.
LEMMA RankGrows == ASSUME NEW n \in Nat, NEW K \in SUBSET (1 .. n)
   PROVE /\ IsFiniteSet(K) /\ Cardinality(K) \in Nat
         /\ \A i \in K : Cardinality({j \in K : j <= i}) \in 1 .. Cardinality(K)
         /\ \A i, k \in K : i < k =>
               Cardinality({j \in K : j <= i}) < Cardinality({j \in K : j <= k})
<1>1. IsFiniteSet(K) /\ Cardinality(K) \in Nat
  <2>1. IsFiniteSet(1 .. n)
    BY FS_Interval
  <2>2. IsFiniteSet(K)
    BY <2>1, FS_Subset
  <2> QED BY <2>2, FS_CardinalityType
<1>2. ASSUME NEW i \in K
      PROVE  /\ IsFiniteSet({j \in K : j <= i})
             /\ Cardinality({j \in K : j <= i}) \in 1 .. Cardinality(K)
  <2> DEFINE B == {j \in K : j <= i}
  <2>1. B \in SUBSET K /\ B # {}
    OBVIOUS
  <2> HIDE DEF B
  <2>2. IsFiniteSet(B) /\ Cardinality(B) <= Cardinality(K)
    BY <1>1, <2>1, FS_Subset
  <2>3. Cardinality(B) \in Nat /\ Cardinality(B) # 0
    BY <2>1, <2>2, FS_CardinalityType, FS_EmptySet
  <2> QED BY <1>1, <2>2, <2>3 DEF B
<1>3. ASSUME NEW i \in K, NEW k \in K, i < k
      PROVE  Cardinality({j \in K : j <= i}) < Cardinality({j \in K : j <= k})
  <2> DEFINE A == {j \in K : j <= i}
             B == {j \in K : j <= k}
  <2>0. \A j \in K : j \in Int
    OBVIOUS
  <2>a. k <= k /\ ~(k <= i) /\ \A j \in K : j <= i => j <= k
    BY <1>3, <2>0
  <2>1. A \in SUBSET B /\ k \in B /\ k \notin A
    BY <2>a, Zenon
  <2>2. IsFiniteSet(B) /\ Cardinality(A) \in Nat /\ Cardinality(B) \in Nat
    BY <1>2
  <2> HIDE DEF A, B
  <2>3. Cardinality(A) <= Cardinality(B) /\ (Cardinality(B) = Cardinality(A) => B = A)
    BY <2>1, <2>2, FS_Subset
  <2>4. Cardinality(A) < Cardinality(B)
    BY <2>1, <2>2, <2>3
  <2> QED BY <2>4 DEF A, B
<1> QED BY <1>1, <1>2, <1>3

\* So every number up to the number of places kept is the rank of one of them.
LEMMA RankReaches == ASSUME NEW n \in Nat, NEW K \in SUBSET (1 .. n), NEW r \in 1 .. Cardinality(K)
   PROVE \E i \in K : Cardinality({j \in K : j <= i}) = r
<1> DEFINE rank == [i \in K |-> Cardinality({j \in K : j <= i})]
<1>1. /\ IsFiniteSet(K) /\ Cardinality(K) \in Nat
      /\ rank \in [K -> 1 .. Cardinality(K)]
      /\ \A i, k \in K : i < k => rank[i] < rank[k]
  BY RankGrows
<1> HIDE DEF rank
<1>2. \A i, k \in K : rank[i] = rank[k] => i = k
  <2> SUFFICES ASSUME NEW i \in K, NEW k \in K, rank[i] = rank[k], i # k PROVE FALSE
    OBVIOUS
  <2>1. i < k \/ k < i
    OBVIOUS
  <2>2. rank[i] < rank[k] \/ rank[k] < rank[i]
    BY <2>1, <1>1
  <2>3. rank[i] \in 1 .. Cardinality(K) /\ rank[k] \in 1 .. Cardinality(K)
    BY <1>1
  <2> QED BY <2>2, <2>3, <1>1
<1>3. rank \in Injection(K, 1 .. Cardinality(K))
  BY <1>1, <1>2 DEF Injection, IsInjective
<1>4. IsFiniteSet(1 .. Cardinality(K)) /\ Cardinality(1 .. Cardinality(K)) = Cardinality(K)
  BY <1>1, FS_Interval
<1>5. rank \in Surjection(K, 1 .. Cardinality(K))
  BY <1>3, <1>4, FS_Injection
<1>6. PICK i \in K : rank[i] = r
  BY <1>5 DEF Surjection
<1> QED BY <1>6 DEF rank

\* The loop of Lists unlinks exactly the entries it should and keeps the order
\* of the others.
LEMMA WithoutPlaces == ASSUME NEW S, NEW s \in Seq(S), NEW R
   PROVE /\ Without(s, R) \in Seq(S)
         /\ \E h : Places(Without(s, R), s, R, Len(s), h)
<1> DEFINE K == Kept(s, R)
           m == Cardinality(K)
           h == [k \in 1 .. m |-> KeptPlace(s, R, k)]
           t == Without(s, R)
<1>1. Len(s) \in Nat /\ K \in SUBSET (1 .. Len(s)) /\ \A i \in 1 .. Len(s) : s[i] \in S
  BY DEF Kept
<1>2. /\ m \in Nat
      /\ \A i \in K : Cardinality({j \in K : j <= i}) \in 1 .. m
      /\ \A i, k \in K : i < k => Cardinality({j \in K : j <= i}) < Cardinality({j \in K : j <= k})
      /\ \A i \in K : i \in Int
  <2> HIDE DEF K
  <2>1. \A i \in K : i \in Int
    BY <1>1
  <2> QED BY <2>1, <1>1, RankGrows
<1>3. ASSUME NEW k \in 1 .. m
      PROVE  h[k] \in K /\ Cardinality({j \in K : j <= h[k]}) = k
  <2>1. \E i \in K : Cardinality({j \in K : j <= i}) = k
    BY <1>1, RankReaches
  <2>2. h[k] = CHOOSE i \in K : Cardinality({j \in K : j <= i}) = k
    BY DEF KeptPlace
  <2> HIDE DEF h, K
  <2> QED BY <2>1, <2>2
<1>4. t = [k \in 1 .. m |-> s[h[k]]]
  BY DEF Without
<1> DEFINE rank(i) == Cardinality({j \in K : j <= i})
<1>a. /\ \A k \in 1 .. m : h[k] \in K /\ rank(h[k]) = k
      /\ \A i \in K : rank(i) \in 1 .. m /\ i \in Int
      /\ \A i, k \in K : i < k => rank(i) < rank(k)
  BY <1>2, <1>3
<1> HIDE DEF h, t, m, rank
<1>5. \A k \in 1 .. m : h[k] \in 1 .. Len(s) /\ s[h[k]] \notin R
  BY <1>3 DEF Kept
<1>6. h \in [1 .. m -> 1 .. Len(s)]
  <2>1. DOMAIN h = 1 .. m /\ h = [k \in 1 .. m |-> h[k]]
    BY DEF h
  <2> QED BY <2>1, <1>5
<1>7. t \in Seq(S) /\ Len(t) = m /\ \A k \in 1 .. m : t[k] = s[h[k]]
  BY <1>1, <1>2, <1>4, <1>5
<1>8. ASSUME NEW j \in 1 .. m, NEW k \in 1 .. m, j < k PROVE h[j] < h[k]
  <2> HIDE DEF K
  <2>1. /\ h[j] \in K /\ h[k] \in K /\ h[j] \in Int /\ h[k] \in Int
        /\ rank(h[j]) = j /\ rank(h[k]) = k
    BY <1>a
  <2>2. h[j] # h[k] /\ ~(h[k] < h[j])
    BY <2>1, <1>a, <1>8
  <2> QED BY <2>1, <2>2
<1>9. ASSUME NEW i \in 1 .. Len(s), s[i] \notin R PROVE \E k \in 1 .. m : h[k] = i
  <2>1. i \in K
    BY <1>9 DEF Kept
  <2> HIDE DEF K
  <2>2. rank(i) \in 1 .. m
    BY <2>1, <1>a
  <2>3. h[rank(i)] \in K /\ h[rank(i)] \in Int /\ rank(h[rank(i)]) = rank(i)
    BY <2>2, <1>a
  <2>4. ~(h[rank(i)] < i) /\ ~(i < h[rank(i)])
    BY <2>1, <2>2, <2>3, <1>a
  <2>5. h[rank(i)] = i
    BY <2>3, <2>4
  <2> QED BY <2>2, <2>5
<1>10. Places(t, s, R, Len(s), h)
  BY <1>5, <1>6, <1>7, <1>8, <1>9 DEF Places
<1> QED BY <1>7, <1>10 DEF t

-----------------------------------------------------------------------------
(* The inductive invariant.                                                 *)

Frame == [object : Objects, outlet : Nat \ {0}, at : Nat \ {0},
          walk : {"outputs", "edges", "depth"}]
SignalRec == [refcnt : Int, length : Nat]

\* An instruction of the program, with N signals.
Instruction(N) == [op : {"put"}, object : Objects, in : [Ins -> 1 .. N], out : [Outs -> 0 .. N],
                   size : Nat]
                    \cup [op : {"add"}, in : (1 .. N) \X (1 .. N), out : 1 .. N, even : BOOLEAN]

Types == /\ objects \in Seq(Objects) /\ roots \in Seq(Objects) /\ frames \in Seq(Frame)
         /\ conns \in [Objects \X Outs -> Seq(Conn)]
         /\ status \in {"reset", "compiled"}
         /\ phase \in {"idle", "schedule", "crashed"}
         /\ pred_cnt \in [Objects -> Int]
         /\ signals \in Seq(SignalRec)
         /\ in \in [Objects -> [Ins -> 0 .. Len(signals)]]
         /\ out \in [Objects -> [Outs -> 0 .. Len(signals)]]
         /\ program \in Seq(Instruction(Len(signals)))
         /\ \A s \in 1 .. Len(signals) : signals[s].refcnt >= SIGNAL_PENDING

\* The list has no object twice, an outlet no connection twice, and every
\* connection leads from an object of the list to another.
Graph == /\ \A i, j \in 1 .. Len(objects) : objects[i] = objects[j] => i = j
         /\ \A x \in Objects \X Outs : \A i, j \in 1 .. Len(conns[x]) :
               conns[x][i].dst = conns[x][j].dst /\ conns[x][i].inlet = conns[x][j].inlet => i = j
         /\ \A e \in Edges : {e[1], e[3].dst} \subseteq ToSet(objects)

\* Only the last call is still scheduling its object, the others are in the
\* walk that goes deeper.
Stack == /\ ToSet(roots) \subseteq ToSet(objects)
         /\ phase = "idle" => frames = <<>> /\ roots = <<>>
         /\ phase = "schedule" =>
              \A j \in 1 .. Len(frames) : pred_cnt[frames[j].object] = SCHEDULED
         /\ \A j \in 1 .. Len(frames) :
              /\ j < Len(frames) => frames[j].walk = "depth"
              /\ frames[j].walk = "outputs" => frames[j].at = 1

\* A connection the walk of the frame f has still to come to, in the lists c.
AheadIn(c, f, e) == \E k \in Outs : \E i \in 1 .. Len(c[<<f.object, k>>]) :
                       /\ e = <<f.object, k, c[<<f.object, k>>][i]>>
                       /\ k > f.outlet \/ (k = f.outlet /\ i >= f.at)
Ahead(f, e) == AheadIn(conns, f, e)

\* The connections the compiler has not passed yet.
Scheduling(walk) == frames # <<>> /\ Top.walk = walk
Unpassed == {e \in Edges : \/ pred_cnt[e[1]] # SCHEDULED
                           \/ Scheduling("outputs") /\ e[1] = Top.object
                           \/ Scheduling("edges") /\ Ahead(Top, e)}
Into(o, E) == {e \in E : e[3].dst = o}

\* The count of predecessors is the number of connections not passed.
Counted == \A o \in Objects :
              /\ pred_cnt[o] = SCHEDULED => Into(o, Unpassed) = {}
              /\ pred_cnt[o] # SCHEDULED => pred_cnt[o] = Cardinality(Into(o, Unpassed))

\* An object that is ready will be met in the list or by a walk.
Met(o) == \/ o \in ToSet(roots)
          \/ \E j \in 1 .. Len(frames) : \E e \in Edges :
                /\ e[1] = frames[j].object /\ e[3].dst = o
                /\ frames[j].walk # "depth" \/ Ahead(frames[j], e)
Reached == \A o \in ToSet(objects) : pred_cnt[o] = 0 => Met(o)

\* Nothing on a loop or behind one is scheduled.
LoopsWait == \A B \in SUBSET ToSet(objects) :
                Blocked(B) => \A o \in B : pred_cnt[o] # SCHEDULED

\* An object is put once, when its outputs are made, behind its sources.
PutOnce == \A m, n \in Puts : program[m].object = program[n].object => m = n
PutScheduled == \A n \in Puts : /\ pred_cnt[program[n].object] = SCHEDULED
                                /\ ~(Scheduling("outputs") /\ Top.object = program[n].object)
PutBehind == \A e \in Edges : \A m, n \in Puts :
                program[m].object = e[1] /\ program[n].object = e[3].dst => m < n

\* The counts of the signals, and who may hold which.
Pending(s) == signals[s].refcnt = SIGNAL_PENDING
Counts == /\ signals # <<>> /\ signals[sig_zero].refcnt = 1
          /\ \A s \in 1 .. Len(signals) : s # sig_zero =>
               \/ signals[s].refcnt = Cardinality(Readers(s))
               \/ /\ Pending(s) /\ Readers(s) = {}
                  /\ Scheduling("outputs") \/ Scheduling("edges")
                  /\ \E k \in Outs : out[Top.object][k] = s
Waiting == /\ \A o \in Objects, k \in Outs : out[o][k] # sig_zero
           /\ \A o \in Objects : pred_cnt[o] # SCHEDULED =>
                 /\ \A i \in Ins : in[o][i] # sig_zero
                 /\ \A k \in Outs : out[o][k] = Nil
Outputs == /\ Scheduling("outputs") =>
                /\ \A i \in Ins : in[Top.object][i] # Nil
                /\ \A k \in Outs :
                     IF k < Top.outlet THEN out[Top.object][k] # Nil /\ Pending(out[Top.object][k])
                     ELSE out[Top.object][k] = Nil
           /\ Scheduling("edges") => \A k \in Outs :
                k > Top.outlet /\ out[Top.object][k] # Nil => Pending(out[Top.object][k])
           /\ Scheduling("outputs") \/ Scheduling("edges") => \A j, k \in Outs :
                out[Top.object][j] = out[Top.object][k] /\ out[Top.object][j] # Nil => j = k

\* The outlets whose connections to an inlet have been passed.
Passed(o, i) == {<<e[1], e[2]>> : e \in {x \in Edges \ Unpassed :
                    /\ x[3].dst = o /\ x[3].inlet = i /\ x[3].kind = "signal"
                    /\ out[x[1]][x[2]] # Nil}}

\* One instruction: the contents behind it from those before it.
Added(i, b) == IF i.even THEN b[i.in[1]] \cup b[i.in[2]] ELSE Stale
After(P, D, c, n) ==
  IF n = 0 THEN [s \in D |-> IF s = sig_zero THEN {} ELSE Stale]
  ELSE IF P[n].op = "add" THEN [c[n - 1] EXCEPT ![P[n].out] = Added(P[n], c[n - 1])]
       ELSE [s \in D |-> IF \E k \in Outs : P[n].out[k] = s
                         THEN {<<P[n].object, k>> : k \in {j \in Outs : P[n].out[j] = s}}
                         ELSE c[n - 1][s]]
Follows(P, D, c) == c = [n \in 0 .. Len(P) |-> After(P, D, c, n)]

\* The lengths of outlets: those of one set are the same.
Length(x) == signals[out[x[1]][x[2]]].length
SameLength(S) == \A x, y \in S : Length(x) = Length(y)

\* An input sums up what has been passed if that has one length, which the input
\* has as well; an outlet that is not passed yet has its own output, and what was
\* put has heard its sources.
Now == Content[Len(program)]
InletSum(o, i) ==
  IF in[o][i] = Nil THEN Passed(o, i) = {}
  ELSE /\ \E x \in Passed(o, i) : Length(x) = signals[in[o][i]].length
       /\ Now[in[o][i]] \subseteq Passed(o, i) \cup Stale
       /\ SameLength(Passed(o, i)) => Now[in[o][i]] = Passed(o, i)
InputsSum == \A o \in ToSet(objects), i \in Ins : pred_cnt[o] # SCHEDULED => InletSum(o, i)
TopHears == /\ Scheduling("outputs") => \A i \in Ins :
                 Even(Top.object, i) => Now[in[Top.object][i]] = Sources(Top.object, i)
            /\ Scheduling("edges") => \A k \in Outs :
                 k >= Top.outlet /\ out[Top.object][k] # Nil =>
                   Now[out[Top.object][k]] = {<<Top.object, k>>}
Heard == \A n \in Puts, i \in Ins : Even(program[n].object, i) =>
            Content[n - 1][program[n].in[i]] = Sources(program[n].object, i)
Contents == /\ Follows(program, 1 .. Len(signals), Content)
            /\ \A n \in 0 .. Len(program) : Content[n][sig_zero] = {}
            /\ InputsSum /\ TopHears /\ Heard

IInv == /\ Types /\ Graph /\ Stack
        /\ phase = "schedule" => /\ Counted /\ Reached /\ LoopsWait
                                 /\ PutOnce /\ PutScheduled /\ PutBehind
                                 /\ Counts /\ Waiting /\ Outputs
                                 /\ Contents


-----------------------------------------------------------------------------
(* Lemmas about patches.                                                    *)

EdgesOf(c) == UNION {{<<x[1], x[2], c[x][i]>> : i \in DOMAIN c[x]} : x \in Objects \X Outs}

\* The connections that the graph iterator goes through, one by one.
LEMMA EdgesAre == ASSUME NEW c \in [Objects \X Outs -> Seq(Conn)]
   PROVE /\ \A o \in Objects, k \in Outs : \A i \in 1 .. Len(c[<<o, k>>]) : <<o, k, c[<<o, k>>][i]>> \in EdgesOf(c)
         /\ \A e \in EdgesOf(c) : \E o \in Objects, k \in Outs : \E i \in 1 .. Len(c[<<o, k>>]) :
               e = <<o, k, c[<<o, k>>][i]>> /\ c[<<o, k>>][i] \in Conn
         /\ \A e \in EdgesOf(c) : e[1] \in Objects /\ e[2] \in Outs /\ e[3] \in Conn
<1>1. \A x \in Objects \X Outs : /\ c[x] \in Seq(Conn) /\ DOMAIN c[x] = 1 .. Len(c[x])
                                 /\ \A i \in 1 .. Len(c[x]) : c[x][i] \in Conn
  OBVIOUS
<1>2. \A o \in Objects, k \in Outs : <<o, k>> \in Objects \X Outs /\ <<o, k>>[1] = o /\ <<o, k>>[2] = k
  OBVIOUS
<1>3. ASSUME NEW o \in Objects, NEW k \in Outs, NEW i \in 1 .. Len(c[<<o, k>>])
      PROVE  <<o, k, c[<<o, k>>][i]>> \in EdgesOf(c)
  <2>1. i \in DOMAIN c[<<o, k>>]
    BY <1>1, <1>2
  <2>2. <<o, k, c[<<o, k>>][i]>> \in {<<<<o, k>>[1], <<o, k>>[2], c[<<o, k>>][j]>> : j \in DOMAIN c[<<o, k>>]}
    BY <2>1, <1>2
  <2> QED BY <2>2, <1>2 DEF EdgesOf
<1>4. ASSUME NEW e \in EdgesOf(c)
      PROVE  \E o \in Objects, k \in Outs : \E i \in 1 .. Len(c[<<o, k>>]) :
               e = <<o, k, c[<<o, k>>][i]>> /\ c[<<o, k>>][i] \in Conn
  <2>1. PICK x \in Objects \X Outs : e \in {<<x[1], x[2], c[x][i]>> : i \in DOMAIN c[x]}
    BY DEF EdgesOf
  <2>2. PICK i \in DOMAIN c[x] : e = <<x[1], x[2], c[x][i]>>
    BY <2>1
  <2>3. x[1] \in Objects /\ x[2] \in Outs /\ x = <<x[1], x[2]>>
    BY <2>1
  <2>4. i \in 1 .. Len(c[x]) /\ c[x][i] \in Conn
    BY <1>1, <2>1, <2>2
  <2> QED BY <2>2, <2>3, <2>4
<1>5. ASSUME NEW e \in EdgesOf(c) PROVE e[1] \in Objects /\ e[2] \in Outs /\ e[3] \in Conn
  <2>1. PICK o \in Objects, k \in Outs : \E i \in 1 .. Len(c[<<o, k>>]) :
               e = <<o, k, c[<<o, k>>][i]>> /\ c[<<o, k>>][i] \in Conn
    BY <1>4
  <2> QED BY <2>1
<1> QED BY <1>3, <1>4, <1>5

\* A patch has finitely many connections: the counts of predecessors count them.
LEMMA EdgesFinite == ASSUME NEW c \in [Objects \X Outs -> Seq(Conn)] PROVE IsFiniteSet(EdgesOf(c))
<1> DEFINE Of(x) == {<<x[1], x[2], c[x][i]>> : i \in DOMAIN c[x]}
           All == {Of(x) : x \in Objects \X Outs}
<1>1. ASSUME NEW x \in Objects \X Outs PROVE IsFiniteSet(Of(x))
  <2> DEFINE f == [i \in 1 .. Len(c[x]) |-> <<x[1], x[2], c[x][i]>>]
  <2>1. c[x] \in Seq(Conn) /\ Len(c[x]) \in Nat /\ DOMAIN c[x] = 1 .. Len(c[x])
    BY <1>1
  <2>2. f \in Surjection(1 .. Len(c[x]), Of(x))
    BY <2>1 DEF Surjection
  <2>3. IsFiniteSet(1 .. Len(c[x]))
    BY <2>1, FS_Interval
  <2> QED BY <2>2, <2>3, FS_Surjection
<1>2. IsFiniteSet(All)
  <2> DEFINE f == [x \in Objects \X Outs |-> Of(x)]
  <2>1. f \in Surjection(Objects \X Outs, All)
    <3> HIDE DEF Of
    <3> QED BY Zenon DEF Surjection
  <2>2. IsFiniteSet(Objects \X Outs)
    BY GraphAssumption, FS_Product
  <2> HIDE DEF f, All
  <2> QED BY <2>1, <2>2, FS_Surjection
<1>3. \A T \in All : IsFiniteSet(T)
  BY <1>1
<1>4. EdgesOf(c) = UNION All
  BY DEF EdgesOf
<1> HIDE DEF All
<1> QED BY <1>2, <1>3, <1>4, FS_UNION


\* No outlet has a connection twice (fts_connection_new ignores a second one).
NoDouble(c) == \A x \in Objects \X Outs : \A i, j \in 1 .. Len(c[x]) :
                  c[x][i].dst = c[x][j].dst /\ c[x][i].inlet = c[x][j].inlet => i = j

\* Where a connection stands decides whether the walk is before it.
LEMMA AheadPlace == ASSUME NEW c \in [Objects \X Outs -> Seq(Conn)], NoDouble(c), NEW f \in Frame,
                           NEW k \in Outs, NEW i \in 1 .. Len(c[<<f.object, k>>])
   PROVE AheadIn(c, f, <<f.object, k, c[<<f.object, k>>][i]>>)
            <=> (k > f.outlet \/ (k = f.outlet /\ i >= f.at))
<1> DEFINE o == f.object
           e == <<o, k, c[<<o, k>>][i]>>
<1>1. o \in Objects /\ <<o, k>> \in Objects \X Outs
  BY DEF Frame
<1>2. ASSUME NEW l \in Outs, NEW j \in 1 .. Len(c[<<o, l>>]), e = <<o, l, c[<<o, l>>][j]>>
      PROVE  l = k /\ j = i
  <2>1. l = k /\ c[<<o, k>>][j] = c[<<o, k>>][i]
    BY <1>2
  <2> QED BY <2>1, <1>1, <1>2 DEF NoDouble
<1> HIDE DEF o
<1>3. ASSUME AheadIn(c, f, e) PROVE k > f.outlet \/ (k = f.outlet /\ i >= f.at)
  <2>1. PICK l \in Outs : \E j \in 1 .. Len(c[<<o, l>>]) :
                       /\ e = <<o, l, c[<<o, l>>][j]>>
                       /\ l > f.outlet \/ (l = f.outlet /\ j >= f.at)
    BY <1>3 DEF AheadIn, o
  <2>2. PICK j \in 1 .. Len(c[<<o, l>>]) :
                       /\ e = <<o, l, c[<<o, l>>][j]>>
                       /\ l > f.outlet \/ (l = f.outlet /\ j >= f.at)
    BY <2>1
  <2>3. l = k /\ j = i
    BY <1>2, <2>2
  <2> QED BY <2>2, <2>3
<1>4. ASSUME k > f.outlet \/ (k = f.outlet /\ i >= f.at) PROVE AheadIn(c, f, e)
  BY <1>4 DEF AheadIn, o
<1> QED BY <1>3, <1>4 DEF o

\* The walk over all connections of an object: at its begin everything lies
\* ahead, at its end nothing, and each turn of the iterator passes one.
LEMMA WalkBegin == ASSUME NEW c \in [Objects \X Outs -> Seq(Conn)], NoDouble(c), NEW f \in Frame,
                          f.outlet = 1, f.at = 1, NEW e \in EdgesOf(c), e[1] = f.object
                   PROVE  AheadIn(c, f, e)
<1>1. PICK o \in Objects, k \in Outs : \E i \in 1 .. Len(c[<<o, k>>]) :
               e = <<o, k, c[<<o, k>>][i]>> /\ c[<<o, k>>][i] \in Conn
  BY EdgesAre
<1>2. PICK i \in 1 .. Len(c[<<o, k>>]) : e = <<o, k, c[<<o, k>>][i]>>
  BY <1>1
<1>3. o = f.object
  BY <1>2
<1>4. k \in Nat \ {0} /\ i >= 1
  BY GraphAssumption
<1>5. k > f.outlet \/ (k = f.outlet /\ i >= f.at)
  BY <1>4
<1> QED BY <1>2, <1>3, <1>5, AheadPlace

\* Behind the last outlet nothing is left.
LEMMA WalkEnd == ASSUME NEW c, NEW f \in Frame, f.outlet \notin Outs, NEW e
                 PROVE  ~AheadIn(c, f, e)
<1> SUFFICES ASSUME AheadIn(c, f, e) PROVE FALSE
  OBVIOUS
<1>1. PICK k \in Outs : k > f.outlet \/ k = f.outlet
  BY DEF AheadIn
<1>2. f.outlet \in Nat \ {0} /\ k \in Nat
  BY GraphAssumption DEF Frame
<1>3. f.outlet \in 1 .. k
  BY <1>1, <1>2
<1> QED BY <1>3, GraphAssumption

\* An outlet without further connections: the walk goes to the next outlet.
LEMMA WalkOutlet == ASSUME NEW c \in [Objects \X Outs -> Seq(Conn)], NoDouble(c), NEW f \in Frame,
                           f.at > Len(c[<<f.object, f.outlet>>]), f.outlet \in Outs,
                           NEW g \in Frame, g.object = f.object, g.outlet = f.outlet + 1, g.at = 1,
                           NEW e \in EdgesOf(c)
                    PROVE  AheadIn(c, g, e) <=> AheadIn(c, f, e)
<1>1. PICK o \in Objects, k \in Outs : \E i \in 1 .. Len(c[<<o, k>>]) :
               e = <<o, k, c[<<o, k>>][i]>> /\ c[<<o, k>>][i] \in Conn
  BY EdgesAre
<1>2. PICK i \in 1 .. Len(c[<<o, k>>]) : e = <<o, k, c[<<o, k>>][i]>>
  BY <1>1
<1>3. CASE o = f.object
  <2>1. AheadIn(c, f, e) <=> (k > f.outlet \/ (k = f.outlet /\ i >= f.at))
    BY <1>2, <1>3, AheadPlace
  <2>2. AheadIn(c, g, e) <=> (k > g.outlet \/ (k = g.outlet /\ i >= g.at))
    BY <1>2, <1>3, AheadPlace
  <2>3. k \in Nat /\ f.outlet \in Nat /\ f.at \in Nat
    BY GraphAssumption DEF Frame
  <2>4. c[<<o, k>>] \in Seq(Conn) /\ Len(c[<<o, k>>]) \in Nat
    OBVIOUS
  <2>5. k = f.outlet => i < f.at
    <3>1. k = f.outlet => c[<<o, k>>] = c[<<f.object, f.outlet>>]
      BY <1>3
    <3> QED BY <3>1, <2>3, <2>4
  <2>6. (k > g.outlet \/ (k = g.outlet /\ i >= g.at)) <=> (k > f.outlet \/ (k = f.outlet /\ i >= f.at))
    <3>1. i \in Nat /\ i >= 1
      OBVIOUS
    <3> QED BY <3>1, <2>3, <2>5
  <2> QED BY <2>1, <2>2, <2>6
<1>4. CASE o # f.object
  BY <1>2, <1>4 DEF AheadIn
<1> QED BY <1>3, <1>4

\* A turn of the iterator passes one connection and no other.
LEMMA WalkEdge == ASSUME NEW c \in [Objects \X Outs -> Seq(Conn)], NoDouble(c), NEW f \in Frame,
                         f.at <= Len(c[<<f.object, f.outlet>>]), f.outlet \in Outs,
                         NEW g \in Frame, g.object = f.object, g.outlet = f.outlet, g.at = f.at + 1
   PROVE /\ <<f.object, f.outlet, c[<<f.object, f.outlet>>][f.at]>> \in EdgesOf(c)
         /\ AheadIn(c, f, <<f.object, f.outlet, c[<<f.object, f.outlet>>][f.at]>>)
         /\ \A e \in EdgesOf(c) : AheadIn(c, g, e) <=>
               (AheadIn(c, f, e) /\ e # <<f.object, f.outlet, c[<<f.object, f.outlet>>][f.at]>>)
<1> DEFINE here == <<f.object, f.outlet, c[<<f.object, f.outlet>>][f.at]>>
<1>1. f.object \in Objects /\ f.at \in 1 .. Len(c[<<f.object, f.outlet>>])
      /\ f.outlet \in Nat /\ f.at \in Nat
  <2>1. f.object \in Objects /\ f.outlet \in Nat /\ f.at \in Nat \ {0}
    BY DEF Frame
  <2>2. c[<<f.object, f.outlet>>] \in Seq(Conn)
    BY <2>1
  <2> QED BY <2>1, <2>2
<1>2. here \in EdgesOf(c) /\ AheadIn(c, f, here)
  <2>1. here \in EdgesOf(c)
    BY <1>1, EdgesAre
  <2>2. f.outlet = f.outlet /\ f.at >= f.at
    BY <1>1
  <2>3. AheadIn(c, f, here)
    BY <1>1, <2>2, Zenon DEF AheadIn
  <2> QED BY <2>1, <2>3
<1>3. ASSUME NEW e \in EdgesOf(c) PROVE AheadIn(c, g, e) <=> (AheadIn(c, f, e) /\ e # here)
  <2>1. PICK o \in Objects, k \in Outs : \E i \in 1 .. Len(c[<<o, k>>]) :
               e = <<o, k, c[<<o, k>>][i]>> /\ c[<<o, k>>][i] \in Conn
    BY EdgesAre
  <2>2. PICK i \in 1 .. Len(c[<<o, k>>]) : e = <<o, k, c[<<o, k>>][i]>>
    BY <2>1
  <2>3. CASE o = f.object
    <3>1. AheadIn(c, f, e) <=> (k > f.outlet \/ (k = f.outlet /\ i >= f.at))
      BY <2>2, <2>3, AheadPlace
    <3>2. AheadIn(c, g, e) <=> (k > g.outlet \/ (k = g.outlet /\ i >= g.at))
      BY <2>2, <2>3, AheadPlace
    <3>3. k \in Nat /\ i \in Nat
      BY GraphAssumption
    <3>4. e = here <=> (k = f.outlet /\ i = f.at)
      <4>1. ASSUME e = here PROVE k = f.outlet /\ i = f.at
        <5>1. k = f.outlet /\ c[<<o, k>>][i] = c[<<o, k>>][f.at]
          <6>1. <<o, k, c[<<o, k>>][i]>> = <<f.object, f.outlet, c[<<f.object, f.outlet>>][f.at]>>
            BY <4>1, <2>2
          <6> HIDE DEF here
          <6> QED BY <6>1
        <5> QED BY <5>1, <1>1, <2>2, <2>3 DEF NoDouble
      <4>2. ASSUME k = f.outlet, i = f.at PROVE e = here
        BY <4>2, <2>2, <2>3
      <4> QED BY <4>1, <4>2
    <3> HIDE DEF here
    <3> QED BY <3>1, <3>2, <3>3, <3>4, <1>1
  <2>4. CASE o # f.object
    BY <2>2, <2>4 DEF AheadIn
  <2> QED BY <2>3, <2>4
<1> QED BY <1>2, <1>3


-----------------------------------------------------------------------------
(* Lemmas about states.                                                     *)

\* What the types say of a patch and of the calls in progress.
LEMMA Facts == ASSUME Types, Graph
   PROVE /\ Edges = EdgesOf(conns) /\ NoDouble(conns)
         /\ \A e \in Edges : /\ e[1] \in Objects /\ e[2] \in Outs /\ e[3] \in Conn
                             /\ e[3].dst \in Objects /\ e[3].inlet \in Ins
         /\ \A E \in SUBSET Edges : IsFiniteSet(E)
         /\ Len(frames) \in Nat /\ DOMAIN frames = 1 .. Len(frames)
         /\ \A j \in 1 .. Len(frames) : frames[j] \in Frame
         /\ frames # <<>> => /\ Top = frames[Len(frames)] /\ Top \in Frame
                             /\ Len(frames) \in 1 .. Len(frames)
                             /\ Top.object \in Objects
         /\ Len(signals) \in Nat /\ DOMAIN signals = 1 .. Len(signals)
         /\ \A s \in 1 .. Len(signals) : /\ signals[s] \in SignalRec
                                         /\ signals[s].refcnt \in Int /\ signals[s].length \in Nat
         /\ \A o \in Objects : /\ pred_cnt[o] \in Int
                               /\ \A i \in Ins : in[o][i] \in 0 .. Len(signals)
                               /\ \A k \in Outs : out[o][k] \in 0 .. Len(signals)
<1>1. Edges = EdgesOf(conns)
  BY DEF Edges, EdgesOf
<1>2. NoDouble(conns)
  BY DEF Graph, NoDouble
<1>3. \A e \in Edges : e[1] \in Objects /\ e[2] \in Outs /\ e[3] \in Conn
  BY <1>1, EdgesAre DEF Types
<1>4. \A e \in Edges : e[3].dst \in Objects /\ e[3].inlet \in Ins
  BY <1>3 DEF Conn
<1>5. \A E \in SUBSET Edges : IsFiniteSet(E)
  BY <1>1, EdgesFinite, FS_Subset DEF Types
<1>6. /\ Len(frames) \in Nat /\ DOMAIN frames = 1 .. Len(frames)
      /\ \A j \in 1 .. Len(frames) : frames[j] \in Frame
  BY DEF Types
<1>7. ASSUME frames # <<>>
      PROVE  /\ Top = frames[Len(frames)] /\ Top \in Frame
             /\ Len(frames) \in 1 .. Len(frames) /\ Top.object \in Objects
  <2>1. Len(frames) \in 1 .. Len(frames)
    BY <1>7 DEF Types
  <2>2. Top = frames[Len(frames)]
    BY DEF Top, Last
  <2>3. Top \in Frame
    BY <2>1, <2>2, <1>6
  <2> QED BY <2>1, <2>2, <2>3 DEF Frame
<1>8. /\ Len(signals) \in Nat /\ DOMAIN signals = 1 .. Len(signals)
      /\ \A s \in 1 .. Len(signals) : signals[s] \in SignalRec
  BY DEF Types
<1>9. \A s \in 1 .. Len(signals) : signals[s].refcnt \in Int /\ signals[s].length \in Nat
  BY <1>8 DEF SignalRec
<1>10. \A o \in Objects : /\ pred_cnt[o] \in Int
                          /\ \A i \in Ins : in[o][i] \in 0 .. Len(signals)
                          /\ \A k \in Outs : out[o][k] \in 0 .. Len(signals)
  BY DEF Types
<1> QED BY <1>1, <1>2, <1>3, <1>4, <1>5, <1>6, <1>7, <1>8, <1>9, <1>10

\* The frame of the call in progress changes, the frames below stay.
LEMMA TopSet == ASSUME frames \in Seq(Frame), frames # <<>>, NEW g \in Frame,
                       frames' = [frames EXCEPT ![Len(frames)] = g]
   PROVE /\ frames' \in Seq(Frame) /\ frames' # <<>> /\ Len(frames') = Len(frames)
         /\ frames'[Len(frames)] = g /\ Top' = g
         /\ \A j \in 1 .. Len(frames) : j < Len(frames) => frames'[j] = frames[j]
<1>1. Len(frames) \in Nat /\ Len(frames) \in 1 .. Len(frames) /\ DOMAIN frames = 1 .. Len(frames)
  OBVIOUS
<1>2. frames' \in Seq(Frame) /\ Len(frames') = Len(frames)
  BY <1>1
<1>3. frames'[Len(frames)] = g /\ \A j \in 1 .. Len(frames) : j < Len(frames) => frames'[j] = frames[j]
  <2>1. PICK n \in Nat : n = Len(frames) /\ DOMAIN frames = 1 .. n
    BY <1>1
  <2>2. n \in DOMAIN frames /\ frames' = [frames EXCEPT ![n] = g]
    BY <1>1, <2>1
  <2>3. frames'[n] = g /\ \A j \in DOMAIN frames : j # n => frames'[j] = frames[j]
    BY <2>2, Zenon
  <2>4. \A j \in 1 .. n : j < n => j \in DOMAIN frames /\ j # n
    BY ONLY <2>1
  <2> QED BY <2>1, <2>3, <2>4
<1>4. Top' = g
  BY <1>2, <1>3 DEF Top, Last
<1>5. frames' # <<>>
  BY <1>1, <1>2
<1> QED BY <1>2, <1>3, <1>4, <1>5

\* dsp_graph_schedule_depth is called: a frame more.
LEMMA TopPush == ASSUME frames \in Seq(Frame), NEW g \in Frame, frames' = Append(frames, g)
   PROVE /\ frames' \in Seq(Frame) /\ frames' # <<>> /\ Len(frames') = Len(frames) + 1
         /\ frames'[Len(frames) + 1] = g /\ Top' = g
         /\ \A j \in 1 .. Len(frames) : frames'[j] = frames[j]
<1>1. Len(frames) \in Nat /\ frames' \in Seq(Frame) /\ Len(frames') = Len(frames) + 1
  OBVIOUS
<1>2. frames'[Len(frames) + 1] = g /\ \A j \in 1 .. Len(frames) : frames'[j] = frames[j]
  OBVIOUS
<1>3. Top' = g
  BY <1>1, <1>2 DEF Top, Last
<1>4. frames' # <<>>
  BY <1>1
<1> QED BY <1>1, <1>2, <1>3, <1>4

\* The call returns.
LEMMA TopPop == ASSUME frames \in Seq(Frame), frames # <<>>, frames' = Front(frames)
   PROVE /\ frames' \in Seq(Frame) /\ Len(frames') = Len(frames) - 1
         /\ \A j \in 1 .. Len(frames) : j < Len(frames) => frames'[j] = frames[j]
         /\ frames' # <<>> => Top' = frames[Len(frames) - 1] /\ Len(frames) - 1 \in 1 .. Len(frames)
<1>1. Len(frames) \in Nat /\ Len(frames) >= 1
  OBVIOUS
<1>2. frames' = SubSeq(frames, 1, Len(frames) - 1)
  BY DEF Front
<1>3. /\ frames' \in Seq(Frame) /\ Len(frames') = Len(frames) - 1
      /\ \A j \in 1 .. Len(frames) : j < Len(frames) => frames'[j] = frames[j]
  <2>1. PICK n \in Nat : n = Len(frames) - 1
    BY <1>1
  <2>2. frames' = SubSeq(frames, 1, n) /\ n <= Len(frames)
    BY <1>1, <1>2, <2>1
  <2>3. \A j \in 1 .. n : frames[j] \in Frame
    BY <2>1, <1>1
  <2>4. frames' \in Seq(Frame) /\ Len(frames') = n /\ \A j \in 1 .. n : frames'[j] = frames[j]
    BY <2>2, <2>3, <1>1, SubSeqProperties
  <2> QED BY <2>1, <2>4, <1>1
<1>4. ASSUME frames' # <<>>
      PROVE  Top' = frames[Len(frames) - 1] /\ Len(frames) - 1 \in 1 .. Len(frames)
  <2>1. Len(frames') >= 1
    BY <1>3, <1>4
  <2> QED BY <2>1, <1>1, <1>3 DEF Top, Last
<1> QED BY <1>3, <1>4


\* The function that Content defines, for any program P and signals D.
ContentOf(P, D) == CHOOSE c : c = [n \in 0 .. Len(P) |-> After(P, D, c, n)]
LEMMA ContentIs == Content = ContentOf(program, DOMAIN signals)
                   /\ Content' = ContentOf(program', DOMAIN signals')
<1>1. Content = ContentOf(program, DOMAIN signals)
  BY Zenon DEF Content, ContentOf, After, Added
<1>2. Content' = ContentOf(program', DOMAIN signals')
  BY Zenon DEF Content, ContentOf, After, Added
<1> QED BY <1>1, <1>2

\* What a step that changes neither patch nor program, and makes no signal,
\* leaves alone.
LEMMA Same == ASSUME UNCHANGED <<objects, conns, pred_cnt, in, out, program>>,
                     DOMAIN signals' = DOMAIN signals
   PROVE /\ Edges' = Edges /\ Content' = Content /\ Puts' = Puts
         /\ \A s : Readers(s)' = Readers(s)
         /\ \A B : Blocked(B)' <=> Blocked(B)
         /\ \A o, i : Sources(o, i)' = Sources(o, i)
         /\ \A f, e : Ahead(f, e)' <=> Ahead(f, e)
<1>1. Edges' = Edges
  BY DEF Edges
<1>2. Content' = Content
  BY ContentIs
<1>3. Puts' = Puts
  BY DEF Puts
<1>4. \A s : Readers(s)' = Readers(s)
  BY DEF Readers
<1>5. \A B : Blocked(B)' <=> Blocked(B)
  BY <1>1 DEF Blocked
<1>6. \A o, i : Sources(o, i)' = Sources(o, i)
  BY <1>1 DEF Sources
<1>7. \A f, e : Ahead(f, e)' <=> Ahead(f, e)
  BY Zenon DEF Ahead
<1> QED BY <1>1, <1>2, <1>3, <1>4, <1>5, <1>6, <1>7

\* A signal keeps the length it was made with (fts_dsp_signal_new takes a free one
\* of the same length), sig_zero alone is given others; an outlet keeps its signal.
LengthsKept == /\ \A s \in 1 .. Len(signals) : s # sig_zero => signals'[s].length = signals[s].length
               /\ \A o \in Objects, k \in Outs : out[o][k] # Nil => out'[o][k] = out[o][k]

\* Sources and what has been passed of them are outlets with a signal.
IsOutlet(x) == x[1] \in Objects /\ x[2] \in Outs /\ out[x[1]][x[2]] # Nil
LEMMA OutletsOnly == ASSUME Types, Graph, NEW o, NEW i
                     PROVE  /\ \A x \in Sources(o, i) : IsOutlet(x)
                            /\ \A x \in Passed(o, i) : IsOutlet(x)
<1>1. \A e \in Edges : e[1] \in Objects /\ e[2] \in Outs
  BY Facts
<1>2. ASSUME NEW x \in Sources(o, i) PROVE IsOutlet(x)
  <2>1. PICK e \in Edges : x = <<e[1], e[2]>> /\ out[e[1]][e[2]] # Nil
    BY DEF Sources
  <2> QED BY <2>1, <1>1 DEF IsOutlet
<1>3. ASSUME NEW x \in Passed(o, i) PROVE IsOutlet(x)
  <2>1. PICK e \in Edges : x = <<e[1], e[2]>> /\ out[e[1]][e[2]] # Nil
    BY DEF Passed
  <2> QED BY <2>1, <1>1 DEF IsOutlet
<1> QED BY <1>2, <1>3

LEMMA LengthStays == ASSUME Types, Waiting, LengthsKept, NEW x, IsOutlet(x)
                     PROVE  Length(x)' = Length(x)
<1>1. PICK o \in Objects, k \in Outs : x[1] = o /\ x[2] = k /\ out[o][k] # Nil
  BY DEF IsOutlet
<1>2. out[o][k] \in 1 .. Len(signals) /\ out[o][k] # sig_zero
  BY <1>1 DEF Types, Waiting, Nil
<1>3. out'[o][k] = out[o][k] /\ signals'[out[o][k]].length = signals[out[o][k]].length
  BY <1>1, <1>2 DEF LengthsKept
<1> QED BY <1>1, <1>3 DEF Length

LEMMA LengthsStay == ASSUME Types, Waiting, LengthsKept, NEW S, \A x \in S : IsOutlet(x)
                     PROVE  SameLength(S)' <=> SameLength(S)
<1>1. \A x \in S : Length(x)' = Length(x)
  BY LengthStays
<1> QED BY <1>1 DEF SameLength

LEMMA EvenIs == ASSUME NEW o, NEW i PROVE Even(o, i) <=> SameLength(Sources(o, i))
BY DEF Even, SameLength, Length

\* Where the sources of an inlet stay the same, so does whether they have one length.
LEMMA EvenStays == ASSUME Types, Graph, Waiting, LengthsKept, NEW o, NEW i,
                          Sources(o, i)' = Sources(o, i)
                   PROVE  Even(o, i)' <=> Even(o, i)
<1>1. PICK S : S = Sources(o, i)
  OBVIOUS
<1>2. SameLength(S)' <=> SameLength(S)
  BY <1>1, OutletsOnly, LengthsStay
<1>3. Even(o, i) <=> SameLength(S)
  BY <1>1 DEF Even, SameLength, Length
<1>4. Even(o, i)' <=> SameLength(S)'
  BY <1>1 DEF Even, SameLength, Length
<1> QED BY <1>2, <1>3, <1>4

\* An inlet that is left alone keeps what it sums up.
LEMMA InletKept ==
  ASSUME Types, Graph, Waiting, LengthsKept, NEW o \in Objects, NEW i \in Ins,
         pred_cnt[o] # SCHEDULED, InletSum(o, i), in'[o][i] = in[o][i],
         Passed(o, i)' = Passed(o, i), in[o][i] # Nil => Now'[in[o][i]] = Now[in[o][i]]
  PROVE  InletSum(o, i)'
<1>1. PICK P : P = Passed(o, i)
  OBVIOUS
<1>2. PICK s : s = in[o][i]
  OBVIOUS
<1>3. CASE s = Nil
  BY <1>1, <1>2, <1>3 DEF InletSum
<1>4. CASE s # Nil
  <2>1. s \in 1 .. Len(signals) /\ s # sig_zero
    BY <1>2, <1>4 DEF Types, Waiting, Nil
  <2>2. signals'[s].length = signals[s].length
    BY <2>1 DEF LengthsKept
  <2>3. SameLength(P)' <=> SameLength(P)
    BY <1>1, OutletsOnly, LengthsStay
  <2>4. PICK x \in P : Length(x) = signals[s].length
    BY <1>1, <1>2, <1>4 DEF InletSum
  <2>5. Length(x)' = Length(x)
    BY <1>1, OutletsOnly, LengthStays
  <2>6. Now[s] \subseteq P \cup Stale /\ (SameLength(P) => Now[s] = P)
    BY <1>1, <1>2, <1>4 DEF InletSum
  <2>7. \E y \in P : Length(y)' = signals'[s].length
    BY <2>2, <2>4, <2>5
  <2>8. Now'[s] \subseteq P \cup Stale /\ (SameLength(P)' => Now'[s] = P)
    BY <2>3, <2>6, <1>2, <1>4
  <2>9. in'[o][i] = s /\ Passed(o, i)' = P
    BY <1>1, <1>2
  <2>10. Passed(o, i)' = P => (SameLength(P)' <=> SameLength(Passed(o, i))')
    BY DEF SameLength, Length
  <2> QED BY <2>7, <2>8, <2>9, <2>10, <1>4 DEF InletSum, Stale
<1> QED BY <1>3, <1>4


-----------------------------------------------------------------------------
(* The steps keep the invariant.                                            *)

\* A walk that goes on without meeting a connection to treat
\* (dsp_graph_succ_realize, dsp_graph_schedule_depth of an object not ready).
LEMMA WalkKeeps ==
  ASSUME IInv, phase = "schedule",
         UNCHANGED <<objects, conns, status, phase, pred_cnt, in, out, signals, program>>,
         roots' \in Seq(Objects), frames' \in Seq(Frame), Stack', Unpassed' = Unpassed, Reached',
         ~Scheduling("outputs"), ~Scheduling("outputs")',
         Scheduling("edges")' <=> Scheduling("edges"),
         Scheduling("edges") => Top'.object = Top.object /\ Top'.outlet >= Top.outlet
  PROVE  IInv'
<1>1. /\ Types /\ Graph /\ Counted /\ LoopsWait
      /\ PutOnce /\ PutScheduled /\ PutBehind /\ Counts /\ Waiting /\ Outputs /\ Contents
  BY DEF IInv
<1>2. /\ Edges' = Edges /\ Content' = Content /\ Puts' = Puts
      /\ \A s : Readers(s)' = Readers(s)
      /\ \A B : Blocked(B)' <=> Blocked(B)
      /\ \A o, i : Sources(o, i)' = Sources(o, i)
  BY Same
<1>3. Types'
  BY <1>1 DEF Types
<1>4. Graph'
  BY <1>1, <1>2 DEF Graph
<1>5. Counted'
  BY <1>1 DEF Counted
<1>6. LoopsWait'
  BY <1>1, <1>2 DEF LoopsWait
<1>7. PutOnce' /\ PutBehind'
  BY <1>1, <1>2 DEF PutOnce, PutBehind
<1>8. PutScheduled'
  BY <1>1, <1>2 DEF PutScheduled
<1>9. Counts'
  <2>1. \A s : Pending(s)' <=> Pending(s)
    BY DEF Pending
  <2>2. ASSUME NEW s \in 1 .. Len(signals), s # sig_zero
        PROVE  \/ signals[s].refcnt = Cardinality(Readers(s)')
               \/ /\ Pending(s)' /\ Readers(s)' = {}
                  /\ Scheduling("outputs")' \/ Scheduling("edges")'
                  /\ \E k \in Outs : out[Top'.object][k] = s
    BY <2>2, <2>1, <1>1, <1>2 DEF Counts
  <2>3. /\ signals' # <<>> /\ signals'[sig_zero].refcnt = 1
    BY <1>1 DEF Counts
  <2> QED BY <2>2, <2>3 DEF Counts
<1>10. Waiting'
  BY <1>1 DEF Waiting
<1>11. Outputs'
  <2>2. CASE Scheduling("edges")
    <3>1. Top \in Frame /\ Top'.object = Top.object /\ Top'.outlet >= Top.outlet /\ Top' \in Frame
      <4>1. frames # <<>> /\ frames' # <<>>
        BY <2>2 DEF Scheduling
      <4>2. Top' = frames'[Len(frames')]
        BY DEF Top, Last
      <4>3. Top' \in Frame
        BY <4>1, <4>2
      <4> QED BY <4>1, <4>3, <2>2, <1>1, Facts
    <3>2. \A k \in Outs : k \in Nat
      BY GraphAssumption
    <3>3. Top.outlet \in Nat /\ Top'.outlet \in Nat
      BY <3>1 DEF Frame
    <3>4. ASSUME NEW k \in Outs, k > Top'.outlet, out[Top.object][k] # Nil PROVE Pending(out[Top.object][k])
      <4>1. k > Top.outlet
        BY <3>1, <3>2, <3>3, <3>4
      <4> QED BY <4>1, <3>4, <2>2, <1>1 DEF Outputs
    <3>5. \A j, k \in Outs :
                out[Top.object][j] = out[Top.object][k] /\ out[Top.object][j] # Nil => j = k
      BY <2>2, <1>1 DEF Outputs
    <3>6. PICK o : o = Top.object
      OBVIOUS
    <3>7. /\ Top'.object = o
          /\ \A k \in Outs : k > Top'.outlet /\ out'[o][k] # Nil
                              => signals'[out'[o][k]].refcnt = SIGNAL_PENDING
          /\ \A j, k \in Outs : out'[o][j] = out'[o][k] /\ out'[o][j] # Nil => j = k
      BY <3>1, <3>4, <3>5, <3>6 DEF Pending
    <3> QED BY <3>7 DEF Outputs, Pending
  <2>3. CASE ~Scheduling("edges")
    BY <2>3 DEF Outputs
  <2> QED BY <2>2, <2>3
<1>12. Contents'
  <2>1. Now' = Now /\ Follows(program, 1 .. Len(signals), Content)'
    BY <1>1, <1>2 DEF Now, Contents, Follows
  <2>2. \A o, i : Passed(o, i)' = Passed(o, i)
    BY <1>2 DEF Passed
  <2>a. LengthsKept
    BY DEF LengthsKept
  <2>3. InputsSum'
    <3>1. ASSUME NEW o \in ToSet(objects), NEW i \in Ins, pred_cnt[o] # SCHEDULED
          PROVE  InletSum(o, i)'
      <4>1. o \in Objects
        BY <1>1 DEF Types, ToSet
      <4>2. InletSum(o, i)
        BY <3>1, <1>1 DEF Contents, InputsSum
      <4> QED BY <4>1, <4>2, <3>1, <2>1, <2>2, <2>a, <1>1, InletKept
    <3> QED BY <3>1 DEF InputsSum
  <2>4. TopHears'
    <3>1. CASE Scheduling("edges")
      <4>1. Top \in Frame /\ Top'.object = Top.object /\ Top'.outlet >= Top.outlet /\ Top' \in Frame
        <5>1. frames # <<>> /\ frames' # <<>>
          BY <3>1 DEF Scheduling
        <5>2. Top' = frames'[Len(frames')]
          BY DEF Top, Last
        <5>3. Top' \in Frame
          BY <5>1, <5>2
        <5> QED BY <5>1, <5>3, <3>1, <1>1, Facts
      <4>2. \A k \in Outs : k \in Nat
        BY GraphAssumption
      <4>3. Top.outlet \in Nat /\ Top'.outlet \in Nat
        BY <4>1 DEF Frame
      <4>4. ASSUME NEW k \in Outs, k >= Top'.outlet, out[Top.object][k] # Nil
            PROVE  Now[out[Top.object][k]] = {<<Top.object, k>>}
        <5>1. k >= Top.outlet
          BY <4>1, <4>2, <4>3, <4>4
        <5> QED BY <5>1, <4>4, <3>1, <1>1 DEF Contents, TopHears
      <4> QED BY <4>1, <4>4, <2>1 DEF TopHears
    <3>2. CASE ~Scheduling("edges")
      BY <3>2 DEF TopHears
    <3> QED BY <3>1, <3>2
  <2>5. Heard'
    <3>1. Heard
      BY <1>1 DEF Contents
    <3>2. \A o, i : Even(o, i)' <=> Even(o, i)
      BY <2>a, <1>1, <1>2, EvenStays
    <3> QED BY <3>1, <3>2, <1>2 DEF Heard
  <2>6. (\A n \in 0 .. Len(program) : Content[n][sig_zero] = {})'
    BY <1>1, <1>2 DEF Contents
  <2> QED BY <2>1, <2>3, <2>4, <2>5, <2>6 DEF Contents
<1> QED BY <1>3, <1>4, <1>5, <1>6, <1>7, <1>8, <1>9, <1>10, <1>11, <1>12 DEF IInv


\* The frame of a call whose walk has moved (dsp_graph_succ_realize) is one.
LEMMA IsFrame == ASSUME NEW g, g = [x \in {"object", "outlet", "at", "walk"} |-> g[x]],
                        g.object \in Objects, g.outlet \in Nat \ {0}, g.at \in Nat \ {0},
                        g.walk \in {"outputs", "edges", "depth"}
                 PROVE  g \in Frame
<1> DEFINE h == [object |-> g.object, outlet |-> g.outlet, at |-> g.at, walk |-> g.walk]
<1>1. h \in Frame
  BY DEF Frame
<1>2. h = [x \in {"object", "outlet", "at", "walk"} |-> h[x]]
  OBVIOUS
<1>3. h.object = g.object /\ h.outlet = g.outlet /\ h.at = g.at /\ h.walk = g.walk
  OBVIOUS
<1> HIDE DEF h
<1>4. \A x \in {"object", "outlet", "at", "walk"} : h[x] = g[x]
  BY <1>3
<1>5. h = g
  BY <1>2, <1>4
<1> QED BY <1>1, <1>5

\* The walk in progress moves: an object that is ready is still met if the
\* walk does not leave a connection to it behind.
LEMMA MetTop ==
  ASSUME Types, Graph, frames # <<>>, NEW g \in Frame,
         frames' = [frames EXCEPT ![Len(frames)] = g], UNCHANGED <<conns, roots>>,
         g.object = Top.object,
         \A e \in Edges : /\ e[1] = Top.object /\ pred_cnt'[e[3].dst] = 0
                          /\ Top.walk # "depth" \/ Ahead(Top, e)
                          => g.walk # "depth" \/ Ahead(g, e)
  PROVE  \A o \in Objects : pred_cnt'[o] = 0 /\ Met(o) => Met(o)'
<1> SUFFICES ASSUME NEW o \in Objects, pred_cnt'[o] = 0, Met(o) PROVE Met(o)'
  OBVIOUS
<1>1. frames \in Seq(Frame) /\ Len(frames) \in Nat /\ Top = frames[Len(frames)]
      /\ Len(frames) \in 1 .. Len(frames)
  BY Facts DEF Types
<1>2. /\ Len(frames') = Len(frames) /\ frames'[Len(frames)] = g
      /\ \A j \in 1 .. Len(frames) : j < Len(frames) => frames'[j] = frames[j]
  BY <1>1, TopSet
<1>3. Edges' = Edges /\ \A f, e : Ahead(f, e)' <=> Ahead(f, e)
  <2>1. Edges' = Edges
    BY DEF Edges
  <2>2. \A f, e : Ahead(f, e)' <=> Ahead(f, e)
    BY Zenon DEF Ahead
  <2> QED BY <2>1, <2>2
<1>4. CASE o \in ToSet(roots)
  BY <1>4 DEF Met
<1>5. ASSUME NEW j \in 1 .. Len(frames), NEW e \in Edges,
             e[1] = frames[j].object /\ e[3].dst = o, frames[j].walk # "depth" \/ Ahead(frames[j], e)
      PROVE  Met(o)'
  <2>1. CASE j < Len(frames)
    <3>1. frames'[j] = frames[j] /\ j \in 1 .. Len(frames') /\ e \in Edges'
      BY <1>2, <1>3, <2>1
    <3>2. frames'[j].walk # "depth" \/ AheadIn(conns', frames'[j], e)
      BY <3>1, <1>5 DEF Ahead
    <3> QED BY <3>1, <3>2, <1>5 DEF Met, Ahead
  <2>2. CASE j = Len(frames)
    <3>1. g.walk # "depth" \/ Ahead(g, e)
      BY <1>1, <1>5, <2>2
    <3>2. frames'[j] = g /\ j \in 1 .. Len(frames') /\ e \in Edges' /\ e[1] = g.object
      BY <1>1, <1>2, <1>3, <1>5, <2>2
    <3>3. frames'[j].walk # "depth" \/ AheadIn(conns', frames'[j], e)
      BY <3>1, <3>2 DEF Ahead
    <3> QED BY <3>2, <3>3, <1>5 DEF Met, Ahead
  <2> QED BY <1>1, <2>1, <2>2
<1> QED BY <1>4, <1>5 DEF Met

\* The stack when the frame of the call in progress changes.
LEMMA StackTop ==
  ASSUME Types, Stack, frames # <<>>, phase = "schedule", phase' \in {"schedule", "crashed"},
         NEW g \in Frame, frames' = [frames EXCEPT ![Len(frames)] = g],
         g.object = Top.object, g.walk = "outputs" => g.at = 1, UNCHANGED <<objects, roots>>,
         \A o \in Objects : pred_cnt[o] = SCHEDULED => pred_cnt'[o] = SCHEDULED
  PROVE  Stack'
<1>1. /\ frames \in Seq(Frame) /\ Len(frames) \in Nat /\ Top = frames[Len(frames)]
      /\ Len(frames) \in 1 .. Len(frames)
      /\ \A j \in 1 .. Len(frames) : frames[j] \in Frame
  <2>1. Top = frames[Len(frames)]
    BY DEF Top, Last
  <2>2. frames \in Seq(Frame)
    BY DEF Types
  <2>3. Len(frames) \in Nat /\ Len(frames) \in 1 .. Len(frames)
    BY <2>2
  <2> QED BY <2>1, <2>2, <2>3
<1>2. /\ Len(frames') = Len(frames) /\ frames'[Len(frames)] = g
      /\ \A j \in 1 .. Len(frames) : j < Len(frames) => frames'[j] = frames[j]
  BY <1>1, TopSet
<1>3. ASSUME NEW j \in 1 .. Len(frames')
      PROVE  /\ pred_cnt'[frames'[j].object] = SCHEDULED
             /\ j < Len(frames') => frames'[j].walk = "depth"
             /\ frames'[j].walk = "outputs" => frames'[j].at = 1
  <2>1. j \in 1 .. Len(frames) /\ frames[j].object \in Objects /\ pred_cnt[frames[j].object] = SCHEDULED
    BY <1>1, <1>2, <1>3 DEF Stack, Frame
  <2>2. CASE j < Len(frames)
    BY <2>1, <2>2, <1>2 DEF Stack
  <2>3. CASE j = Len(frames)
    BY <2>1, <2>3, <1>1, <1>2
  <2> QED BY <2>1, <2>2, <2>3, <1>1
<1> QED BY <1>3 DEF Stack

\* dsp_graph_succ_realize goes on with the next outlet.
LEMMA NextOutletStep == ASSUME IInv, NextOutlet PROVE IInv'
<1> DEFINE g == [Top EXCEPT !.outlet = @ + 1, !.at = 1]
<1>1. /\ Types /\ Graph /\ Stack /\ phase = "schedule" /\ frames # <<>> /\ frames \in Seq(Frame)
      /\ Top.walk \in {"edges", "depth"}
      /\ Top.outlet \in Outs /\ Top.at > Len(conns[<<Top.object, Top.outlet>>])
      /\ UNCHANGED <<objects, conns, status, phase, roots, pred_cnt, in, out, signals, program>>
  BY DEF IInv, NextOutlet, Walking, InWalk, Here, Types, graphVars
<1>2. /\ Edges = EdgesOf(conns) /\ NoDouble(conns) /\ Top = frames[Len(frames)] /\ Top \in Frame
      /\ Len(frames) \in 1 .. Len(frames) /\ DOMAIN frames = 1 .. Len(frames)
  BY <1>1, Facts
<1>3. g \in Frame /\ g.object = Top.object /\ g.outlet = Top.outlet + 1 /\ g.at = 1 /\ g.walk = Top.walk
  <2>1. Top.outlet + 1 \in Nat \ {0} /\ 1 \in Nat \ {0}
    BY <1>2 DEF Frame
  <2>2. g.object = Top.object /\ g.outlet = Top.outlet + 1 /\ g.at = 1 /\ g.walk = Top.walk
    BY <1>2 DEF Frame
  <2>3. g = [x \in {"object", "outlet", "at", "walk"} |-> g[x]]
    BY <1>2 DEF Frame
  <2> HIDE DEF g
  <2>4. Top.object \in Objects /\ Top.walk \in {"outputs", "edges", "depth"}
    BY <1>2 DEF Frame
  <2> QED BY <2>1, <2>2, <2>3, <2>4, IsFrame
<1>4. frames' = [frames EXCEPT ![Len(frames)] = g]
  BY <1>2 DEF NextOutlet
<1> HIDE DEF g
<1>5. /\ frames' \in Seq(Frame) /\ frames' # <<>> /\ Top' = g
  BY <1>1, <1>3, <1>4, TopSet
<1>6. \A e \in Edges : Ahead(g, e) <=> Ahead(Top, e)
  BY <1>1, <1>2, <1>3, WalkOutlet DEF Ahead, Types
<1>7. \A o \in Objects : pred_cnt'[o] = 0 /\ Met(o) => Met(o)'
  BY <1>1, <1>3, <1>4, <1>6, MetTop
<1>8. Reached'
  <2>1. Reached /\ ToSet(objects) \subseteq Objects
    BY <1>1 DEF IInv, Types, ToSet
  <2> QED BY <2>1, <1>1, <1>7 DEF Reached
<1>9. Stack'
  BY <1>1, <1>3, <1>4, StackTop
<1>10. Edges' = Edges /\ \A f, e : Ahead(f, e)' <=> Ahead(f, e)
  BY <1>1, Same
<1>11. Unpassed' = Unpassed
  <2>1. ASSUME NEW e \in Edges PROVE AheadIn(conns', g, e) <=> AheadIn(conns, Top, e)
    BY <1>1, <1>6 DEF Ahead
  <2> QED BY <2>1, <1>1, <1>3, <1>5, <1>10 DEF Unpassed, Scheduling, Ahead
<1>12. /\ ~Scheduling("outputs") /\ ~Scheduling("outputs")'
       /\ Scheduling("edges")' <=> Scheduling("edges")
       /\ Top'.object = Top.object /\ Top'.outlet >= Top.outlet
  <2>1. Top.outlet \in Nat
    BY <1>2 DEF Frame
  <2> QED BY <2>1, <1>1, <1>3, <1>5 DEF Scheduling
<1>13. roots' \in Seq(Objects)
  BY <1>1 DEF Types
<1> QED BY <1>1, <1>5, <1>8, <1>9, <1>11, <1>12, <1>13, WalkKeeps


\* A walk that goes deeper passes an object that is not ready.
LEMMA DepthMoves ==
  ASSUME IInv, InWalk("depth"), AtEdge, ~Ready(Here[Top.at].dst), Moved,
         UNCHANGED <<objects, conns, status, phase, roots, pred_cnt, in, out, signals, program>>
  PROVE  IInv'
<1> DEFINE g == NextEdge(Top)
<1>1. /\ Types /\ Graph /\ Stack /\ phase = "schedule" /\ frames # <<>> /\ frames \in Seq(Frame)
      /\ Top.walk = "depth"
      /\ Top.outlet \in Outs /\ Top.at <= Len(conns[<<Top.object, Top.outlet>>])
      /\ pred_cnt[conns[<<Top.object, Top.outlet>>][Top.at].dst] # 0
  BY DEF IInv, InWalk, Here, AtEdge, Ready, Types
<1>2. /\ Edges = EdgesOf(conns) /\ NoDouble(conns) /\ Top = frames[Len(frames)] /\ Top \in Frame
      /\ Len(frames) \in 1 .. Len(frames) /\ DOMAIN frames = 1 .. Len(frames)
  BY <1>1, Facts
<1>3. g \in Frame /\ g.object = Top.object /\ g.outlet = Top.outlet /\ g.at = Top.at + 1 /\ g.walk = Top.walk
  <2>1. Top.at + 1 \in Nat \ {0} /\ Top.outlet \in Nat \ {0}
    BY <1>2 DEF Frame
  <2>2. g.object = Top.object /\ g.outlet = Top.outlet /\ g.at = Top.at + 1 /\ g.walk = Top.walk
    BY <1>2 DEF Frame, NextEdge
  <2>3. g = [x \in {"object", "outlet", "at", "walk"} |-> g[x]]
    BY <1>2 DEF Frame, NextEdge
  <2> HIDE DEF g
  <2>4. Top.object \in Objects /\ Top.walk \in {"outputs", "edges", "depth"}
    BY <1>2 DEF Frame
  <2> QED BY <2>1, <2>2, <2>3, <2>4, IsFrame
<1>4. frames' = [frames EXCEPT ![Len(frames)] = g]
  BY <1>2 DEF Moved
<1> HIDE DEF g
<1> DEFINE here == <<Top.object, Top.outlet, conns[<<Top.object, Top.outlet>>][Top.at]>>
<1>5. /\ frames' \in Seq(Frame) /\ frames' # <<>> /\ Top' = g
  BY <1>1, <1>3, <1>4, TopSet
<1>6. \A e \in Edges : Ahead(g, e) <=> (Ahead(Top, e) /\ e # here)
  <2>1. conns \in [Objects \X Outs -> Seq(Conn)]
    BY <1>1 DEF Types
  <2>2. \A e \in EdgesOf(conns) : AheadIn(conns, g, e) <=> (AheadIn(conns, Top, e) /\ e # here)
    <3>1. PICK f \in Frame : f = Top
      BY <1>2
    <3>2. /\ NoDouble(conns) /\ f.outlet \in Outs /\ f.at <= Len(conns[<<f.object, f.outlet>>])
          /\ g \in Frame /\ g.object = f.object /\ g.outlet = f.outlet /\ g.at = f.at + 1
      BY <3>1, <1>1, <1>2, <1>3
    <3>3. \A e \in EdgesOf(conns) : AheadIn(conns, g, e) <=>
             (AheadIn(conns, f, e) /\ e # <<f.object, f.outlet, conns[<<f.object, f.outlet>>][f.at]>>)
      BY <2>1, <3>2, WalkEdge
    <3> QED BY <3>1, <3>3
  <2> HIDE DEF here
  <2> QED BY <2>2, <1>2 DEF Ahead
<1>7. pred_cnt'[here[3].dst] # 0
  BY <1>1
<1> HIDE DEF here
<1>8. \A o \in Objects : pred_cnt'[o] = 0 /\ Met(o) => Met(o)'
  <2>1. ASSUME NEW e \in Edges, e[1] = Top.object, pred_cnt'[e[3].dst] = 0,
               Top.walk # "depth" \/ Ahead(Top, e)
        PROVE  g.walk # "depth" \/ Ahead(g, e)
    <3>1. e # here
      BY <2>1, <1>7
    <3> QED BY <3>1, <2>1, <1>1, <1>6
  <2> QED BY <2>1, <1>1, <1>3, <1>4, MetTop
<1>9. Reached'
  <2>1. Reached /\ ToSet(objects) \subseteq Objects
    BY <1>1 DEF IInv, Types, ToSet
  <2> QED BY <2>1, <1>1, <1>8 DEF Reached
<1>10. Stack'
  BY <1>1, <1>3, <1>4, StackTop
<1>11. Edges' = Edges
  BY <1>1, Same
<1>12. Unpassed' = Unpassed
  BY <1>1, <1>3, <1>5, <1>11 DEF Unpassed, Scheduling
<1>13. /\ ~Scheduling("outputs") /\ ~Scheduling("outputs")'
       /\ ~Scheduling("edges") /\ ~Scheduling("edges")'
  BY <1>1, <1>3, <1>5 DEF Scheduling
<1>14. roots' \in Seq(Objects)
  BY <1>1 DEF Types
<1> QED BY <1>1, <1>5, <1>9, <1>10, <1>12, <1>13, <1>14, WalkKeeps

\* dsp_graph_schedule_depth returns.
LEMMA DepthEndStep == ASSUME IInv, DepthEnd PROVE IInv'
<1>1. /\ Types /\ Graph /\ Stack /\ Reached /\ phase = "schedule" /\ frames # <<>> /\ frames \in Seq(Frame)
      /\ Top.walk = "depth" /\ Top.outlet \notin Outs
      /\ frames' = Front(frames)
      /\ UNCHANGED <<objects, conns, status, phase, roots, pred_cnt, in, out, signals, program>>
  BY DEF IInv, DepthEnd, InWalk, Types, graphVars
<1>2. /\ Edges = EdgesOf(conns) /\ Top = frames[Len(frames)] /\ Top \in Frame
      /\ Len(frames) \in Nat
      /\ \A j \in 1 .. Len(frames) : frames[j] \in Frame
  BY <1>1, Facts
<1>3. /\ frames' \in Seq(Frame) /\ Len(frames') = Len(frames) - 1
      /\ \A j \in 1 .. Len(frames) : j < Len(frames) => frames'[j] = frames[j]
      /\ frames' # <<>> => Top' = frames[Len(frames) - 1] /\ Len(frames) - 1 \in 1 .. Len(frames)
  BY <1>1, TopPop
<1>4. Edges' = Edges /\ \A f, e : Ahead(f, e)' <=> Ahead(f, e)
  BY <1>1, Same
<1>5. frames' # <<>> => Top'.walk = "depth"
  <2>1. frames' # <<>> => Len(frames) - 1 < Len(frames)
    BY <1>2
  <2> QED BY <2>1, <1>1, <1>3 DEF Stack
<1>6. /\ ~Scheduling("outputs") /\ ~Scheduling("outputs")'
      /\ ~Scheduling("edges") /\ ~Scheduling("edges")'
  BY <1>1, <1>5 DEF Scheduling
<1>7. Unpassed' = Unpassed
  BY <1>1, <1>4, <1>6 DEF Unpassed
<1>8. ASSUME NEW o \in Objects, Met(o) PROVE Met(o)'
  <2>1. CASE o \in ToSet(roots)
    BY <2>1, <1>1 DEF Met
  <2>2. ASSUME NEW j \in 1 .. Len(frames), NEW e \in Edges,
               e[1] = frames[j].object, e[3].dst = o, frames[j].walk # "depth" \/ Ahead(frames[j], e)
        PROVE  Met(o)'
    <3>1. ~Ahead(Top, e)
      BY <1>1, <1>2, WalkEnd DEF Ahead
    <3>2. j # Len(frames)
      BY <3>1, <2>2, <1>1, <1>2
    <3>3. j \in 1 .. Len(frames') /\ frames'[j] = frames[j] /\ e \in Edges'
      BY <3>2, <1>2, <1>3, <1>4
    <3>4. frames'[j].walk # "depth" \/ AheadIn(conns', frames'[j], e)
      BY <3>3, <2>2, <1>1 DEF Ahead
    <3> QED BY <3>3, <3>4, <2>2 DEF Met, Ahead
  <2> QED BY <2>1, <2>2, <1>8 DEF Met
<1>9. Reached'
  <2>1. ToSet(objects) \subseteq Objects
    BY <1>1 DEF Types, ToSet
  <2> QED BY <2>1, <1>1, <1>8 DEF Reached
<1>10. Stack'
  <2>1. ASSUME NEW j \in 1 .. Len(frames')
        PROVE  j \in 1 .. Len(frames) /\ j < Len(frames) /\ frames'[j] = frames[j]
    BY <1>2, <1>3
  <2>2. \A j \in 1 .. Len(frames') : pred_cnt[frames'[j].object] = SCHEDULED
    BY <2>1, <1>1 DEF Stack
  <2>3. \A j \in 1 .. Len(frames') : frames'[j].walk = "depth"
    BY <2>1, <1>1 DEF Stack
  <2> QED BY <2>2, <2>3, <1>1 DEF Stack
<1>11. roots' \in Seq(Objects)
  BY <1>1 DEF Types
<1> QED BY <1>1, <1>3, <1>6, <1>7, <1>9, <1>10, <1>11, WalkKeeps

\* dsp_graph_schedule goes on in the list of objects.
LEMMA TailSet == ASSUME NEW s \in Seq(Objects), s # <<>>
   PROVE /\ Tail(s) \in Seq(Objects) /\ Head(s) \in ToSet(s) /\ ToSet(Tail(s)) \subseteq ToSet(s)
         /\ \A o \in ToSet(s) : o = Head(s) \/ o \in ToSet(Tail(s))
<1>1. /\ Tail(s) \in Seq(Objects) /\ Len(s) \in Nat /\ DOMAIN s = 1 .. Len(s)
      /\ DOMAIN Tail(s) = 1 .. Len(Tail(s)) /\ 1 \in DOMAIN s /\ Head(s) = s[1]
  OBVIOUS
<1>2. \A i \in 1 .. Len(Tail(s)) : i + 1 \in 1 .. Len(s) /\ Tail(s)[i] = s[i + 1]
  OBVIOUS
<1>3. \A i \in 1 .. Len(s) : i = 1 \/ (i - 1 \in 1 .. Len(Tail(s)) /\ Tail(s)[i - 1] = s[i])
  OBVIOUS
<1>4. ToSet(Tail(s)) \subseteq ToSet(s)
  BY <1>1, <1>2 DEF ToSet
<1>5. \A o \in ToSet(s) : o = Head(s) \/ o \in ToSet(Tail(s))
  BY <1>1, <1>3 DEF ToSet
<1> QED BY <1>1, <1>4, <1>5 DEF ToSet

\* dsp_graph_schedule passes an object that is not ready.
LEMMA RootMoves ==
  ASSUME IInv, phase = "schedule", frames = <<>>, roots # <<>>, ~Ready(Head(roots)),
         roots' = Tail(roots),
         UNCHANGED <<objects, conns, status, phase, frames, pred_cnt, in, out, signals, program>>
  PROVE  IInv'
<1>1. Types /\ Graph /\ Stack /\ Reached /\ roots \in Seq(Objects)
  BY DEF IInv, Types
<1>2. Edges' = Edges /\ \A f, e : Ahead(f, e)' <=> Ahead(f, e)
  BY Same
<1>3. roots' \in Seq(Objects) /\ frames' \in Seq(Frame)
  BY <1>1 DEF Types
<1>4. /\ \A o \in ToSet(roots) : o = Head(roots) \/ o \in ToSet(roots')
      /\ ToSet(roots') \subseteq ToSet(roots)
  BY <1>1, TailSet
<1>5. ASSUME NEW o \in ToSet(objects), pred_cnt[o] = 0 PROVE Met(o)'
  <2>1. Met(o) /\ o # Head(roots)
    BY <1>1, <1>5 DEF Reached, Ready
  <2>2. Len(frames) = 0
    OBVIOUS
  <2>3. o \in ToSet(roots)
    BY <2>1, <2>2 DEF Met
  <2>4. o \in ToSet(roots')
    BY <2>1, <2>3, <1>4
  <2> QED BY <2>4 DEF Met
<1>6. Reached'
  BY <1>5 DEF Reached
<1>7. Stack'
  BY <1>1, <1>4 DEF Stack
<1>8. \A w : ~Scheduling(w) /\ ~Scheduling(w)'
  BY DEF Scheduling
<1>9. Unpassed' = Unpassed
  BY <1>2, <1>8 DEF Unpassed
<1> QED BY <1>3, <1>6, <1>7, <1>8, <1>9, WalkKeeps

-----------------------------------------------------------------------------
(* Lemmas about what a program computes.                                    *)

\* Every instruction leaves a content in every signal.
LEMMA ContentDomain == ASSUME NEW P, Len(P) \in Nat, NEW D, NEW c, Follows(P, D, c)
                       PROVE  \A n \in 0 .. Len(P) : c[n] = [s \in D |-> c[n][s]]
<1> DEFINE T == {n \in 0 .. Len(P) : c[n] = [s \in D |-> c[n][s]]}
<1>1. \A n \in 0 .. Len(P) : c[n] = After(P, D, c, n)
  BY DEF Follows
<1>2. 0 \in T
  <2>1. 0 \in 0 .. Len(P)
    OBVIOUS
  <2>2. c[0] = After(P, D, c, 0)
    BY <2>1, <1>1
  <2>3. c[0] = [s \in D |-> IF s = sig_zero THEN {} ELSE Stale]
    BY <2>2 DEF After
  <2>4. c[0] = [s \in D |-> c[0][s]]
    BY <2>3
  <2> QED BY <2>1, <2>4
<1>3. ASSUME NEW n \in 0 .. Len(P) - 1, n \in T PROVE n + 1 \in T
  <2>1. n + 1 \in 0 .. Len(P) /\ n + 1 # 0 /\ (n + 1) - 1 = n
    BY <1>3
  <2>2. c[n + 1] = After(P, D, c, n + 1) /\ c[n] = [s \in D |-> c[n][s]]
    BY <2>1, <1>1, <1>3
  <2>3. CASE P[n + 1].op = "add"
    <3>1. PICK i : i = P[n + 1]
      OBVIOUS
    <3>2. PICK b : b = c[n]
      OBVIOUS
    <3>3. c[n + 1] = [b EXCEPT ![i.out] = Added(i, b)]
      BY <2>1, <2>2, <2>3, <3>1, <3>2 DEF After
    <3>4. b = [s \in D |-> b[s]]
      BY <3>2, <2>2
    <3>5. c[n + 1] = [s \in D |-> c[n + 1][s]]
      BY <3>3, <3>4, Zenon
    <3> QED BY <3>5, <2>1
  <2>4. CASE P[n + 1].op # "add"
    BY <2>1, <2>2, <2>4 DEF After
  <2> QED BY <2>3, <2>4
<1> HIDE DEF T
<1>4. T = 0 .. Len(P)
  <2>1. T \in SUBSET (0 .. Len(P))
    BY DEF T
  <2> QED BY <2>1, <1>2, <1>3, Induct
<1> QED BY <1>4 DEF T

\* What Content defines is the only one that follows the program.
LEMMA ContentOne == ASSUME NEW P, Len(P) \in Nat, NEW D, NEW c, Follows(P, D, c)
                    PROVE  ContentOf(P, D) = c
<1> DEFINE d == ContentOf(P, D)
           T == {n \in 0 .. Len(P) : d[n] = c[n]}
<1>1. Follows(P, D, d)
  BY DEF ContentOf, Follows
<1> HIDE DEF d
<1>2. \A n \in 0 .. Len(P) : d[n] = After(P, D, d, n) /\ c[n] = After(P, D, c, n)
  BY <1>1 DEF Follows
<1>3. 0 \in T
  <2>1. 0 \in 0 .. Len(P)
    OBVIOUS
  <2>2. d[0] = After(P, D, d, 0) /\ c[0] = After(P, D, c, 0)
    BY <2>1, <1>2
  <2>3. After(P, D, d, 0) = After(P, D, c, 0)
    BY DEF After
  <2> QED BY <2>1, <2>2, <2>3
<1>4. ASSUME NEW n \in 0 .. Len(P) - 1, n \in T PROVE n + 1 \in T
  <2>1. n + 1 \in 0 .. Len(P) /\ n + 1 # 0 /\ (n + 1) - 1 = n /\ d[n] = c[n]
    BY <1>4
  <2>2. After(P, D, d, n + 1) = After(P, D, c, n + 1)
    BY <2>1 DEF After
  <2> QED BY <2>1, <2>2, <1>2
<1> HIDE DEF T
<1>5. T = 0 .. Len(P)
  <2>1. T \in SUBSET (0 .. Len(P))
    BY DEF T
  <2> QED BY <2>1, <1>3, <1>4, Induct
<1>6. \A n \in 0 .. Len(P) : d[n] = c[n]
  BY <1>5 DEF T
<1>7. d = c
  BY <1>1, <1>6 DEF Follows
<1> QED BY <1>7 DEF d

\* A new signal (fts_dsp_signal_new) changes the content of none that is there.
LEMMA ContentWider ==
  ASSUME NEW N \in Nat \ {0}, NEW P \in Seq(Instruction(N)), NEW c, Follows(P, 1 .. N, c),
         NEW M \in Nat, N <= M
  PROVE  \E d : /\ Follows(P, 1 .. M, d)
                /\ \A n \in 0 .. Len(P), s \in 1 .. N : d[n][s] = c[n][s]
<1> DEFINE d == [n \in 0 .. Len(P) |-> [s \in 1 .. M |-> IF s \in 1 .. N THEN c[n][s] ELSE Stale]]
<1>1. Len(P) \in Nat /\ \A n \in 1 .. Len(P) : P[n] \in Instruction(N)
  OBVIOUS
<1>2. /\ \A n \in 0 .. Len(P) : c[n] = After(P, 1 .. N, c, n)
      /\ \A n \in 0 .. Len(P) : c[n] = [s \in 1 .. N |-> c[n][s]]
  <2>1. \A n \in 0 .. Len(P) : c[n] = [s \in 1 .. N |-> c[n][s]]
    BY <1>1, ContentDomain
  <2> QED BY <2>1 DEF Follows
<1>3. ASSUME NEW n \in 0 .. Len(P) PROVE d[n] = After(P, 1 .. M, d, n)
  <2>1. d[n] = [s \in 1 .. M |-> IF s \in 1 .. N THEN c[n][s] ELSE Stale]
    OBVIOUS
  <2>2. n # 0 => d[n - 1] = [s \in 1 .. M |-> IF s \in 1 .. N THEN c[n - 1][s] ELSE Stale]
    BY <1>1
  <2> HIDE DEF d
  <2>3. CASE n = 0
    <3>1. c[0] = [s \in 1 .. N |-> IF s = sig_zero THEN {} ELSE Stale]
      BY <2>3, <1>2 DEF After
    <3>2. \A s \in 1 .. N : c[0][s] = IF s = sig_zero THEN {} ELSE Stale
      BY <3>1
    <3>3. \A s \in 1 .. M : (IF s \in 1 .. N THEN c[0][s] ELSE Stale)
                              = (IF s = sig_zero THEN {} ELSE Stale)
      BY <3>2 DEF sig_zero
    <3>4. d[0] = [s \in 1 .. M |-> IF s = sig_zero THEN {} ELSE Stale]
      BY <2>1, <2>3, <3>3
    <3> QED BY <2>3, <3>4 DEF After
  <2>4. CASE n # 0 /\ P[n].op = "add"
    <3>1. PICK i \in Instruction(N) : i = P[n]
      BY <1>1, <2>4
    <3>2. /\ i.op = "add" /\ i.out \in 1 .. N /\ i.in[1] \in 1 .. N /\ i.in[2] \in 1 .. N
      BY <3>1, <2>4 DEF Instruction
    <3>3. PICK b : b = c[n - 1]
      OBVIOUS
    <3>4. PICK e : e = d[n - 1]
      OBVIOUS
    <3>5. c[n] = [b EXCEPT ![i.out] = Added(i, b)]
      BY <1>2, <2>4, <3>1, <3>3 DEF After
    <3>6. After(P, 1 .. M, d, n) = [e EXCEPT ![i.out] = Added(i, e)]
      BY <2>4, <3>1, <3>4 DEF After
    <3>7. n - 1 \in 0 .. Len(P)
      BY <1>1, <2>4
    <3>8. b = [s \in 1 .. N |-> b[s]] /\ e = [s \in 1 .. M |-> IF s \in 1 .. N THEN b[s] ELSE Stale]
      BY <1>2, <2>2, <2>4, <3>3, <3>4, <3>7
    <3>9. \A s \in 1 .. N : c[n][s] = IF s = i.out THEN Added(i, b) ELSE b[s]
      BY <3>5, <3>8
    <3>10. [e EXCEPT ![i.out] = Added(i, e)]
             = [s \in 1 .. M |-> IF s = i.out THEN Added(i, e) ELSE e[s]]
      BY <3>8
    <3>11. Added(i, e) = Added(i, b)
      <4>1. e[i.in[1]] = b[i.in[1]] /\ e[i.in[2]] = b[i.in[2]]
        BY <3>2, <3>8
      <4> QED BY <4>1 DEF Added
    <3>12. \A s \in 1 .. M : (IF s = i.out THEN Added(i, e) ELSE e[s])
                                = (IF s \in 1 .. N THEN c[n][s] ELSE Stale)
      BY <3>2, <3>8, <3>9, <3>11
    <3> QED BY <2>1, <3>6, <3>10, <3>12
  <2>5. CASE n # 0 /\ P[n].op # "add"
    <3>1. PICK i \in Instruction(N) : i = P[n]
      BY <1>1, <2>5
    <3>2. i.op # "add" /\ i.out \in [Outs -> 0 .. N]
      BY <3>1, <2>5 DEF Instruction
    <3>3. PICK b : b = c[n - 1]
      OBVIOUS
    <3>4. PICK e : e = d[n - 1]
      OBVIOUS
    <3> DEFINE Own(s) == {<<i.object, k>> : k \in {j \in Outs : i.out[j] = s}}
    <3>a. After(P, 1 .. N, c, n) = [s \in 1 .. N |-> IF \E k \in Outs : i.out[k] = s THEN Own(s) ELSE b[s]]
      BY <2>5, <3>1, <3>3 DEF After
    <3>6. After(P, 1 .. M, d, n) = [s \in 1 .. M |-> IF \E k \in Outs : i.out[k] = s THEN Own(s) ELSE e[s]]
      BY <2>5, <3>1, <3>4 DEF After
    <3> HIDE DEF Own
    <3>5. c[n] = [s \in 1 .. N |-> IF \E k \in Outs : i.out[k] = s THEN Own(s) ELSE b[s]]
      BY <1>2, <3>a
    <3>7. e = [s \in 1 .. M |-> IF s \in 1 .. N THEN b[s] ELSE Stale]
      BY <2>2, <2>5, <3>3, <3>4
    <3>8. \A s \in 1 .. M : (\E k \in Outs : i.out[k] = s) => s \in 1 .. N
      BY <3>2
    <3>9. \A s \in 1 .. M : (IF \E k \in Outs : i.out[k] = s THEN Own(s) ELSE e[s])
                                = (IF s \in 1 .. N THEN c[n][s] ELSE Stale)
      BY <3>5, <3>7, <3>8
    <3> QED BY <2>1, <3>6, <3>9
  <2> QED BY <2>3, <2>4, <2>5
<1>4. Follows(P, 1 .. M, d)
  <2>1. d = [n \in 0 .. Len(P) |-> d[n]]
    OBVIOUS
  <2> HIDE DEF d
  <2> QED BY <1>3, <2>1 DEF Follows
<1>5. \A n \in 0 .. Len(P), s \in 1 .. N : d[n][s] = c[n][s]
  OBVIOUS
<1> QED BY <1>4, <1>5

\* What an instruction leaves in the signals D, from the contents b.
Leaves(i, D, b) == IF i.op = "add" THEN [b EXCEPT ![i.out] = Added(i, b)]
                   ELSE [s \in D |-> IF \E k \in Outs : i.out[k] = s
                                     THEN {<<i.object, k>> : k \in {j \in Outs : i.out[j] = s}}
                                     ELSE b[s]]

\* One more instruction: what it leaves follows from what was there before.
LEMMA ContentLonger ==
  ASSUME NEW S, NEW P \in Seq(S), NEW D, NEW c, Follows(P, D, c), NEW i \in S
  PROVE  \E d : /\ Follows(Append(P, i), D, d)
                /\ \A n \in 0 .. Len(P) : d[n] = c[n]
                /\ d[Len(P) + 1] = Leaves(i, D, c[Len(P)])
<1> DEFINE L == Len(P)
           Q == Append(P, i)
           d == [n \in 0 .. L + 1 |-> IF n \in 0 .. L THEN c[n] ELSE Leaves(i, D, c[L])]
<1>1. /\ L \in Nat /\ Len(Q) = L + 1 /\ Q[L + 1] = i
      /\ \A n \in 1 .. L : Q[n] = P[n]
  OBVIOUS
<1>2. \A n \in 0 .. L : d[n] = c[n]
  BY <1>1
<1>3. d[L + 1] = Leaves(i, D, c[L])
  BY <1>1
<1>4. d = [n \in 0 .. Len(Q) |-> d[n]]
  BY <1>1
<1>5. \A n \in 0 .. L : c[n] = After(P, D, c, n)
  BY DEF Follows
<1> HIDE DEF d, Q, L
<1>6. ASSUME NEW n \in 0 .. Len(Q) PROVE d[n] = After(Q, D, d, n)
  <2>1. CASE n = L + 1
    <3>1. n # 0 /\ n - 1 = L /\ d[n - 1] = c[L] /\ Q[n] = i
      BY <2>1, <1>1, <1>2
    <3>2. After(Q, D, d, n) = Leaves(i, D, c[L])
      BY <3>1 DEF After, Leaves
    <3> QED BY <3>2, <2>1, <1>3
  <2>2. CASE n = 0
    <3>1. After(Q, D, d, n) = After(P, D, c, n)
      BY <2>2 DEF After
    <3> QED BY <3>1, <2>2, <1>1, <1>2, <1>5
  <2>3. CASE n \in 1 .. L
    <3>1. n \in 0 .. L /\ n # 0 /\ n - 1 \in 0 .. L /\ Q[n] = P[n] /\ d[n - 1] = c[n - 1]
      BY <2>3, <1>1, <1>2
    <3>2. After(Q, D, d, n) = After(P, D, c, n)
      BY <3>1 DEF After
    <3> QED BY <3>1, <3>2, <1>2, <1>5
  <2> QED BY <2>1, <2>2, <2>3, <1>1
<1>7. Follows(Q, D, d)
  BY <1>4, <1>6 DEF Follows
<1> QED BY <1>2, <1>3, <1>7 DEF Q, L

\* New signals and no new instruction.
LEMMA SignalsGrow ==
  ASSUME Types, Follows(program, 1 .. Len(signals), Content), signals # <<>>,
         program' = program, signals' \in Seq(SignalRec), Len(signals) <= Len(signals')
  PROVE  /\ Follows(program, 1 .. Len(signals), Content)'
         /\ \A n \in 0 .. Len(program), s \in 1 .. Len(signals) : Content'[n][s] = Content[n][s]
<1>1. /\ Len(signals) \in Nat \ {0} /\ Len(signals') \in Nat /\ Len(program) \in Nat
      /\ program \in Seq(Instruction(Len(signals)))
      /\ DOMAIN signals' = 1 .. Len(signals')
  BY DEF Types
<1>2. PICK d : /\ Follows(program, 1 .. Len(signals'), d)
               /\ \A n \in 0 .. Len(program), s \in 1 .. Len(signals) : d[n][s] = Content[n][s]
  BY <1>1, ContentWider
<1>3. Content' = d
  BY <1>1, <1>2, ContentIs, ContentOne
<1> QED BY <1>2, <1>3 DEF Follows

\* An instruction is put into the program, and maybe a signal made for it.
LEMMA ProgramGrows ==
  ASSUME Types, Follows(program, 1 .. Len(signals), Content), signals # <<>>,
         signals' \in Seq(SignalRec), Len(signals) <= Len(signals'),
         NEW i \in Instruction(Len(signals')), program' = Append(program, i)
  PROVE  /\ Follows(program, 1 .. Len(signals), Content)'
         /\ \A n \in 0 .. Len(program), s \in 1 .. Len(signals) : Content'[n][s] = Content[n][s]
         /\ \E b : /\ b = [s \in 1 .. Len(signals') |-> b[s]]
                   /\ \A s \in 1 .. Len(signals) : b[s] = Now[s]
                   /\ Now' = Leaves(i, 1 .. Len(signals'), b)
<1>1. /\ Len(signals) \in Nat \ {0} /\ Len(signals') \in Nat /\ Len(program) \in Nat
      /\ program \in Seq(Instruction(Len(signals)))
      /\ DOMAIN signals' = 1 .. Len(signals')
  BY DEF Types
<1>2. PICK c : /\ Follows(program, 1 .. Len(signals'), c)
               /\ \A n \in 0 .. Len(program), s \in 1 .. Len(signals) : c[n][s] = Content[n][s]
  BY <1>1, ContentWider
<1> DEFINE S == Instruction(Len(signals)) \cup {i}
<1>3. program \in Seq(S) /\ i \in S
  BY <1>1
<1> HIDE DEF S
<1>4. PICK d : /\ Follows(Append(program, i), 1 .. Len(signals'), d)
               /\ \A n \in 0 .. Len(program) : d[n] = c[n]
               /\ d[Len(program) + 1] = Leaves(i, 1 .. Len(signals'), c[Len(program)])
  BY <1>2, <1>3, ContentLonger
<1>5. program' \in Seq(S) /\ Len(program') \in Nat /\ Len(program') = Len(program) + 1
  BY <1>3
<1>6. Content' = d
  BY <1>1, <1>4, <1>5, ContentIs, ContentOne
<1>7. c[Len(program)] = [s \in 1 .. Len(signals') |-> c[Len(program)][s]]
  <2>1. Len(program) \in 0 .. Len(program)
    BY <1>1
  <2>2. \A n \in 0 .. Len(program) : c[n] = [s \in 1 .. Len(signals') |-> c[n][s]]
    <3>1. PICK D : D = 1 .. Len(signals')
      OBVIOUS
    <3>2. Follows(program, D, c) /\ Len(program) \in Nat
      BY <3>1, <1>1, <1>2
    <3>3. \A n \in 0 .. Len(program) : c[n] = [s \in D |-> c[n][s]]
      BY ONLY <3>2, ContentDomain
    <3> QED BY <3>1, <3>3
  <2> QED BY ONLY <2>1, <2>2
<1>8. Now' = Leaves(i, 1 .. Len(signals'), c[Len(program)])
  BY <1>4, <1>5, <1>6 DEF Now
<1>9. \A s \in 1 .. Len(signals) : c[Len(program)][s] = Now[s]
  BY <1>1, <1>2 DEF Now
<1>10. \A n \in 0 .. Len(program), s \in 1 .. Len(signals) : Content'[n][s] = Content[n][s]
  BY <1>2, <1>4, <1>6
<1>11. Follows(program, 1 .. Len(signals), Content)'
  BY <1>4, <1>6 DEF Follows
<1> QED BY <1>7, <1>8, <1>9, <1>10, <1>11

-----------------------------------------------------------------------------
(* dsp_graph_schedule_node.                                                 *)

\* The inputs of one object are taken out of the readers of a signal.
LEMMA Rows == ASSUME NEW A, IsFiniteSet(A), NEW I, NEW o, {o} \X I \subseteq A
              PROVE  /\ IsFiniteSet(I) /\ Cardinality(I) \in Nat
                     /\ Cardinality(A \ ({o} \X I)) = Cardinality(A) - Cardinality(I)
                     /\ Cardinality(A \ ({o} \X I)) \in Nat
<1> DEFINE R == {o} \X I
<1>1. IsFiniteSet(R)
  BY FS_Subset
<1>2. IsFiniteSet(I)
  <2> DEFINE f == [x \in R |-> x[2]]
  <2>1. f \in Surjection(R, I)
    <3>1. \A i \in I : <<o, i>> \in R /\ f[<<o, i>>] = i
      OBVIOUS
    <3>2. f \in [R -> I]
      OBVIOUS
    <3> HIDE DEF f, R
    <3> QED BY <3>1, <3>2 DEF Surjection
  <2> HIDE DEF f, R
  <2> QED BY <1>1, <2>1, FS_Surjection
<1>3. Cardinality({o}) = 1 /\ IsFiniteSet({o})
  BY FS_Singleton
<1>4. Cardinality(I) \in Nat
  BY <1>2, FS_CardinalityType
<1>5. Cardinality(R) = Cardinality(I)
  <2>1. Cardinality(R) = Cardinality({o}) * Cardinality(I)
    BY <1>2, <1>3, FS_Product
  <2> QED BY <2>1, <1>3, <1>4
<1>6. A \cap R = R
  OBVIOUS
<1> HIDE DEF R
<1>7. Cardinality(A \ R) = Cardinality(A) - Cardinality(R) /\ IsFiniteSet(A \ R)
  BY <1>1, <1>6, FS_Difference
<1>8. Cardinality(A \ R) \in Nat
  BY <1>7, FS_CardinalityType
<1> QED BY <1>2, <1>4, <1>5, <1>7, <1>8 DEF R

\* The set of readers of a signal is finite.
LEMMA ReadersFinite == ASSUME Types, NEW s
                       PROVE  IsFiniteSet(Readers(s)) /\ Cardinality(Readers(s)) \in Nat
<1>1. IsFiniteSet(Objects \X Ins)
  BY GraphAssumption, FS_Product
<1>2. Readers(s) \subseteq Objects \X Ins
  BY DEF Readers, ToSet, Types
<1> QED BY <1>1, <1>2, FS_Subset, FS_CardinalityType

\* The inputs of an object that is scheduled give up their references: the
\* counts are then the numbers of the other readers.
LEMMA NodeCounts ==
  ASSUME Types, Graph, Counts, ~Scheduling("outputs"), ~Scheduling("edges"),
         NEW o \in Objects, o \in ToSet(objects), Ready(o), objects' = objects,
         in' = [in EXCEPT ![o] = [i \in Ins |-> Input(o, i)]],
         pred_cnt' = [pred_cnt EXCEPT ![o] = SCHEDULED],
         signals' = Unreferenced(o)
  PROVE  /\ signals' \in Seq(SignalRec) /\ Len(signals') = Len(signals)
         /\ signals'[sig_zero].refcnt = 1
         /\ \A s \in 1 .. Len(signals) : s # sig_zero => signals'[s].refcnt = Cardinality(Readers(s)')
         /\ \A s \in 1 .. Len(signals) : signals'[s].refcnt \in Nat
<1>1. /\ Len(signals) \in Nat /\ DOMAIN signals = 1 .. Len(signals) /\ signals \in Seq(SignalRec)
      /\ \A s \in 1 .. Len(signals) : /\ signals[s] \in SignalRec
                                      /\ signals[s].refcnt \in Int /\ signals[s].length \in Nat
      /\ signals # <<>> /\ signals[sig_zero].refcnt = 1
  BY Facts DEF Types, Counts
<1>2. ASSUME NEW s \in 1 .. Len(signals), s # sig_zero
      PROVE  /\ signals[s].refcnt = Cardinality(Readers(s))
             /\ ~Pending(s)
             /\ Readers(s)' = Readers(s) \ ({o} \X {i \in Ins : in[o][i] = s})
             /\ {o} \X {i \in Ins : in[o][i] = s} \subseteq Readers(s)
  <2>1. signals[s].refcnt = Cardinality(Readers(s))
    BY <1>2 DEF Counts
  <2>2. ~Pending(s)
    BY <2>1, ReadersFinite DEF Pending, SIGNAL_PENDING
  <2>3. pred_cnt[o] # SCHEDULED /\ pred_cnt'[o] = SCHEDULED
    BY DEF Ready, SCHEDULED, Types
  <2>4. \A p \in Objects : p # o => in'[p] = in[p] /\ pred_cnt'[p] = pred_cnt[p]
    BY DEF Types
  <2>5. \A p \in ToSet(objects) : p \in Objects
    BY DEF Types, ToSet
  <2>6. {o} \X {i \in Ins : in[o][i] = s} \subseteq Readers(s)
    BY <2>3 DEF Readers
  <2>7. Readers(s)' = Readers(s) \ ({o} \X {i \in Ins : in[o][i] = s})
    <3>1. ASSUME NEW p \in ToSet(objects), NEW i \in Ins
          PROVE  (pred_cnt'[p] # SCHEDULED /\ in'[p][i] = s)
                    <=> (pred_cnt[p] # SCHEDULED /\ in[p][i] = s /\ p # o)
      <4>1. CASE p = o
        BY <4>1, <2>3
      <4>2. CASE p # o
        BY <4>2, <2>4, <2>5
      <4> QED BY <4>1, <4>2
    <3>2. \A x \in ToSet(objects) \X Ins : x \in {o} \X {i \in Ins : in[o][i] = s}
                                              <=> (x[1] = o /\ in[x[1]][x[2]] = s)
      OBVIOUS
    <3>3. \A x \in ToSet(objects) \X Ins : x[1] \in ToSet(objects) /\ x[2] \in Ins
      OBVIOUS
    <3>4. \A x \in ToSet(objects) \X Ins :
             (pred_cnt'[x[1]] # SCHEDULED /\ in'[x[1]][x[2]] = s)
               <=> (pred_cnt[x[1]] # SCHEDULED /\ in[x[1]][x[2]] = s /\ x[1] # o)
      BY <3>1, <3>3
    <3>5. Readers(s)' = {x \in ToSet(objects) \X Ins : pred_cnt'[x[1]] # SCHEDULED /\ in'[x[1]][x[2]] = s}
      BY DEF Readers
    <3> QED BY <3>2, <3>4, <3>5 DEF Readers
  <2> QED BY <2>1, <2>2, <2>6, <2>7
<1>3. ASSUME NEW s \in 1 .. Len(signals), s # sig_zero
      PROVE  signals'[s].refcnt = Cardinality(Readers(s)') /\ signals'[s].refcnt \in Nat
             /\ signals'[s] \in SignalRec
  <2> DEFINE I == {i \in Ins : in[o][i] = s}
  <2>1. signals'[s] = [signals[s] EXCEPT !.refcnt = @ - Cardinality(I)]
    BY <1>1, <1>2, <1>3 DEF Unreferenced, Pending
  <2> HIDE DEF I
  <2>2. Cardinality(I) \in Nat /\ Cardinality(Readers(s)') = Cardinality(Readers(s)) - Cardinality(I)
        /\ Cardinality(Readers(s)') \in Nat
    <3>1. IsFiniteSet(Readers(s)) /\ {o} \X I \subseteq Readers(s)
          /\ Readers(s)' = Readers(s) \ ({o} \X I)
      BY <1>2, <1>3, ReadersFinite DEF I
    <3>2. PICK A : A = Readers(s)
      OBVIOUS
    <3>3. IsFiniteSet(A) /\ {o} \X I \subseteq A
      BY <3>1, <3>2
    <3>4. /\ Cardinality(I) \in Nat /\ Cardinality(A \ ({o} \X I)) \in Nat
          /\ Cardinality(A \ ({o} \X I)) = Cardinality(A) - Cardinality(I)
      BY ONLY <3>3, Rows
    <3> QED BY <3>1, <3>2, <3>4
  <2>3. signals'[s].refcnt = signals[s].refcnt - Cardinality(I)
    BY <2>1, <1>1 DEF SignalRec
  <2>4. signals'[s].refcnt = Cardinality(Readers(s)')
    BY <2>2, <2>3, <1>2, <1>3
  <2>5. signals'[s] \in SignalRec
    <3>1. PICK m \in Nat : m = signals[s].refcnt - Cardinality(I)
      BY <2>2, <2>3, <2>4
    <3>2. signals'[s] = [signals[s] EXCEPT !.refcnt = m]
      BY <2>1, <3>1, <1>1 DEF SignalRec
    <3>3. PICK r \in SignalRec : r = signals[s]
      BY <1>1
    <3>4. [r EXCEPT !.refcnt = m] \in SignalRec
      BY <3>1 DEF SignalRec
    <3> QED BY <3>2, <3>3, <3>4
  <2> QED BY <2>2, <2>4, <2>5
<1>4. sig_zero \in 1 .. Len(signals) /\ signals'[sig_zero] = signals[sig_zero]
  BY <1>1 DEF Unreferenced, sig_zero
<1>5. DOMAIN signals' = 1 .. Len(signals) /\ signals' = [s \in 1 .. Len(signals) |-> signals'[s]]
  BY <1>1 DEF Unreferenced
<1>6. \A s \in 1 .. Len(signals) : signals'[s] \in SignalRec /\ signals'[s].refcnt \in Nat
  BY <1>1, <1>3, <1>4
<1>7. signals' \in Seq(SignalRec) /\ Len(signals') = Len(signals)
  BY <1>1, <1>5, <1>6
<1> QED BY <1>1, <1>3, <1>4, <1>6, <1>7

\* An object that is ready is scheduled, by dsp_graph_schedule or by the walk
\* of dsp_graph_schedule_depth over what hears it.
LEMMA NodeStarts ==
  ASSUME IInv, phase = "schedule", ~Scheduling("outputs"), ~Scheduling("edges"),
         frames # <<>> => Top.walk = "depth",
         NEW o \in ToSet(objects), Ready(o), ScheduleNode(o),
         UNCHANGED <<objects, conns, status, phase, out, program>>,
         roots' \in Seq(Objects), ToSet(roots') \subseteq ToSet(roots),
         \A p \in ToSet(roots) : p = o \/ p \in ToSet(roots')
  PROVE  IInv'
<1> DEFINE g == [object |-> o, outlet |-> 1, at |-> 1, walk |->
                 IF Cardinality(Lengths(o)) <= 1 THEN "outputs" ELSE "edges"]
<1>1. /\ Types /\ Graph /\ Stack /\ Counted /\ Reached /\ LoopsWait
      /\ PutOnce /\ PutScheduled /\ PutBehind /\ Counts /\ Waiting /\ Outputs /\ Contents
      /\ o \in Objects /\ pred_cnt[o] = 0 /\ pred_cnt[o] # SCHEDULED
      /\ ToSet(objects) \subseteq Objects
  BY DEF IInv, Ready, SCHEDULED, Types, ToSet
<1>2. /\ Edges = EdgesOf(conns) /\ NoDouble(conns)
      /\ conns \in [Objects \X Outs -> Seq(Conn)] /\ frames \in Seq(Frame)
      /\ \A e \in Edges : e[1] \in Objects /\ e[3].dst \in Objects
      /\ \A E \in SUBSET Edges : IsFiniteSet(E)
      /\ Len(frames) \in Nat
      /\ \A j \in 1 .. Len(frames) : frames[j] \in Frame /\ frames[j].object \in Objects
      /\ frames # <<>> => Top = frames[Len(frames)]
      /\ Len(signals) \in Nat /\ DOMAIN signals = 1 .. Len(signals)
  BY <1>1, Facts DEF Types, Frame
<1>3. frames' = Append(frames, g)
  BY DEF ScheduleNode
<1>4. /\ g \in Frame /\ g.object = o /\ g.outlet = 1 /\ g.at = 1 /\ g.walk \in {"outputs", "edges"}
  BY <1>1 DEF Frame
<1> HIDE DEF g
<1>5. /\ frames' \in Seq(Frame) /\ frames' # <<>> /\ Len(frames') = Len(frames) + 1
      /\ frames'[Len(frames) + 1] = g /\ Top' = g
      /\ \A j \in 1 .. Len(frames) : frames'[j] = frames[j]
  BY <1>2, <1>3, <1>4, TopPush
<1>6. /\ pred_cnt' \in [Objects -> Int] /\ pred_cnt'[o] = SCHEDULED
      /\ \A p \in Objects : p # o => pred_cnt'[p] = pred_cnt[p] /\ in'[p] = in[p]
      /\ \A p \in Objects : pred_cnt'[p] # SCHEDULED => p # o /\ pred_cnt[p] # SCHEDULED
      /\ \A i \in Ins : in'[o][i] = Input(o, i)
  BY <1>1 DEF ScheduleNode, Types, SCHEDULED
<1>7. /\ signals' \in Seq(SignalRec) /\ Len(signals') = Len(signals)
      /\ signals'[sig_zero].refcnt = 1
      /\ \A s \in 1 .. Len(signals) : s # sig_zero => signals'[s].refcnt = Cardinality(Readers(s)')
      /\ \A s \in 1 .. Len(signals) : signals'[s].refcnt \in Nat
      /\ signals # <<>> /\ sig_zero \in 1 .. Len(signals)
  <2>1. signals # <<>> /\ sig_zero \in 1 .. Len(signals)
    BY <1>1, <1>2 DEF Counts, sig_zero, Types
  <2> QED BY <2>1, <1>1, NodeCounts DEF ScheduleNode
<1>8. Edges' = Edges
  BY DEF Edges
<1>9. Into(o, Unpassed) = {}
  <2>1. Cardinality(Into(o, Unpassed)) = 0
    BY <1>1 DEF Counted
  <2>2. IsFiniteSet(Into(o, Unpassed))
    BY <1>2 DEF Into, Unpassed
  <2> QED BY <2>1, <2>2, FS_EmptySet
<1>10. Unpassed' = Unpassed
  <2>1. ASSUME NEW e \in Edges
        PROVE  (\/ pred_cnt'[e[1]] # SCHEDULED
                \/ Scheduling("outputs")' /\ e[1] = Top'.object
                \/ Scheduling("edges")' /\ AheadIn(conns', Top', e))
               <=> pred_cnt[e[1]] # SCHEDULED
    <3>1. CASE e[1] = o
      <4>1. AheadIn(conns, g, e)
        BY <3>1, <1>2, <1>4, WalkBegin
      <4>2. Scheduling("outputs")' \/ Scheduling("edges")'
        BY <1>4, <1>5 DEF Scheduling
      <4> QED BY <4>1, <4>2, <3>1, <1>1, <1>4, <1>5
    <3>2. CASE e[1] # o
      <4>1. ~AheadIn(conns, g, e)
        <5>1. g.object # e[1]
          BY <3>2, <1>4
        <5>2. SUFFICES ASSUME AheadIn(conns, g, e) PROVE FALSE
          OBVIOUS
        <5>3. PICK k \in Outs : \E i \in 1 .. Len(conns[<<g.object, k>>]) :
                                   e = <<g.object, k, conns[<<g.object, k>>][i]>>
          BY <5>2 DEF AheadIn
        <5> QED BY <5>1, <5>3
      <4> QED BY <4>1, <3>2, <1>2, <1>4, <1>5, <1>6
    <3> QED BY <3>1, <3>2
  <2>2. Unpassed' = {e \in Edges : \/ pred_cnt'[e[1]] # SCHEDULED
                                   \/ Scheduling("outputs")' /\ e[1] = Top'.object
                                   \/ Scheduling("edges")' /\ AheadIn(conns', Top', e)}
    BY <1>8 DEF Unpassed, Ahead
  <2>3. Unpassed = {e \in Edges : pred_cnt[e[1]] # SCHEDULED}
    BY DEF Unpassed
  <2> QED BY <2>1, <2>2, <2>3
<1>11. Counted'
  <2>1. \A p \in Objects : Into(p, Unpassed)' = Into(p, Unpassed)
    BY <1>10 DEF Into
  <2>2. ASSUME NEW p \in Objects
        PROVE  /\ pred_cnt'[p] = SCHEDULED => Into(p, Unpassed) = {}
               /\ pred_cnt'[p] # SCHEDULED => pred_cnt'[p] = Cardinality(Into(p, Unpassed))
    <3>1. CASE p = o
      BY <3>1, <1>6, <1>9
    <3>2. CASE p # o
      BY <3>2, <1>1, <1>6 DEF Counted
    <3> QED BY <3>1, <3>2
  <2> QED BY <2>1, <2>2, <1>10 DEF Counted, Into
<1>12. Types'
  <2>1. in' \in [Objects -> [Ins -> 0 .. Len(signals)]]
    <3>1. \A i \in Ins : Input(o, i) \in 0 .. Len(signals)
      BY <1>1, <1>2, <1>7 DEF Input, Types
    <3>2. [i \in Ins |-> Input(o, i)] \in [Ins -> 0 .. Len(signals)]
      BY <3>1
    <3> QED BY <3>2, <1>1 DEF ScheduleNode, Types
  <2>2. \A s \in 1 .. Len(signals') : signals'[s].refcnt >= SIGNAL_PENDING
    BY <1>2, <1>7 DEF SIGNAL_PENDING
  <2> QED BY <2>1, <2>2, <1>1, <1>5, <1>6, <1>7 DEF Types
<1>13. Graph'
  <2>1. objects' = objects /\ conns' = conns
    OBVIOUS
  <2> QED BY <2>1, <1>1, <1>8 DEF Graph
<1>14. Stack'
  <2>1. ASSUME NEW j \in 1 .. Len(frames')
        PROVE  /\ pred_cnt'[frames'[j].object] = SCHEDULED
               /\ j < Len(frames') => frames'[j].walk = "depth"
               /\ frames'[j].walk = "outputs" => frames'[j].at = 1
    <3>1. CASE j = Len(frames) + 1
      BY <3>1, <1>4, <1>5, <1>6
    <3>2. CASE j \in 1 .. Len(frames)
      <4>1. pred_cnt[frames[j].object] = SCHEDULED /\ frames[j].object \in Objects /\ frames'[j] = frames[j]
        BY <3>2, <1>1, <1>2, <1>5 DEF Stack
      <4>2. frames[j].walk = "depth"
        <5>1. j < Len(frames) \/ j = Len(frames)
          BY <3>2, <1>2
        <5>2. frames # <<>>
          BY <3>2
        <5> QED BY <5>1, <5>2, <1>1, <1>2 DEF Stack
      <4>3. pred_cnt'[frames[j].object] = SCHEDULED
        BY <4>1, <1>6
      <4> QED BY <4>1, <4>2, <4>3
    <3> QED BY <3>1, <3>2, <1>2, <1>5
  <2>2. ToSet(roots)' \subseteq ToSet(objects)'
    BY <1>1 DEF Stack
  <2> QED BY <2>1, <2>2 DEF Stack
<1>15. Reached'
  <2>1. ASSUME NEW p \in ToSet(objects), pred_cnt'[p] = 0 PROVE Met(p)'
    <3>1. p # o /\ pred_cnt[p] = 0 /\ p \in Objects
      BY <2>1, <1>1, <1>6 DEF SCHEDULED
    <3>2. Met(p)
      BY <3>1, <1>1 DEF Reached
    <3>3. CASE p \in ToSet(roots)
      BY <3>1, <3>3 DEF Met
    <3>4. ASSUME NEW j \in 1 .. Len(frames), NEW e \in Edges, e[1] = frames[j].object, e[3].dst = p,
                 frames[j].walk # "depth" \/ Ahead(frames[j], e)
          PROVE  Met(p)'
      <4>1. j \in 1 .. Len(frames') /\ frames'[j] = frames[j] /\ e \in Edges'
        BY <1>2, <1>5, <1>8
      <4>2. frames'[j].walk # "depth" \/ AheadIn(conns', frames'[j], e)
        BY <4>1, <3>4 DEF Ahead
      <4> QED BY <4>1, <4>2, <3>4 DEF Met, Ahead
    <3> QED BY <3>2, <3>3, <3>4 DEF Met
  <2> QED BY <2>1 DEF Reached
<1>16. LoopsWait'
  <2>1. ASSUME NEW B \in SUBSET ToSet(objects), Blocked(B), NEW p \in B PROVE pred_cnt'[p] # SCHEDULED
    <3>1. p # o
      <4>1. SUFFICES ASSUME o \in B PROVE FALSE
        OBVIOUS
      <4>2. PICK e \in Edges : e[1] \in B /\ e[3].dst = o
        BY <4>1, <2>1 DEF Blocked
      <4>3. pred_cnt[e[1]] # SCHEDULED
        BY <4>2, <2>1, <1>1 DEF LoopsWait
      <4> QED BY <4>2, <4>3, <1>9 DEF Into, Unpassed
    <3> QED BY <3>1, <2>1, <1>1, <1>6 DEF LoopsWait
  <2>2. \A B : Blocked(B)' <=> Blocked(B)
    BY <1>8 DEF Blocked
  <2> QED BY <2>1, <2>2 DEF LoopsWait
<1>17. Puts' = Puts /\ PutOnce' /\ PutBehind'
  <2>1. Puts' = Puts
    BY DEF Puts
  <2> QED BY <2>1, <1>1, <1>8 DEF PutOnce, PutBehind
<1>18. PutScheduled'
  <2>1. ASSUME NEW n \in Puts PROVE program[n].object # o /\ pred_cnt'[program[n].object] = SCHEDULED
    <3>1. pred_cnt[program[n].object] = SCHEDULED
      BY <1>1 DEF PutScheduled
    <3>2. program[n].object # o
      BY <3>1, <1>1
    <3>3. program[n].object \in Objects
      <4>1. program[n] \in Instruction(Len(signals)) /\ program[n].op = "put"
        BY <1>1 DEF Types, Puts
      <4> QED BY <4>1 DEF Instruction
    <3> QED BY <3>1, <3>2, <3>3, <1>6
  <2> QED BY <2>1, <1>4, <1>5, <1>17 DEF PutScheduled
<1>19. Counts'
  BY <1>7, <1>5, <1>1 DEF Counts
<1>20. Waiting'
  BY <1>1, <1>6 DEF Waiting
<1>21. Outputs'
  <2>a. \A k \in Outs : ~(k < 1)
    BY GraphAssumption
  <2>1. \A k \in Outs : out[o][k] = Nil /\ ~(k < 1)
    BY <2>a, <1>1 DEF Waiting
  <2>2. \A i \in Ins : in'[o][i] # Nil
    BY <1>6 DEF Input, sig_zero, Nil
  <2>3. Top'.object = o /\ Top'.outlet = 1 /\ out' = out
    BY <1>4, <1>5
  <2> QED BY <2>1, <2>2, <2>3 DEF Outputs
<1>22. Contents'
  <2>1. Content' = Content
    <3>1. DOMAIN signals' = DOMAIN signals
      BY <1>2, <1>7
    <3> QED BY <3>1, ContentIs
  <2>2. Now' = Now /\ Now[sig_zero] = {}
    <3>1. Len(program) \in 0 .. Len(program)
      BY <1>1 DEF Types
    <3> QED BY <2>1, <3>1, <1>1 DEF Now, Contents
  <2>a. LengthsKept
    <3>1. ASSUME NEW s \in 1 .. Len(signals) PROVE signals'[s].length = signals[s].length
      <4>1. PICK r \in SignalRec : r = signals[s]
        BY <1>1 DEF Types
      <4>2. PICK n : n = signals[s].refcnt - Cardinality({i \in Ins : in[o][i] = s})
        OBVIOUS
      <4>3. signals'[s] = IF s = sig_zero \/ signals[s].refcnt = SIGNAL_PENDING THEN r
                          ELSE [r EXCEPT !.refcnt = n]
        <5>1. s \in DOMAIN signals
          BY <1>2
        <5> QED BY <5>1, <4>1, <4>2 DEF ScheduleNode, Unreferenced
      <4>4. [r EXCEPT !.refcnt = n].length = r.length
        BY DEF SignalRec
      <4> QED BY <4>1, <4>3, <4>4
    <3> QED BY <3>1 DEF LengthsKept
  <2>3. Follows(program, 1 .. Len(signals), Content)'
    BY <2>1, <1>7, <1>1 DEF Follows, Contents
  <2>4. \A p, i : Passed(p, i)' = Passed(p, i)
    BY <1>8, <1>10 DEF Passed
  <2>5. \A p, i : Sources(p, i)' = Sources(p, i)
    BY <1>8 DEF Sources
  <2>6. InputsSum'
    <3>1. ASSUME NEW p \in ToSet(objects), NEW i \in Ins, pred_cnt'[p] # SCHEDULED
          PROVE  InletSum(p, i)'
      <4>1. in'[p] = in[p] /\ pred_cnt[p] # SCHEDULED /\ p \in Objects
        BY <3>1, <1>1, <1>6
      <4>2. InletSum(p, i)
        BY <4>1, <3>1, <1>1 DEF Contents, InputsSum
      <4> QED BY <4>1, <4>2, <2>2, <2>4, <2>a, <1>1, InletKept
    <3> QED BY <3>1 DEF InputsSum
  <2>b. \A p, i : Even(p, i)' <=> Even(p, i)
    BY <2>a, <2>5, <1>1, EvenStays
  <2>7. \A i \in Ins : Even(o, i) => Now[in'[o][i]] = Sources(o, i)
    <3>1. ASSUME NEW i \in Ins PROVE Passed(o, i) = Sources(o, i)
      BY <1>9 DEF Passed, Sources, Into
    <3>2. ASSUME NEW i \in Ins, SameLength(Passed(o, i)) PROVE Now[in'[o][i]] = Passed(o, i)
      <4>1. CASE in[o][i] = Nil
        BY <4>1, <2>2, <1>1, <1>6 DEF Contents, InputsSum, InletSum, Input
      <4>2. CASE in[o][i] # Nil
        BY <4>2, <3>2, <2>2, <1>1, <1>6 DEF Contents, InputsSum, InletSum, Input
      <4> QED BY <4>1, <4>2
    <3>3. \A i \in Ins : Even(o, i) => SameLength(Passed(o, i))
      BY <3>1, EvenIs
    <3> QED BY <3>1, <3>2, <3>3
  <2>8. TopHears'
    <3>1. \A k \in Outs : out'[o][k] = Nil
      BY <1>1 DEF Waiting
    <3>2. Top'.object = o
      BY <1>4, <1>5
    <3>3. \A i \in Ins : Even(o, i)' => Now'[in'[o][i]] = Sources(o, i)'
      BY <2>2, <2>5, <2>7, <2>b
    <3>4. (\A i \in Ins : Even(Top.object, i) => Now[in[Top.object][i]] = Sources(Top.object, i))'
      BY <3>2, <3>3 DEF Even, Sources
    <3> QED BY <3>1, <3>2, <3>4 DEF TopHears
  <2>9. Heard'
    BY <2>1, <2>5, <2>b, <1>1, <1>17 DEF Contents, Heard
  <2>c. (\A n \in 0 .. Len(program) : Content[n][sig_zero] = {})'
    BY <2>1, <1>1 DEF Contents
  <2> QED BY <2>3, <2>6, <2>8, <2>9, <2>c DEF Contents
<1> QED BY <1>11, <1>12, <1>13, <1>14, <1>15, <1>16, <1>17, <1>18, <1>19, <1>20, <1>21, <1>22 DEF IInv

\* dsp_graph_schedule treats the next object of the list.
LEMMA RootStep == ASSUME IInv, Root PROVE IInv'
<1>1. /\ phase = "schedule" /\ frames = <<>> /\ roots # <<>> /\ roots' = Tail(roots)
      /\ UNCHANGED <<objects, conns, status, phase, out, program>>
      /\ Types /\ Stack /\ roots \in Seq(Objects)
      /\ \A w : ~Scheduling(w)
  BY DEF Root, graphVars, IInv, Types, Scheduling
<1>2. CASE Ready(Head(roots))
  <2>1. ScheduleNode(Head(roots))
    BY <1>2 DEF Root
  <2>2. /\ roots' \in Seq(Objects) /\ Head(roots) \in ToSet(roots) /\ ToSet(roots') \subseteq ToSet(roots)
        /\ \A o \in ToSet(roots) : o = Head(roots) \/ o \in ToSet(roots')
    BY <1>1, TailSet
  <2>3. Head(roots) \in ToSet(objects)
    BY <2>2, <1>1 DEF Stack
  <2> QED BY <2>1, <2>2, <2>3, <1>1, <1>2, NodeStarts
<1>3. CASE ~Ready(Head(roots))
  <2>1. UNCHANGED <<in, signals, pred_cnt, frames>>
    BY <1>3 DEF Root
  <2> QED BY <2>1, <1>1, <1>3, RootMoves
<1> QED BY <1>2, <1>3

\* dsp_graph_schedule_depth treats the next connection.
LEMMA DepthStep == ASSUME IInv, Depth PROVE IInv'
<1>1. /\ phase = "schedule" /\ frames # <<>> /\ Top.walk = "depth" /\ InWalk("depth") /\ AtEdge
      /\ UNCHANGED <<objects, conns, status, phase, roots, out, program>>
      /\ Types /\ Graph /\ Stack /\ roots \in Seq(Objects)
      /\ ~Scheduling("outputs") /\ ~Scheduling("edges")
  BY DEF Depth, graphVars, IInv, Types, Scheduling, InWalk
<1>2. Here[Top.at].dst \in ToSet(objects)
  <2>1. /\ Top \in Frame /\ Top.object \in Objects /\ Top.outlet \in Outs
        /\ Edges = EdgesOf(conns) /\ conns \in [Objects \X Outs -> Seq(Conn)]
    BY <1>1, Facts DEF AtEdge, Types
  <2>2. Top.at \in 1 .. Len(conns[<<Top.object, Top.outlet>>])
    <3>1. Top.at \in Nat \ {0} /\ conns[<<Top.object, Top.outlet>>] \in Seq(Conn)
      BY <2>1 DEF Frame
    <3> QED BY <3>1, <1>1 DEF AtEdge, Here
  <2>3. <<Top.object, Top.outlet, conns[<<Top.object, Top.outlet>>][Top.at]>> \in Edges
    BY <2>1, <2>2, EdgesAre
  <2>4. PICK c : c = conns[<<Top.object, Top.outlet>>][Top.at]
    OBVIOUS
  <2>5. <<Top.object, Top.outlet, c>>[3].dst \in ToSet(objects)
    BY <2>3, <2>4, <1>1 DEF Graph
  <2> QED BY <2>4, <2>5 DEF Here
<1>3. CASE Ready(Here[Top.at].dst)
  <2>1. ScheduleNode(Here[Top.at].dst)
    BY <1>3 DEF Depth
  <2> QED BY <2>1, <1>1, <1>2, <1>3, NodeStarts
<1>4. CASE ~Ready(Here[Top.at].dst)
  <2>1. Moved /\ UNCHANGED <<in, signals, pred_cnt>>
    BY <1>4 DEF Depth
  <2> QED BY <2>1, <1>1, <1>4, DepthMoves
<1> QED BY <1>3, <1>4

\* The last part of dsp_graph_schedule_node: the outputs nobody reads are free.
LEMMA EdgesEndStep == ASSUME IInv, EdgesEnd PROVE IInv'
<1> DEFINE g == [Top EXCEPT !.walk = "depth", !.outlet = 1, !.at = 1]
<1>1. /\ Types /\ Graph /\ Stack /\ Counted /\ Reached /\ LoopsWait
      /\ PutOnce /\ PutScheduled /\ PutBehind /\ Counts /\ Waiting /\ Outputs /\ Contents
      /\ phase = "schedule" /\ frames # <<>> /\ frames \in Seq(Frame)
      /\ Top.walk = "edges" /\ Top.outlet \notin Outs
      /\ UNCHANGED <<objects, conns, status, phase, roots, pred_cnt, in, out, program>>
      /\ conns \in [Objects \X Outs -> Seq(Conn)]
  BY DEF IInv, EdgesEnd, InWalk, Types, graphVars
<1>2. /\ Edges = EdgesOf(conns) /\ NoDouble(conns) /\ Top = frames[Len(frames)] /\ Top \in Frame
      /\ Len(frames) \in 1 .. Len(frames) /\ DOMAIN frames = 1 .. Len(frames)
      /\ Len(signals) \in Nat /\ DOMAIN signals = 1 .. Len(signals)
      /\ \A s \in 1 .. Len(signals) : /\ signals[s] \in SignalRec
                                      /\ signals[s].refcnt \in Int /\ signals[s].length \in Nat
  BY <1>1, Facts
<1>3. g \in Frame /\ g.object = Top.object /\ g.outlet = 1 /\ g.at = 1 /\ g.walk = "depth"
  <2>1. g.object = Top.object /\ g.outlet = 1 /\ g.at = 1 /\ g.walk = "depth"
    BY <1>2 DEF Frame
  <2>2. g = [x \in {"object", "outlet", "at", "walk"} |-> g[x]]
    BY <1>2 DEF Frame
  <2> HIDE DEF g
  <2>3. Top.object \in Objects
    BY <1>2 DEF Frame
  <2> QED BY <2>1, <2>2, <2>3, IsFrame
<1>4. frames' = [frames EXCEPT ![Len(frames)] = g]
  BY <1>2 DEF EdgesEnd
<1> HIDE DEF g
<1>5. /\ frames' \in Seq(Frame) /\ frames' # <<>> /\ Top' = g
  BY <1>1, <1>3, <1>4, TopSet
<1>6. /\ ~Scheduling("outputs") /\ Scheduling("edges")
      /\ ~Scheduling("outputs")' /\ ~Scheduling("edges")'
  BY <1>1, <1>3, <1>5 DEF Scheduling
<1>7. ASSUME NEW s \in 1 .. Len(signals)
      PROVE  /\ signals'[s] \in SignalRec
             /\ signals'[s].refcnt >= SIGNAL_PENDING
             /\ s = sig_zero => signals'[s] = signals[s]
             /\ s # sig_zero => signals'[s].refcnt = Cardinality(Readers(s))
  <2>1. CASE (\E k \in Outs : out[Top.object][k] = s) /\ Pending(s)
    <3>1. signals'[s] = [signals[s] EXCEPT !.refcnt = 0]
      BY <2>1, <1>2 DEF EdgesEnd, Pending
    <3>2. PICK r \in SignalRec : r = signals[s]
      BY <1>2
    <3>3. [r EXCEPT !.refcnt = 0] \in SignalRec /\ [r EXCEPT !.refcnt = 0].refcnt = 0
      BY DEF SignalRec
    <3>4. s # sig_zero
      BY <2>1, <1>1 DEF Counts, Pending, SIGNAL_PENDING
    <3>5. Cardinality(Readers(s)) \in Nat
      BY <1>1, ReadersFinite
    <3>6. Readers(s) = {}
      BY <2>1, <3>4, <3>5, <1>1 DEF Counts, Pending, SIGNAL_PENDING
    <3>7. Cardinality(Readers(s)) = 0
      BY <3>6, FS_EmptySet
    <3> QED BY <3>1, <3>2, <3>3, <3>4, <3>7 DEF SIGNAL_PENDING
  <2>2. CASE ~((\E k \in Outs : out[Top.object][k] = s) /\ Pending(s))
    <3>1. signals'[s] = signals[s]
      BY <2>2, <1>2 DEF EdgesEnd, Pending
    <3>2. s # sig_zero => signals[s].refcnt = Cardinality(Readers(s))
      BY <2>2, <1>1 DEF Counts
    <3> QED BY <3>1, <3>2, <1>1, <1>2 DEF Types
  <2> QED BY <2>1, <2>2
<1>8. signals' \in Seq(SignalRec) /\ Len(signals') = Len(signals) /\ DOMAIN signals' = DOMAIN signals
  <2>1. DOMAIN signals' = 1 .. Len(signals) /\ signals' = [s \in 1 .. Len(signals) |-> signals'[s]]
    BY <1>2 DEF EdgesEnd
  <2>2. \A s \in 1 .. Len(signals) : signals'[s] \in SignalRec
    BY <1>7
  <2> QED BY <2>1, <2>2, <1>2
<1>9. /\ Edges' = Edges /\ Content' = Content /\ Puts' = Puts
      /\ \A s : Readers(s)' = Readers(s)
      /\ \A B : Blocked(B)' <=> Blocked(B)
      /\ \A o, i : Sources(o, i)' = Sources(o, i)
  BY <1>1, <1>8, Same
<1>10. Unpassed' = Unpassed
  <2>1. \A e : ~Ahead(Top, e)
    BY <1>1, <1>2, WalkEnd DEF Ahead
  <2>2. Unpassed = {e \in Edges : pred_cnt[e[1]] # SCHEDULED}
    BY <2>1, <1>6 DEF Unpassed
  <2>3. Unpassed' = {e \in Edges : pred_cnt[e[1]] # SCHEDULED}
    BY <1>1, <1>6, <1>9 DEF Unpassed
  <2> QED BY <2>2, <2>3
<1>11. Types'
  <2>1. \A s \in 1 .. Len(signals') : signals'[s].refcnt >= SIGNAL_PENDING
    BY <1>7, <1>8
  <2> QED BY <2>1, <1>1, <1>5, <1>8 DEF Types
<1>12. Graph'
  BY <1>1, <1>9 DEF Graph
<1>13. Stack'
  BY <1>1, <1>3, <1>4, StackTop
<1>14. Reached'
  <2>1. \A e \in Edges : e[1] = Top.object => Ahead(g, e)
    BY <1>1, <1>2, <1>3, WalkBegin DEF Ahead
  <2>2. \A o \in Objects : pred_cnt'[o] = 0 /\ Met(o) => Met(o)'
    BY <2>1, <1>1, <1>3, <1>4, MetTop
  <2>3. ToSet(objects) \subseteq Objects
    BY <1>1 DEF Types, ToSet
  <2> QED BY <2>2, <2>3, <1>1 DEF Reached
<1>15. Counted' /\ LoopsWait' /\ PutOnce' /\ PutBehind'
  <2>1. Counted'
    BY <1>1, <1>10 DEF Counted
  <2>2. LoopsWait'
    BY <1>1, <1>9 DEF LoopsWait
  <2> QED BY <2>1, <2>2, <1>1, <1>9 DEF PutOnce, PutBehind
<1>16. PutScheduled'
  BY <1>1, <1>6, <1>9 DEF PutScheduled
<1>17. Counts'
  <2>1. signals' # <<>> /\ signals'[sig_zero].refcnt = 1
    <3>1. Len(signals) # 0 /\ sig_zero \in 1 .. Len(signals)
      BY <1>1, <1>2 DEF Counts, sig_zero, Types
    <3> QED BY <3>1, <1>1, <1>7, <1>8 DEF Counts
  <2>2. ASSUME NEW s \in 1 .. Len(signals'), s # sig_zero
        PROVE  signals'[s].refcnt = Cardinality(Readers(s)')
    BY <2>2, <1>7, <1>8, <1>9
  <2> QED BY <2>1, <2>2 DEF Counts
<1>18. Waiting' /\ Outputs'
  <2>1. Waiting'
    BY <1>1 DEF Waiting
  <2> QED BY <2>1, <1>6 DEF Outputs
<1>19. Contents'
  <2>1. Now' = Now /\ Follows(program, 1 .. Len(signals), Content)'
    BY <1>1, <1>8, <1>9 DEF Now, Contents, Follows
  <2>a. LengthsKept
    <3>1. ASSUME NEW s \in 1 .. Len(signals) PROVE signals'[s].length = signals[s].length
      <4>1. PICK r \in SignalRec : r = signals[s]
        BY <1>2
      <4>2. signals'[s] = r \/ signals'[s] = [r EXCEPT !.refcnt = 0]
        <5>1. s \in DOMAIN signals
          BY <1>2
        <5> QED BY <5>1, <4>1 DEF EdgesEnd
      <4>3. [r EXCEPT !.refcnt = 0].length = r.length
        BY DEF SignalRec
      <4> QED BY <4>1, <4>2, <4>3
    <3>2. out' = out
      BY DEF EdgesEnd
    <3> QED BY <3>1, <3>2 DEF LengthsKept
  <2>2. \A o, i : Passed(o, i)' = Passed(o, i)
    BY <1>1, <1>9, <1>10 DEF Passed
  <2>3. InputsSum'
    <3>1. ASSUME NEW o \in ToSet(objects), NEW i \in Ins, pred_cnt[o] # SCHEDULED
          PROVE  InletSum(o, i)'
      <4>1. o \in Objects
        BY <1>1 DEF Types, ToSet
      <4>2. InletSum(o, i)
        BY <3>1, <1>1 DEF Contents, InputsSum
      <4> QED BY <4>1, <4>2, <3>1, <2>1, <2>2, <2>a, <1>1, InletKept
    <3> QED BY <3>1, <1>1 DEF InputsSum
  <2>4. TopHears'
    BY <1>6 DEF TopHears
  <2>5. Heard'
    <3>1. \A o, i : Even(o, i)' <=> Even(o, i)
      BY <2>a, <1>1, <1>9, EvenStays
    <3> QED BY <3>1, <1>1, <1>9 DEF Contents, Heard
  <2>6. (\A n \in 0 .. Len(program) : Content[n][sig_zero] = {})'
    BY <1>1, <1>9 DEF Contents
  <2> QED BY <2>1, <2>3, <2>4, <2>5, <2>6 DEF Contents
<1> QED BY <1>11, <1>12, <1>13, <1>14, <1>15, <1>16, <1>17, <1>18, <1>19 DEF IInv

-----------------------------------------------------------------------------
(* The signal allocator and gen_outputs.                                    *)

\* The latest of the signals that can be reused is one of them.
LEMMA MaxIn == ASSUME NEW n \in Nat, NEW T \in SUBSET (1 .. n), T # {} PROVE Max(T) \in T
<1> DEFINE U == {n - r : r \in T}
<1>1. U \in SUBSET Nat /\ U # {}
  <2>1. \A r \in T : n - r \in Nat /\ n - r \in U
    OBVIOUS
  <2>2. U \in SUBSET Nat
    OBVIOUS
  <2> HIDE DEF U
  <2> QED BY <2>1, <2>2
<1>2. PICK m \in U : \A k \in U : m <= k
  BY <1>1, NatMin
<1>3. PICK r \in T : m = n - r
  BY <1>2
<1>4. \A y \in T : r >= y
  <2>1. ASSUME NEW y \in T PROVE r >= y
    <3>1. n - y \in U /\ y \in Int /\ r \in Int
      OBVIOUS
    <3>2. m <= n - y
      BY <3>1, <1>2
    <3> QED BY <3>1, <3>2, <1>3
  <2> QED BY <2>1
<1>5. \E x \in T : \A y \in T : x >= y
  BY <1>3, <1>4
<1> HIDE DEF U
<1>6. Max(T) \in T
  BY <1>5, Zenon DEF Max
<1> QED BY <1>6

\* fts_dsp_signal_new gives a signal without readers, an old one or one more.
LEMMA Allocates == ASSUME NEW list \in Seq(SignalRec), NEW length \in Nat
   PROVE /\ Allocated(list, length) \in 1 .. Len(list) + 1
         /\ Allocated(list, length) \in 1 .. Len(list) => list[Allocated(list, length)].refcnt = 0
         /\ fts_dsp_signal_new(list, length) \in Seq(SignalRec)
         /\ Len(list) <= Len(fts_dsp_signal_new(list, length))
         /\ Allocated(list, length) \in 1 .. Len(fts_dsp_signal_new(list, length))
         /\ fts_dsp_signal_new(list, length)[Allocated(list, length)]
              = [refcnt |-> SIGNAL_PENDING, length |-> length]
         /\ \A r \in 1 .. Len(list) : r # Allocated(list, length)
                                       => fts_dsp_signal_new(list, length)[r] = list[r]
         /\ \A r \in 1 .. Len(fts_dsp_signal_new(list, length)) :
               r \in 1 .. Len(list) \/ r = Allocated(list, length)
         /\ \A r \in 1 .. Len(list) : fts_dsp_signal_new(list, length)[r].length = list[r].length
<1> DEFINE s == Allocated(list, length)
           R == Reusable(list, length)
           new == [refcnt |-> SIGNAL_PENDING, length |-> length]
           made == fts_dsp_signal_new(list, length)
<1>1. Len(list) \in Nat /\ DOMAIN list = 1 .. Len(list) /\ new \in SignalRec
  BY DEF SignalRec, SIGNAL_PENDING
<1>2. R \in SUBSET (1 .. Len(list)) /\ \A r \in R : list[r].refcnt = 0 /\ list[r].length = length
  BY <1>1 DEF Reusable
<1>3. made = IF s \in DOMAIN list THEN [list EXCEPT ![s] = new] ELSE Append(list, new)
  BY DEF fts_dsp_signal_new
<1>4. s = IF R = {} THEN Len(list) + 1 ELSE Max(R)
  BY DEF Allocated
<1>a. new.length = length
  OBVIOUS
<1> HIDE DEF s, R, made, new
<1>5. CASE R = {}
  <2>1. s = Len(list) + 1 /\ s \notin DOMAIN list
    BY <1>1, <1>4, <1>5
  <2>2. made = Append(list, new)
    BY <1>3, <2>1
  <2>3. /\ made \in Seq(SignalRec) /\ Len(made) = Len(list) + 1 /\ made[Len(list) + 1] = new
        /\ \A r \in 1 .. Len(list) : made[r] = list[r]
    BY <1>1, <2>2
  <2> QED BY <1>1, <2>1, <2>3 DEF s, made, new
<1>6. CASE R # {}
  <2>1. s \in R
    BY <1>1, <1>2, <1>4, <1>6, MaxIn
  <2>2. s \in 1 .. Len(list) /\ list[s].refcnt = 0 /\ list[s].length = length
    BY <1>2, <2>1
  <2>3. made = [list EXCEPT ![s] = new]
    BY <1>1, <1>3, <2>2
  <2>4. /\ made \in Seq(SignalRec) /\ Len(made) = Len(list) /\ made[s] = new
        /\ \A r \in 1 .. Len(list) : r # s => made[r] = list[r]
    BY <1>1, <2>2, <2>3
  <2>5. \A r \in 1 .. Len(list) : made[r].length = list[r].length
    BY <2>2, <2>4, <1>a
  <2> QED BY <1>1, <2>2, <2>4, <2>5 DEF s, made, new
<1> QED BY <1>5, <1>6

\* Instructions on the signals there are stay instructions when there are more.
LEMMA MoreSignals == ASSUME NEW N \in Nat, NEW M \in Nat, N <= M
                     PROVE  /\ Instruction(N) \subseteq Instruction(M)
                            /\ Seq(Instruction(N)) \subseteq Seq(Instruction(M))
<1>1. 0 .. N \subseteq 0 .. M /\ 1 .. N \subseteq 1 .. M
  OBVIOUS
<1>2. /\ [Ins -> 1 .. N] \subseteq [Ins -> 1 .. M] /\ [Outs -> 0 .. N] \subseteq [Outs -> 0 .. M]
      /\ (1 .. N) \X (1 .. N) \subseteq (1 .. M) \X (1 .. M)
  BY <1>1
<1>3. [op : {"put"}, object : Objects, in : [Ins -> 1 .. N], out : [Outs -> 0 .. N], size : Nat]
        \subseteq [op : {"put"}, object : Objects, in : [Ins -> 1 .. M], out : [Outs -> 0 .. M],
                   size : Nat]
  BY <1>2
<1>4. [op : {"add"}, in : (1 .. N) \X (1 .. N), out : 1 .. N, even : BOOLEAN]
        \subseteq [op : {"add"}, in : (1 .. M) \X (1 .. M), out : 1 .. M, even : BOOLEAN]
  BY <1>1, <1>2
<1>5. Instruction(N) \subseteq Instruction(M)
  BY <1>3, <1>4, Zenon DEF Instruction
<1>6. \A A, B : A \subseteq B => Seq(A) \subseteq Seq(B)
  <2>1. ASSUME NEW A, NEW B, A \subseteq B, NEW x \in Seq(A) PROVE x \in Seq(B)
    <3>1. x \in [1 .. Len(x) -> B] /\ Len(x) \in Nat
      BY <2>1
    <3> QED BY <3>1
  <2> QED BY <2>1
<1> QED BY <1>5, <1>6

\* The size of an output vector is a number (gen_outputs).
LEMMA Sizes == ASSUME Types, NEW o \in Objects PROVE InSize(o) \in Nat /\ OutSize(o) \in Nat
<1>1. Len(signals) \in Nat /\ \A s \in 1 .. Len(signals) : signals[s].length \in Nat
  <2>1. Len(signals) \in Nat /\ \A s \in 1 .. Len(signals) : signals[s] \in SignalRec
    BY DEF Types
  <2> QED BY <2>1 DEF SignalRec
<1>2. \A j \in Ins : Input(o, j) # sig_zero => Input(o, j) \in 1 .. Len(signals)
  BY DEF Types, Input, Nil
<1>3. Lengths(o) \subseteq Nat
  BY <1>1, <1>2 DEF Lengths
<1>4. InSize(o) \in Nat
  <2>1. CASE Lengths(o) = {}
    BY <2>1, GraphAssumption DEF InSize
  <2>2. CASE Lengths(o) # {}
    <3>1. InSize(o) = CHOOSE n \in Lengths(o) : TRUE
      BY <2>2 DEF InSize
    <3>2. InSize(o) \in Lengths(o)
      BY <3>1, <2>2
    <3> QED BY <3>2, <1>3
  <2> QED BY <2>1, <2>2
<1>5. InSize(o) \div 2 \in Nat /\ InSize(o) * 2 \in Nat
  <2>1. PICK m \in Nat : m = InSize(o)
    BY <1>4
  <2>2. m \div 2 \in Nat /\ m * 2 \in Nat
    OBVIOUS
  <2> QED BY <2>1, <2>2
<1>6. OutSize(o) \in {InSize(o), InSize(o) \div 2, InSize(o) * 2}
  BY DEF OutSize
<1> QED BY <1>4, <1>5, <1>6

\* gen_outputs makes one output signal.
LEMMA GenOutputStep == ASSUME IInv, GenOutput PROVE IInv'
<1> DEFINE g == [Top EXCEPT !.outlet = @ + 1]
<1>0. PICK o, k, size, s : /\ o = Top.object /\ k = Top.outlet /\ size = OutSize(o)
                           /\ s = Allocated(signals, size)
  OBVIOUS
<1>1. /\ Types /\ Graph /\ Stack /\ Counted /\ Reached /\ LoopsWait
      /\ PutOnce /\ PutScheduled /\ PutBehind /\ Counts /\ Waiting /\ Outputs /\ Contents
      /\ phase = "schedule" /\ frames # <<>> /\ frames \in Seq(Frame)
      /\ Top.walk = "outputs" /\ k \in Outs
      /\ UNCHANGED <<objects, conns, status, phase, roots, pred_cnt, in, program>>
      /\ conns \in [Objects \X Outs -> Seq(Conn)] /\ signals \in Seq(SignalRec)
  BY <1>0 DEF IInv, GenOutput, InWalk, Types, graphVars
<1>2. /\ Edges = EdgesOf(conns) /\ NoDouble(conns) /\ Top = frames[Len(frames)] /\ Top \in Frame
      /\ \A e \in Edges : e[1] \in Objects /\ e[2] \in Outs /\ e[3].dst \in Objects
      /\ Len(frames) \in 1 .. Len(frames) /\ DOMAIN frames = 1 .. Len(frames) /\ o \in Objects
      /\ Len(signals) \in Nat /\ DOMAIN signals = 1 .. Len(signals)
      /\ \A p \in Objects : /\ \A i \in Ins : in[p][i] \in 0 .. Len(signals)
                            /\ \A j \in Outs : out[p][j] \in 0 .. Len(signals)
      /\ pred_cnt[o] = SCHEDULED /\ Top.at = 1
      /\ k \in Nat /\ \A j \in Outs : j \in Nat
  <2>1. pred_cnt[frames[Len(frames)].object] = SCHEDULED /\ (Top = frames[Len(frames)] => Top.at = 1)
    BY <1>1, Facts DEF Stack
  <2> QED BY <2>1, <1>0, <1>1, Facts, GraphAssumption
<1>3. g \in Frame /\ g.object = o /\ g.outlet = k + 1 /\ g.at = 1 /\ g.walk = "outputs"
  <2>1. g.object = o /\ g.outlet = k + 1 /\ g.at = Top.at /\ g.walk = Top.walk
    BY <1>0, <1>2 DEF Frame
  <2>2. g = [x \in {"object", "outlet", "at", "walk"} |-> g[x]]
    BY <1>2 DEF Frame
  <2> HIDE DEF g
  <2>3. k + 1 \in Nat \ {0}
    BY <1>2
  <2>4. /\ g.object \in Objects /\ g.outlet \in Nat \ {0} /\ g.at \in Nat \ {0}
        /\ g.walk \in {"outputs", "edges", "depth"}
    BY <2>1, <2>3, <1>1, <1>2
  <2>5. g \in Frame
    BY <2>2, <2>4, IsFrame
  <2> QED BY <2>1, <2>5, <1>1, <1>2
<1>4. frames' = [frames EXCEPT ![Len(frames)] = g]
  BY <1>2 DEF GenOutput
<1> HIDE DEF g
<1>5. /\ frames' \in Seq(Frame) /\ frames' # <<>> /\ Top' = g
  BY <1>1, <1>3, <1>4, TopSet
<1>6. /\ Scheduling("outputs") /\ ~Scheduling("edges")
      /\ Scheduling("outputs")' /\ ~Scheduling("edges")' /\ Top'.object = o /\ Top'.outlet = k + 1
  BY <1>1, <1>3, <1>5 DEF Scheduling
<1>7. /\ s \in 1 .. Len(signals) + 1
      /\ s \in 1 .. Len(signals) => signals[s].refcnt = 0
      /\ signals' \in Seq(SignalRec) /\ Len(signals) <= Len(signals') /\ Len(signals') \in Nat
      /\ s \in 1 .. Len(signals') /\ signals'[s].refcnt = SIGNAL_PENDING
      /\ \A r \in 1 .. Len(signals) : r # s => signals'[r] = signals[r]
      /\ \A r \in 1 .. Len(signals') : r \in 1 .. Len(signals) \/ r = s
      /\ out' = [out EXCEPT ![o][k] = s]
      /\ \A r \in 1 .. Len(signals) : signals'[r].length = signals[r].length
  <2>1. size \in Nat
    BY <1>0, <1>1, <1>2, Sizes
  <2>2. signals' = fts_dsp_signal_new(signals, size) /\ out' = [out EXCEPT ![o][k] = s]
    BY <1>0, <1>2 DEF GenOutput
  <2>3. fts_dsp_signal_new(signals, size)[Allocated(signals, size)].refcnt = SIGNAL_PENDING
    <3>1. fts_dsp_signal_new(signals, size)[Allocated(signals, size)]
              = [refcnt |-> SIGNAL_PENDING, length |-> size]
      BY <2>1, <1>1, Allocates
    <3> QED BY <3>1
  <2>4. signals' \in Seq(SignalRec)
    BY <2>1, <2>2, <1>1, Allocates
  <2>5. Len(signals') \in Nat
    BY <2>4
  <2>5a. signals \in Seq(SignalRec) /\ s = Allocated(signals, size)
    BY <1>0, <1>1
  <2>6. /\ s \in 1 .. Len(signals) + 1
        /\ s \in 1 .. Len(signals) => signals[s].refcnt = 0
    <3>1. /\ Allocated(signals, size) \in 1 .. Len(signals) + 1
          /\ Allocated(signals, size) \in 1 .. Len(signals)
                => signals[Allocated(signals, size)].refcnt = 0
      BY ONLY <2>1, <2>5a, Allocates
    <3> QED BY <3>1, <2>5a
  <2>7. Len(signals) <= Len(signals') /\ s \in 1 .. Len(signals')
    BY ONLY <2>1, <2>2, <2>5a, Allocates
  <2>8. \A r \in 1 .. Len(signals) : r # s => signals'[r] = signals[r]
    <3>1. \A r \in 1 .. Len(signals) : r # Allocated(signals, size)
                                        => fts_dsp_signal_new(signals, size)[r] = signals[r]
      BY ONLY <2>1, <2>5a, Allocates
    <3> QED BY <3>1, <2>2, <2>5a, Zenon
  <2>9. \A r \in 1 .. Len(signals') : r \in 1 .. Len(signals) \/ r = s
    BY ONLY <2>1, <2>2, <2>5a, Allocates
  <2>10. signals'[s].refcnt = SIGNAL_PENDING
    BY <1>0, <2>2, <2>3
  <2>11. \A r \in 1 .. Len(signals) : signals'[r].length = signals[r].length
    <3>1. \A r \in 1 .. Len(signals) : fts_dsp_signal_new(signals, size)[r].length = signals[r].length
      BY ONLY <2>1, <2>5a, Allocates
    <3> QED BY <3>1, <2>2, Zenon
  <2> QED BY <2>2, <2>4, <2>5, <2>6, <2>7, <2>8, <2>9, <2>10, <2>11
<1>8. /\ signals # <<>> /\ sig_zero \in 1 .. Len(signals) /\ s # sig_zero /\ s # Nil
      /\ \A r \in 1 .. Len(signals) : Pending(r) => r # s /\ signals'[r] = signals[r]
  <2>1. signals # <<>> /\ signals[sig_zero].refcnt = 1
    BY <1>1 DEF Counts
  <2>2. sig_zero \in 1 .. Len(signals)
    BY <2>1, <1>1, <1>2 DEF sig_zero
  <2>3. s # sig_zero
    BY <2>1, <2>2, <1>7
  <2>4. s # Nil
    BY <1>2, <1>7 DEF Nil
  <2>5. \A r \in 1 .. Len(signals) : Pending(r) => r # s /\ signals'[r] = signals[r]
    BY <1>7 DEF Pending, SIGNAL_PENDING
  <2> QED BY <2>1, <2>2, <2>3, <2>4, <2>5
<1>9. Readers(s) = {} /\ \A r : Readers(r)' = Readers(r)
  <2>0. \A r : Readers(r)' = Readers(r)
    BY <1>1 DEF Readers
  <2>1. CASE s \in 1 .. Len(signals)
    <3>1. signals[s].refcnt = 0 /\ ~Pending(s)
      BY <2>1, <1>7 DEF Pending, SIGNAL_PENDING
    <3>2. Cardinality(Readers(s)) = 0
      BY <2>1, <3>1, <1>1, <1>8 DEF Counts
    <3>3. Readers(s) = {}
      BY <3>2, <1>1, ReadersFinite, FS_EmptySet
    <3> QED BY <3>3, <2>0
  <2>2. CASE s \notin 1 .. Len(signals)
    <3>1. \A p \in ToSet(objects) : p \in Objects
      BY <1>1 DEF Types, ToSet
    <3>2. \A x \in ToSet(objects) \X Ins : in[x[1]][x[2]] # s
      BY <2>2, <3>1, <1>2, <1>7
    <3>3. Readers(s) = {}
      BY <3>2 DEF Readers
    <3> QED BY <3>3, <2>0
  <2> QED BY <2>1, <2>2
<1>10. Edges' = Edges /\ Puts' = Puts /\ \A B : Blocked(B)' <=> Blocked(B)
  <2>1. Edges' = Edges
    BY <1>1 DEF Edges
  <2> QED BY <2>1, <1>1 DEF Puts, Blocked
<1>11. Unpassed' = Unpassed /\ \A e \in Edges : e[1] = o => e \in Unpassed
  BY <1>0, <1>1, <1>6, <1>10 DEF Unpassed
<1>12. /\ out'[o][k] = s /\ \A j \in Outs : j # k => out'[o][j] = out[o][j]
       /\ \A p \in Objects : p # o => out'[p] = out[p]
       /\ out' \in [Objects -> [Outs -> 0 .. Len(signals')]]
  <2>1. out \in [Objects -> [Outs -> 0 .. Len(signals')]] /\ s \in 0 .. Len(signals')
    <3>1. out \in [Objects -> [Outs -> 0 .. Len(signals)]]
      BY <1>1 DEF Types
    <3>2. 0 .. Len(signals) \subseteq 0 .. Len(signals')
      BY <1>2, <1>7
    <3> QED BY <3>1, <3>2, <1>7
  <2> QED BY <2>1, <1>1, <1>2, <1>7
<1>13. /\ Follows(program, 1 .. Len(signals), Content)'
       /\ \A n \in 0 .. Len(program), r \in 1 .. Len(signals) : Content'[n][r] = Content[n][r]
       /\ \A r \in 1 .. Len(signals) : Now'[r] = Now[r]
  <2>1. /\ Follows(program, 1 .. Len(signals), Content)'
        /\ \A n \in 0 .. Len(program), r \in 1 .. Len(signals) : Content'[n][r] = Content[n][r]
    BY <1>1, <1>7, <1>8, SignalsGrow DEF Contents
  <2>2. Len(program) \in 0 .. Len(program)
    BY <1>1 DEF Types
  <2> QED BY <2>1, <2>2, <1>1 DEF Now
<1>14. Types'
  <2>1. in' \in [Objects -> [Ins -> 0 .. Len(signals')]]
    <3>1. in \in [Objects -> [Ins -> 0 .. Len(signals)]]
      BY <1>1 DEF Types
    <3>2. 0 .. Len(signals) \subseteq 0 .. Len(signals')
      BY <1>2, <1>7
    <3> QED BY <3>1, <3>2, <1>1
  <2>2. program' \in Seq(Instruction(Len(signals')))
    BY <1>1, <1>2, <1>7, MoreSignals DEF Types
  <2>3. ASSUME NEW r \in 1 .. Len(signals') PROVE signals'[r].refcnt >= SIGNAL_PENDING
    <3>1. CASE r = s
      BY <3>1, <1>7 DEF SIGNAL_PENDING
    <3>2. CASE r # s
      <4>1. r \in 1 .. Len(signals) /\ signals'[r] = signals[r]
        BY <3>2, <1>7
      <4> QED BY <4>1, <1>1 DEF Types
    <3> QED BY <3>1, <3>2
  <2> QED BY <2>1, <2>2, <2>3, <1>1, <1>5, <1>7, <1>12 DEF Types
<1>15. Graph'
  BY <1>1, <1>10 DEF Graph
<1>16. Stack'
  BY <1>0, <1>1, <1>3, <1>4, StackTop
<1>17. Reached'
  <2>1. \A p \in Objects : pred_cnt'[p] = 0 /\ Met(p) => Met(p)'
    BY <1>0, <1>1, <1>3, <1>4, MetTop
  <2>2. ToSet(objects) \subseteq Objects
    BY <1>1 DEF Types, ToSet
  <2> QED BY <2>1, <2>2, <1>1 DEF Reached
<1>18. Counted' /\ LoopsWait' /\ PutOnce' /\ PutBehind'
  <2>1. Counted'
    BY <1>1, <1>11 DEF Counted
  <2>2. LoopsWait'
    BY <1>1, <1>10 DEF LoopsWait
  <2> QED BY <2>1, <2>2, <1>1, <1>10 DEF PutOnce, PutBehind
<1>19. PutScheduled'
  BY <1>0, <1>1, <1>6, <1>10 DEF PutScheduled
<1>20. Counts'
  <2>1. signals' # <<>> /\ signals'[sig_zero].refcnt = 1
    <3>1. signals'[sig_zero] = signals[sig_zero] /\ Len(signals') # 0
      BY <1>2, <1>7, <1>8
    <3> QED BY <3>1, <1>1, <1>7 DEF Counts
  <2>2. ASSUME NEW r \in 1 .. Len(signals'), r # sig_zero
        PROVE  \/ signals'[r].refcnt = Cardinality(Readers(r))
               \/ /\ signals'[r].refcnt = SIGNAL_PENDING /\ Readers(r) = {}
                  /\ \E j \in Outs : out'[o][j] = r
    <3>1. CASE r = s
      BY <3>1, <1>1, <1>7, <1>9, <1>12
    <3>2. CASE r # s
      <4>1. r \in 1 .. Len(signals) /\ signals'[r] = signals[r] /\ r # Nil
        BY <3>2, <1>7 DEF Nil
      <4>2. CASE signals[r].refcnt = Cardinality(Readers(r))
        BY <4>1, <4>2
      <4>3. CASE Pending(r) /\ Readers(r) = {} /\ \E j \in Outs : out[o][j] = r
        <5>1. PICK j \in Outs : out[o][j] = r
          BY <4>3
        <5>2. out[o][k] = Nil
          <6>1. ~(k < k)
            BY <1>2
          <6> QED BY <1>0, <6>1, <1>1, <1>6 DEF Outputs
        <5>3. out'[o][j] = r
          BY <5>1, <5>2, <4>1, <1>12
        <5> QED BY <5>3, <4>1, <4>3 DEF Pending
      <4> QED BY <1>0, <2>2, <4>1, <4>2, <4>3, <1>1 DEF Counts
    <3> QED BY <3>1, <3>2
  <2>3. ASSUME NEW r \in 1 .. Len(signals'), r # sig_zero
        PROVE  \/ signals'[r].refcnt = Cardinality(Readers(r)')
               \/ /\ Pending(r)' /\ Readers(r)' = {}
                  /\ Scheduling("outputs")'
                  /\ \E j \in Outs : out'[Top'.object][j] = r
    BY <2>2, <2>3, <1>6, <1>9 DEF Pending
  <2> QED BY <2>1, <2>3 DEF Counts
<1>21. Waiting'
  <2>1. \A p \in Objects, j \in Outs : out'[p][j] # sig_zero
    BY <1>1, <1>2, <1>8, <1>12 DEF Waiting
  <2>2. \A p \in Objects : pred_cnt[p] # SCHEDULED => out'[p] = out[p]
    BY <1>2, <1>12
  <2> QED BY <2>1, <2>2, <1>1 DEF Waiting
<1>22. Outputs'
  <2>1. \A j \in Outs : IF j < k THEN out[o][j] # Nil /\ Pending(out[o][j]) ELSE out[o][j] = Nil
    BY <1>0, <1>1, <1>6 DEF Outputs
  <2>2. ASSUME NEW j \in Outs
        PROVE  IF j < k + 1 THEN out'[o][j] # Nil /\ signals'[out'[o][j]].refcnt = SIGNAL_PENDING
               ELSE out'[o][j] = Nil
    <3>1. CASE j = k
      <4>1. j < k + 1 /\ out'[o][j] = s
        BY <3>1, <1>2, <1>12
      <4> QED BY <4>1, <1>7, <1>8
    <3>2. CASE j < k
      <4>1. out'[o][j] = out[o][j] /\ out[o][j] # Nil /\ Pending(out[o][j]) /\ out[o][j] \in 1 .. Len(signals)
        BY <3>2, <2>1, <1>2, <1>12 DEF Nil
      <4>2. j < k + 1 /\ signals'[out'[o][j]].refcnt = SIGNAL_PENDING
        BY <3>2, <4>1, <1>2, <1>8 DEF Pending
      <4> QED BY <4>1, <4>2
    <3>3. CASE ~(j < k) /\ j # k
      <4>1. out[o][j] = Nil /\ out'[o][j] = out[o][j] /\ ~(j < k + 1)
        BY <3>3, <2>1, <1>2, <1>12
      <4> QED BY <4>1
    <3> QED BY <3>1, <3>2, <3>3
  <2>3. ASSUME NEW j \in Outs, out[o][j] # Nil PROVE out[o][j] # s
    <3>1. Pending(out[o][j]) /\ out[o][j] \in 1 .. Len(signals)
      BY <2>1, <2>3, <1>2 DEF Nil
    <3> QED BY <3>1, <1>8
  <2>4. ASSUME NEW i \in Outs, NEW j \in Outs, out'[o][i] = out'[o][j], out'[o][i] # Nil PROVE i = j
    <3>1. \A x, y \in Outs : out[o][x] = out[o][y] /\ out[o][x] # Nil => x = y
      BY <1>0, <1>1, <1>6 DEF Outputs
    <3> QED BY <3>1, <2>3, <2>4, <1>8, <1>12
  <2>5. \A i \in Ins : in'[o][i] # Nil
    BY <1>0, <1>1, <1>6 DEF Outputs
  <2> QED BY <2>2, <2>4, <2>5, <1>6 DEF Outputs, Pending
<1>23. Contents'
  <2>1. \A x \in Edges \ Unpassed : out'[x[1]] = out[x[1]]
    BY <1>2, <1>11, <1>12
  <2>2. \A p, i : Passed(p, i)' = Passed(p, i)
    BY <2>1, <1>10, <1>11 DEF Passed
  <2>a. LengthsKept
    <3>1. out[o][k] = Nil
      BY <1>0, <1>1, <1>2, <1>6 DEF Outputs
    <3> QED BY <3>1, <1>7, <1>12 DEF LengthsKept
  <2>3. ASSUME NEW p \in Objects, pred_cnt[p] = SCHEDULED, NEW i PROVE Sources(p, i)' = Sources(p, i)
    <3>1. \A x \in Edges : x[3].dst = p => x \notin Unpassed
      BY <2>3, <1>1 DEF Counted, Into
    <3> QED BY <3>1, <2>1, <1>10 DEF Sources
  <2>4. InputsSum'
    <3>1. ASSUME NEW p \in ToSet(objects), NEW i \in Ins, pred_cnt[p] # SCHEDULED
          PROVE  InletSum(p, i)'
      <4>1. p \in Objects
        BY <1>1 DEF Types, ToSet
      <4>2. in[p][i] # Nil => in[p][i] \in 1 .. Len(signals)
        BY <4>1, <1>2 DEF Nil
      <4>3. InletSum(p, i)
        BY <3>1, <1>1 DEF Contents, InputsSum
      <4>4. in[p][i] # Nil => Now'[in[p][i]] = Now[in[p][i]]
        BY <4>2, <1>13
      <4> QED BY <4>1, <4>3, <4>4, <3>1, <2>2, <2>a, <1>1, InletKept
    <3> QED BY <3>1, <1>1 DEF InputsSum
  <2>5. TopHears'
    <3>0. ASSUME NEW i \in Ins PROVE Even(Top.object, i)' <=> Even(o, i)
      <4>1. Sources(o, i)' = Sources(o, i)
        BY <2>3, <1>2
      <4>2. Even(o, i)' <=> Even(o, i)
        BY <4>1, <2>a, <1>1, EvenStays
      <4>3. Even(Top.object, i)' <=> Even(o, i)'
        BY <1>6 DEF Even, Sources
      <4> QED BY <4>2, <4>3
    <3>1. ASSUME NEW i \in Ins, Even(o, i) PROVE Now'[in[o][i]] = Sources(o, i)'
      <4>1. in[o][i] # Nil /\ Now[in[o][i]] = Sources(o, i)
        BY <3>1, <1>0, <1>1, <1>6 DEF Outputs, Contents, TopHears
      <4>2. in[o][i] \in 1 .. Len(signals)
        BY <4>1, <1>2 DEF Nil
      <4>3. Now'[in[o][i]] = Now[in[o][i]]
        BY <4>2, <1>13
      <4>4. Sources(o, i)' = Sources(o, i)
        BY <2>3, <1>2
      <4> QED BY <4>1, <4>3, <4>4
    <3>2. ASSUME NEW i \in Ins, Even(o, i) PROVE Now'[in'[Top'.object][i]] = Sources(Top.object, i)'
      <4>1. Sources(Top.object, i)' = Sources(o, i)'
        BY <1>6 DEF Sources
      <4> QED BY <4>1, <3>1, <3>2, <1>1, <1>6
    <3> QED BY <3>0, <3>2, <1>6 DEF TopHears
  <2>6. Heard'
    <3>1. ASSUME NEW n \in Puts, NEW i \in Ins, Even(program[n].object, i)'
          PROVE  Content'[n - 1][program[n].in[i]] = Sources(program[n].object, i)'
      <4>1. program[n] \in Instruction(Len(signals)) /\ program[n].op = "put" /\ n - 1 \in 0 .. Len(program)
        BY <1>1 DEF Types, Puts
      <4>2. program[n].object \in Objects /\ program[n].in[i] \in 1 .. Len(signals)
        BY <4>1 DEF Instruction
      <4>3. pred_cnt[program[n].object] = SCHEDULED
        BY <1>1 DEF PutScheduled
      <4>4. PICK p \in Objects : p = program[n].object
        BY <4>2
      <4>5. Sources(p, i)' = Sources(p, i)
        BY <4>3, <4>4, <2>3
      <4>a. Even(p, i)
        <5>1. Even(p, i)'
          BY <3>1, <4>4, <1>1
        <5> QED BY <5>1, <4>5, <2>a, <1>1, EvenStays
      <4>6. Content[n - 1][program[n].in[i]] = Sources(p, i)
        BY <4>4, <4>a, <1>1 DEF Contents, Heard
      <4>7. Content'[n - 1][program[n].in[i]] = Content[n - 1][program[n].in[i]]
        BY <4>1, <4>2, <1>13
      <4>8. Sources(program[n].object, i)' = Sources(p, i)'
        BY <4>4, <1>1
      <4> QED BY <4>5, <4>6, <4>7, <4>8
    <3> QED BY <3>1, <1>1, <1>10 DEF Heard
  <2>7. (\A n \in 0 .. Len(program) : Content[n][sig_zero] = {})'
    BY <1>1, <1>8, <1>13 DEF Contents
  <2> QED BY <2>4, <2>5, <2>6, <2>7, <1>13 DEF Contents
<1> QED BY <1>14, <1>15, <1>16, <1>17, <1>18, <1>19, <1>20, <1>21, <1>22, <1>23 DEF IInv

\* A signal that is pending is not read by anybody.
LEMMA PendingUnread == ASSUME Types, Counts, NEW s \in 1 .. Len(signals), Pending(s)
   PROVE  /\ s # sig_zero /\ Readers(s) = {}
          /\ \A p \in ToSet(objects), i \in Ins : pred_cnt[p] # SCHEDULED => in[p][i] # s
<1>1. s # sig_zero
  BY DEF Counts, Pending, SIGNAL_PENDING
<1>2. Cardinality(Readers(s)) \in Nat
  BY ReadersFinite
<1>3. Readers(s) = {}
  BY <1>1, <1>2 DEF Counts, Pending, SIGNAL_PENDING
<1>4. ASSUME NEW p \in ToSet(objects), NEW i \in Ins, pred_cnt[p] # SCHEDULED, in[p][i] = s PROVE FALSE
  <2>1. <<p, i>> \in Readers(s)
    BY <1>4 DEF Readers
  <2> QED BY <2>1, <1>3
<1> QED BY <1>1, <1>3, <1>4

\* The object puts its call into the program.
LEMMA PutNodeStep == ASSUME IInv, PutNode PROVE IInv'
<1> DEFINE g == [Top EXCEPT !.walk = "edges", !.outlet = 1]
<1>0. PICK o, L, N : o = Top.object /\ L = Len(program) /\ N = Len(signals)
  OBVIOUS
<1> DEFINE call == [op |-> "put", object |-> o, in |-> in[o], out |-> out[o], size |-> InSize(o)]
<1>1. /\ Types /\ Graph /\ Stack /\ Counted /\ Reached /\ LoopsWait
      /\ PutOnce /\ PutScheduled /\ PutBehind /\ Counts /\ Waiting /\ Outputs /\ Contents
      /\ phase = "schedule" /\ frames # <<>> /\ frames \in Seq(Frame)
      /\ Top.walk = "outputs" /\ Top.outlet \notin Outs
      /\ UNCHANGED <<objects, conns, status, phase, roots, pred_cnt, in, out>>
      /\ conns \in [Objects \X Outs -> Seq(Conn)] /\ signals \in Seq(SignalRec)
      /\ signals' = [signals EXCEPT ![sig_zero].length = InSize(o)]
      /\ program' = Append(program, call)
  BY <1>0 DEF IInv, PutNode, InWalk, Types, graphVars
<1>2. /\ Edges = EdgesOf(conns) /\ NoDouble(conns) /\ Top = frames[Len(frames)] /\ Top \in Frame
      /\ \A e \in Edges : e[1] \in Objects /\ e[2] \in Outs /\ e[3].dst \in Objects
      /\ Len(frames) \in 1 .. Len(frames) /\ DOMAIN frames = 1 .. Len(frames) /\ o \in Objects
      /\ N \in Nat /\ DOMAIN signals = 1 .. N
      /\ \A s \in 1 .. N : signals[s] \in SignalRec
      /\ \A p \in Objects : /\ \A i \in Ins : in[p][i] \in 0 .. N
                            /\ \A j \in Outs : out[p][j] \in 0 .. N
      /\ pred_cnt[o] = SCHEDULED /\ Top.at = 1
      /\ Top.outlet \in Nat \ {0}
  <2>1. pred_cnt[frames[Len(frames)].object] = SCHEDULED /\ (Top = frames[Len(frames)] => Top.at = 1)
    BY <1>1, Facts DEF Stack
  <2>2. Top.outlet \in Nat \ {0}
    BY <1>1, Facts DEF Frame
  <2> QED BY <2>1, <2>2, <1>0, <1>1, Facts
<1>3. g \in Frame /\ g.object = o /\ g.outlet = 1 /\ g.at = 1 /\ g.walk = "edges"
  <2>1. g.object = o /\ g.outlet = 1 /\ g.at = Top.at /\ g.walk = "edges"
    BY <1>0, <1>2 DEF Frame
  <2>2. g = [x \in {"object", "outlet", "at", "walk"} |-> g[x]]
    BY <1>2 DEF Frame
  <2> HIDE DEF g
  <2>3. /\ g.object \in Objects /\ g.outlet \in Nat \ {0} /\ g.at \in Nat \ {0}
        /\ g.walk \in {"outputs", "edges", "depth"}
    BY <2>1, <1>2
  <2>4. g \in Frame
    BY <2>2, <2>3, IsFrame
  <2> QED BY <2>1, <2>4, <1>2
<1>4. frames' = [frames EXCEPT ![Len(frames)] = g]
  BY <1>2 DEF PutNode
<1> HIDE DEF g
<1>5. /\ frames' \in Seq(Frame) /\ frames' # <<>> /\ Top' = g
  BY <1>1, <1>3, <1>4, TopSet
<1>6. /\ Scheduling("outputs") /\ ~Scheduling("edges")
      /\ ~Scheduling("outputs")' /\ Scheduling("edges")' /\ Top'.object = o /\ Top'.outlet = 1
  BY <1>1, <1>3, <1>5 DEF Scheduling
<1>7. /\ signals' \in Seq(SignalRec) /\ Len(signals') = N
      /\ signals # <<>> /\ sig_zero \in 1 .. N
      /\ \A s \in 1 .. N : signals'[s].refcnt = signals[s].refcnt
      /\ InSize(o) \in Nat /\ LengthsKept
  <2>1. signals # <<>> /\ sig_zero \in 1 .. N
    BY <1>0, <1>1, <1>2 DEF Counts, sig_zero
  <2>2. InSize(o) \in Nat
    BY <1>1, <1>2, Sizes
  <2>3. PICK r \in SignalRec : r = signals[sig_zero]
    BY <2>1, <1>2
  <2>4. [r EXCEPT !.length = InSize(o)] \in SignalRec /\ [r EXCEPT !.length = InSize(o)].refcnt = r.refcnt
    BY <2>2 DEF SignalRec
  <2>5. signals' = [signals EXCEPT ![sig_zero] = [r EXCEPT !.length = InSize(o)]]
    BY <2>1, <2>3, <1>1, <1>2
  <2>6. signals' \in Seq(SignalRec) /\ Len(signals') = N
    <3>1. signals' = [s \in 1 .. N |-> signals'[s]]
      BY <2>5, <1>2
    <3>2. \A s \in 1 .. N : signals'[s] \in SignalRec
      BY <2>4, <2>5, <1>2
    <3> QED BY <3>1, <3>2, <1>2
  <2>7. \A s \in 1 .. N : signals'[s].refcnt = signals[s].refcnt
    BY <2>1, <2>3, <2>4, <2>5, <1>2
  <2>8. LengthsKept
    BY <2>5, <1>0, <1>1, <1>2 DEF LengthsKept
  <2> QED BY <2>1, <2>2, <2>6, <2>7, <2>8
<1>8. /\ L \in Nat /\ Len(program') = L + 1 /\ program'[L + 1] = call
      /\ \A n \in 1 .. L : program'[n] = program[n]
      /\ \A n \in 1 .. L : program[n] \in Instruction(N)
      /\ DOMAIN program = 1 .. L /\ DOMAIN program' = 1 .. L + 1
  <2>1. program \in Seq(Instruction(N)) /\ L \in Nat
    BY <1>0, <1>1 DEF Types
  <2> HIDE DEF call
  <2>2. program' = Append(program, call)
    BY <1>1
  <2> QED BY <2>1, <2>2, <1>0
<1>9. /\ \A i \in Ins : in[o][i] # Nil
      /\ \A k \in Outs : out[o][k] # Nil /\ Pending(out[o][k]) /\ out[o][k] \in 1 .. N
      /\ \A j, k \in Outs : out[o][j] = out[o][k] => j = k
  <2>1. ASSUME NEW k \in Outs PROVE k < Top.outlet
    <3>1. k \in Nat /\ \A n \in 1 .. k : n \in Outs
      BY GraphAssumption
    <3>2. PICK t \in Nat \ {0} : t = Top.outlet
      BY <1>2
    <3>3. t \notin 1 .. k
      BY <3>1, <3>2, <1>1
    <3> QED BY <3>1, <3>2, <3>3
  <2>2. \A k \in Outs : out[o][k] # Nil /\ Pending(out[o][k])
    BY <2>1, <1>0, <1>1, <1>6 DEF Outputs
  <2>3. \A k \in Outs : out[o][k] \in 1 .. N
    BY <2>2, <1>2 DEF Nil
  <2>4. \A j, k \in Outs : out[o][j] = out[o][k] => j = k
    BY <2>2, <1>0, <1>1, <1>6 DEF Outputs
  <2>5. \A i \in Ins : in[o][i] # Nil
    BY <1>0, <1>1, <1>6 DEF Outputs
  <2> QED BY <2>2, <2>3, <2>4, <2>5
<1>10. call \in Instruction(N)
  <2>1. in[o] \in [Ins -> 1 .. N]
    <3>1. in[o] \in [Ins -> 0 .. N]
      BY <1>0, <1>1, <1>2 DEF Types
    <3> QED BY <3>1, <1>9 DEF Nil
  <2>2. out[o] \in [Outs -> 0 .. N]
    BY <1>0, <1>1, <1>2 DEF Types
  <2>3. call \in [op : {"put"}, object : Objects, in : [Ins -> 1 .. N], out : [Outs -> 0 .. N],
                  size : Nat]
    BY <2>1, <2>2, <1>2, <1>7
  <2> QED BY <2>3 DEF Instruction
<1>11. Puts' = Puts \cup {L + 1} /\ \A n \in Puts : n \in 1 .. L
  <2>1. \A n \in 1 .. L + 1 : n \in 1 .. L \/ n = L + 1
    BY <1>8
  <2>2. \A n \in 1 .. L : n \in 1 .. L + 1
    BY <1>8
  <2>3. call.op = "put" /\ L + 1 \in 1 .. L + 1
    BY <1>8
  <2> QED BY <2>1, <2>2, <2>3, <1>8 DEF Puts
<1>12. /\ \A n \in Puts : program'[n] = program[n] /\ program[n].object \in Objects
       /\ program'[L + 1].object = o /\ program'[L + 1].in = in[o] /\ L + 1 \notin Puts
  <2>1. \A n \in Puts : program'[n] = program[n]
    BY <1>8, <1>11
  <2>2. \A n \in Puts : program[n].object \in Objects
    <3>1. \A n \in Puts : program[n] \in Instruction(N) /\ program[n].op = "put"
      BY <1>8, <1>11 DEF Puts
    <3> QED BY <3>1 DEF Instruction
  <2>3. L + 1 \notin Puts
    BY <1>8, <1>11
  <2> QED BY <2>1, <2>2, <2>3, <1>8
<1> HIDE DEF call
<1>13. /\ Edges' = Edges /\ \A B : Blocked(B)' <=> Blocked(B)
       /\ \A s : Readers(s)' = Readers(s) /\ \A p, i : Sources(p, i)' = Sources(p, i)
  <2>1. Edges' = Edges
    BY <1>1 DEF Edges
  <2> QED BY <2>1, <1>1 DEF Blocked, Readers, Sources
<1>14. Unpassed' = Unpassed /\ \A e \in Edges : e[1] = o => e \in Unpassed
  <2>1. ASSUME NEW e \in Edges PROVE AheadIn(conns, g, e) <=> e[1] = o
    <3>1. ASSUME e[1] = o PROVE AheadIn(conns, g, e)
      BY <3>1, <1>1, <1>2, <1>3, WalkBegin
    <3>2. ASSUME AheadIn(conns, g, e) PROVE e[1] = o
      <4>1. PICK k \in Outs : \E i \in 1 .. Len(conns[<<g.object, k>>]) :
                                 e = <<g.object, k, conns[<<g.object, k>>][i]>>
        BY <3>2 DEF AheadIn
      <4> QED BY <4>1, <1>3
    <3> QED BY <3>1, <3>2
  <2>2. Unpassed' = {e \in Edges : \/ pred_cnt[e[1]] # SCHEDULED
                                   \/ AheadIn(conns, g, e)}
    BY <1>1, <1>5, <1>6, <1>13 DEF Unpassed, Ahead
  <2>3. Unpassed = {e \in Edges : \/ pred_cnt[e[1]] # SCHEDULED \/ e[1] = o}
    BY <1>0, <1>6 DEF Unpassed
  <2> QED BY <2>1, <2>2, <2>3
<1>15. \A p \in Objects : pred_cnt[p] = SCHEDULED =>
          \A e \in Edges : e[3].dst = p => e[1] # o
  BY <1>1, <1>14 DEF Counted, Into
<1>16. Types'
  <2>1. program' \in Seq(Instruction(Len(signals')))
    BY <1>0, <1>1, <1>7, <1>10 DEF Types
  <2>2. \A r \in 1 .. Len(signals') : signals'[r].refcnt >= SIGNAL_PENDING
    BY <1>0, <1>1, <1>7 DEF Types
  <2> QED BY <2>1, <2>2, <1>0, <1>1, <1>5, <1>7 DEF Types
<1>17. Graph'
  BY <1>1, <1>13 DEF Graph
<1>18. Stack'
  BY <1>0, <1>1, <1>3, <1>4, StackTop
<1>19. Reached'
  <2>1. \A p \in Objects : pred_cnt'[p] = 0 /\ Met(p) => Met(p)'
    BY <1>0, <1>1, <1>3, <1>4, MetTop
  <2>2. ToSet(objects) \subseteq Objects
    BY <1>1 DEF Types, ToSet
  <2> QED BY <2>1, <2>2, <1>1 DEF Reached
<1>20. Counted' /\ LoopsWait'
  <2>1. Counted'
    BY <1>1, <1>14 DEF Counted
  <2> QED BY <2>1, <1>1, <1>13 DEF LoopsWait
<1>21. \A n \in Puts : program[n].object # o /\ pred_cnt[program[n].object] = SCHEDULED
  BY <1>0, <1>1, <1>6 DEF PutScheduled
<1>22. PutOnce' /\ PutScheduled'
  <2>1. \A m, n \in Puts : program'[m].object = program'[n].object => m = n
    <3>1. \A n \in Puts : program'[n].object = program[n].object
      BY <1>12
    <3>2. \A m, n \in Puts : program[m].object = program[n].object => m = n
      BY <1>1 DEF PutOnce
    <3> QED BY <3>1, <3>2
  <2>2. PutOnce'
    BY <2>1, <1>11, <1>12, <1>21 DEF PutOnce
  <2>3. \A n \in Puts' : pred_cnt[program'[n].object] = SCHEDULED
    BY <1>2, <1>11, <1>12, <1>21
  <2> QED BY <2>2, <2>3, <1>1, <1>6 DEF PutScheduled
<1>23. PutBehind'
  <2>1. ASSUME NEW e \in Edges, NEW m \in Puts', NEW n \in Puts',
               program'[m].object = e[1], program'[n].object = e[3].dst
        PROVE  m < n
    <3>1. CASE m \in Puts /\ n \in Puts
      BY <3>1, <2>1, <1>1, <1>12 DEF PutBehind
    <3>2. CASE m \in Puts /\ n = L + 1
      BY <3>2, <1>8, <1>11
    <3>3. CASE m = L + 1
      <4>1. e[1] = o
        BY <3>3, <2>1, <1>12
      <4>2. pred_cnt[e[3].dst] = SCHEDULED
        BY <2>1, <1>2, <1>11, <1>12, <1>21
      <4> QED BY <4>1, <4>2, <1>2, <1>15
    <3> QED BY <3>1, <3>2, <3>3, <1>11
  <2> QED BY <2>1, <1>13 DEF PutBehind
<1>24. Counts'
  <2>1. signals' # <<>> /\ signals'[sig_zero].refcnt = 1
    BY <1>1, <1>2, <1>7 DEF Counts
  <2>2. ASSUME NEW r \in 1 .. Len(signals'), r # sig_zero
        PROVE  \/ signals'[r].refcnt = Cardinality(Readers(r)')
               \/ /\ Pending(r)' /\ Readers(r)' = {}
                  /\ Scheduling("edges")'
                  /\ \E j \in Outs : out'[Top'.object][j] = r
    <3>1. Pending(r)' <=> Pending(r)
      BY <1>7 DEF Pending
    <3> QED BY <3>1, <2>2, <1>0, <1>1, <1>6, <1>7, <1>13 DEF Counts
  <2> QED BY <2>1, <2>2 DEF Counts
<1>25. Waiting' /\ Outputs'
  <2>1. Waiting'
    BY <1>1 DEF Waiting
  <2>2. \A k \in Outs : signals'[out'[o][k]].refcnt = SIGNAL_PENDING
    BY <1>1, <1>7, <1>9 DEF Pending
  <2>3. \A j, k \in Outs : out'[o][j] = out'[o][k] => j = k
    BY <1>1, <1>9
  <2> QED BY <2>1, <2>2, <2>3, <1>6 DEF Outputs, Pending
<1>26. /\ Follows(program, 1 .. Len(signals), Content)'
       /\ \A n \in 0 .. L, s \in 1 .. N : Content'[n][s] = Content[n][s]
       /\ \A s \in 1 .. N : Now'[s] = IF \E k \in Outs : out[o][k] = s
                                      THEN {<<o, k>> : k \in {j \in Outs : out[o][j] = s}} ELSE Now[s]
  <2>1. /\ Follows(program, 1 .. Len(signals), Content)
        /\ call \in Instruction(Len(signals')) /\ Len(signals) <= Len(signals')
    BY <1>0, <1>1, <1>2, <1>7, <1>10 DEF Contents
  <2>2. /\ Follows(program, 1 .. Len(signals), Content)'
        /\ \A n \in 0 .. Len(program), s \in 1 .. Len(signals) : Content'[n][s] = Content[n][s]
        /\ \E b : /\ b = [s \in 1 .. Len(signals') |-> b[s]]
                  /\ \A s \in 1 .. Len(signals) : b[s] = Now[s]
                  /\ Now' = Leaves(call, 1 .. Len(signals'), b)
    BY <2>1, <1>1, <1>7, ProgramGrows
  <2>3. PICK b : /\ \A s \in 1 .. N : b[s] = Now[s]
                 /\ Now' = Leaves(call, 1 .. N, b)
    BY <2>2, <1>0, <1>7
  <2>4. call.op # "add" /\ call.object = o /\ call.out = out[o]
    BY DEF call
  <2> DEFINE Own(s) == {<<o, k>> : k \in {j \in Outs : out[o][j] = s}}
  <2>5. Now' = [s \in 1 .. N |-> IF \E k \in Outs : out[o][k] = s THEN Own(s) ELSE b[s]]
    BY <2>3, <2>4 DEF Leaves
  <2> HIDE DEF Own
  <2>6. \A s \in 1 .. N : Now'[s] = IF \E k \in Outs : out[o][k] = s THEN Own(s) ELSE Now[s]
    BY <2>3, <2>5
  <2> QED BY <2>2, <2>6, <1>0 DEF Own
<1>27. Contents'
  <2>1. \A s \in 1 .. N : (\A k \in Outs : out[o][k] # s) => Now'[s] = Now[s]
    BY <1>26
  <2>2. \A p, i : Passed(p, i)' = Passed(p, i)
    BY <1>1, <1>13, <1>14 DEF Passed
  <2>3. InputsSum'
    <3>1. ASSUME NEW p \in ToSet(objects), NEW i \in Ins, pred_cnt[p] # SCHEDULED
          PROVE  InletSum(p, i)'
      <4>1. p \in Objects
        BY <1>1 DEF Types, ToSet
      <4>2. ASSUME in[p][i] # Nil PROVE Now'[in[p][i]] = Now[in[p][i]]
        <5>1. in[p][i] \in 1 .. N
          BY <4>1, <4>2, <1>2 DEF Nil
        <5>2. \A k \in Outs : out[o][k] # in[p][i]
          BY <3>1, <1>0, <1>1, <1>9, PendingUnread
        <5> QED BY <5>1, <5>2, <2>1
      <4>3. InletSum(p, i)
        BY <3>1, <1>1 DEF Contents, InputsSum
      <4> QED BY <4>1, <4>2, <4>3, <3>1, <2>2, <1>1, <1>7, InletKept
    <3> QED BY <3>1, <1>1 DEF InputsSum
  <2>4. TopHears'
    <3>1. ASSUME NEW k \in Outs PROVE Now'[out[o][k]] = {<<o, k>>}
      <4>1. Now'[out[o][k]] = {<<o, l>> : l \in {j \in Outs : out[o][j] = out[o][k]}}
        BY <1>9, <1>26
      <4>2. {j \in Outs : out[o][j] = out[o][k]} = {k}
        BY <1>9
      <4> QED BY <4>1, <4>2
    <3> QED BY <3>1, <1>1, <1>6 DEF TopHears
  <2>5. Heard'
    <3>a. \A p, i : Even(p, i)' <=> Even(p, i)
      BY <1>1, <1>7, <1>13, EvenStays
    <3>1. ASSUME NEW n \in Puts, NEW i \in Ins
          PROVE  \E p : /\ p = program'[n].object
                        /\ Even(p, i) => Content'[n - 1][program'[n].in[i]] = Sources(p, i)'
      <4>1. program[n] \in Instruction(N) /\ program[n].op = "put" /\ n - 1 \in 0 .. L
        BY <1>8, <1>11 DEF Puts
      <4>2. program[n].in[i] \in 1 .. N
        BY <4>1 DEF Instruction
      <4>3. PICK p : p = program[n].object
        OBVIOUS
      <4>4. Even(p, i) => Content[n - 1][program[n].in[i]] = Sources(p, i)
        BY <4>3, <1>1 DEF Contents, Heard
      <4>5. Even(p, i) => Content'[n - 1][program'[n].in[i]] = Sources(p, i)'
        BY <4>1, <4>2, <4>4, <1>12, <1>13, <1>26
      <4>6. program'[n].object = p
        BY <4>3, <1>12
      <4> QED BY <4>5, <4>6
    <3>2. ASSUME NEW i \in Ins
          PROVE  \E p : /\ p = program'[L + 1].object
                        /\ Even(p, i) => Content'[L][program'[L + 1].in[i]] = Sources(p, i)'
      <4>1. Even(o, i) => Content[L][in[o][i]] = Sources(o, i)
        <5>1. Even(Top.object, i) => Now[in[Top.object][i]] = Sources(Top.object, i)
          BY <1>1, <1>6 DEF Contents, TopHears
        <5> QED BY <5>1, <1>0 DEF Now
      <4>2. in[o][i] \in 1 .. N /\ L \in 0 .. L
        BY <1>2, <1>8, <1>9 DEF Nil
      <4>3. Even(o, i) => Content'[L][in[o][i]] = Sources(o, i)'
        BY <4>1, <4>2, <1>13, <1>26
      <4>4. program'[L + 1].object = o
        BY <1>12
      <4> QED BY <4>3, <4>4, <1>12
    <3>3. (L + 1) - 1 = L
      BY <1>8
    <3>4. ASSUME NEW n \in Puts', NEW i \in Ins
          PROVE  \E p : /\ p = program'[n].object
                        /\ Even(p, i) => Content'[n - 1][program'[n].in[i]] = Sources(p, i)'
      BY <3>1, <3>2, <3>3, <1>11
    <3>5. ASSUME NEW n \in Puts', NEW i \in Ins, Even(program[n].object, i)'
          PROVE  Content'[n - 1][program'[n].in[i]] = Sources(program[n].object, i)'
      <4>1. PICK p : /\ p = program'[n].object
                     /\ Even(p, i) => Content'[n - 1][program'[n].in[i]] = Sources(p, i)'
        BY <3>4
      <4>2. Even(p, i)'
        BY <3>5, <4>1
      <4> QED BY <4>1, <4>2, <3>a
    <3> QED BY <3>5 DEF Heard
  <2>6. (\A n \in 0 .. Len(program) : Content[n][sig_zero] = {})'
    <3>1. Now[sig_zero] = {} /\ \A n \in 0 .. L : Content[n][sig_zero] = {}
      BY <1>0, <1>1, <1>8 DEF Contents, Now
    <3>2. Now'[sig_zero] = {}
      BY <3>1, <2>1, <1>1, <1>2, <1>7 DEF Waiting
    <3>3. Content'[L + 1][sig_zero] = {}
      BY <3>2, <1>8 DEF Now
    <3>4. \A n \in 0 .. L + 1 : n \in 0 .. L \/ n = L + 1
      BY <1>8
    <3> QED BY <3>1, <3>3, <3>4, <1>7, <1>8, <1>26
  <2> QED BY <2>3, <2>4, <2>5, <2>6, <1>26 DEF Contents
<1> QED BY <1>16, <1>17, <1>18, <1>19, <1>20, <1>22, <1>23, <1>24, <1>25, <1>27 DEF IInv

-----------------------------------------------------------------------------
(* dsp_graph_dec_pred_inc_refcnt.                                           *)

\* A connection is passed: what this means for the counts of predecessors
\* and the walk, whatever it does to the signals.
LEMMA EdgeWalk ==
  ASSUME IInv, Edge, NEW o, NEW k, NEW c, o = Top.object, k = Top.outlet, c = Here[Top.at]
  PROVE  /\ o \in Objects /\ k \in Outs /\ c \in Conn /\ c.dst \in Objects /\ c.inlet \in Ins
         /\ c.dst \in ToSet(objects) /\ c.dst # o
         /\ <<o, k, c>> \in Edges /\ <<o, k, c>> \in Unpassed
         /\ pred_cnt[o] = SCHEDULED /\ pred_cnt[c.dst] # SCHEDULED
         /\ pred_cnt' \in [Objects -> Int]
         /\ \A p \in Objects : pred_cnt'[p] = SCHEDULED <=> pred_cnt[p] = SCHEDULED
         /\ Unpassed' = Unpassed \ {<<o, k, c>>}
         /\ Scheduling("edges") /\ ~Scheduling("outputs")
         /\ Scheduling("edges")' /\ ~Scheduling("outputs")' /\ Top'.object = o /\ Top'.outlet = k
         /\ frames' \in Seq(Frame)
         /\ UNCHANGED <<objects, conns, status, roots, out>> /\ Edges' = Edges
         /\ Graph' /\ Stack' /\ Counted' /\ Reached' /\ LoopsWait'
<1> DEFINE g == NextEdge(Top)
           here == <<o, k, c>>
<1>1. /\ Types /\ Graph /\ Stack /\ Counted /\ Reached /\ LoopsWait
      /\ phase = "schedule" /\ frames # <<>> /\ frames \in Seq(Frame)
      /\ Top.walk = "edges" /\ k \in Outs /\ Top.at <= Len(conns[<<o, k>>])
      /\ c = conns[<<o, k>>][Top.at]
      /\ UNCHANGED <<objects, conns, status, roots, out>>
      /\ conns \in [Objects \X Outs -> Seq(Conn)] /\ pred_cnt \in [Objects -> Int]
      /\ phase' \in {"schedule", "crashed"}
      /\ pred_cnt' = [pred_cnt EXCEPT ![c.dst] = @ - 1]
  BY DEF IInv, Edge, InWalk, AtEdge, Here, Types, graphVars
<1>2. /\ Edges = EdgesOf(conns) /\ NoDouble(conns) /\ Top = frames[Len(frames)] /\ Top \in Frame
      /\ \A e \in Edges : /\ e[1] \in Objects /\ e[2] \in Outs /\ e[3] \in Conn
                          /\ e[3].dst \in Objects /\ e[3].inlet \in Ins
      /\ \A E \in SUBSET Edges : IsFiniteSet(E)
      /\ Len(frames) \in 1 .. Len(frames) /\ DOMAIN frames = 1 .. Len(frames) /\ o \in Objects
      /\ pred_cnt[o] = SCHEDULED
      /\ Top.at \in Nat \ {0} /\ Top.outlet \in Nat \ {0}
  <2>1. pred_cnt[frames[Len(frames)].object] = SCHEDULED
    BY <1>1, Facts DEF Stack
  <2>2. Top.at \in Nat \ {0} /\ Top.outlet \in Nat \ {0}
    BY <1>1, Facts DEF Frame
  <2> QED BY <2>1, <2>2, <1>1, Facts
<1>3. g \in Frame /\ g.object = o /\ g.outlet = k /\ g.at = Top.at + 1 /\ g.walk = "edges"
  <2>1. g.object = o /\ g.outlet = k /\ g.at = Top.at + 1 /\ g.walk = "edges"
    BY <1>1, <1>2 DEF Frame, NextEdge
  <2>2. g = [x \in {"object", "outlet", "at", "walk"} |-> g[x]]
    BY <1>2 DEF Frame, NextEdge
  <2> HIDE DEF g
  <2>3. /\ g.object \in Objects /\ g.outlet \in Nat \ {0} /\ g.at \in Nat \ {0}
        /\ g.walk \in {"outputs", "edges", "depth"}
    BY <2>1, <1>2
  <2>4. g \in Frame
    BY <2>2, <2>3, IsFrame
  <2> QED BY <2>1, <2>4
<1>4. frames' = [frames EXCEPT ![Len(frames)] = g]
  BY <1>2 DEF Edge, Moved
<1> HIDE DEF g
<1>5. /\ frames' \in Seq(Frame) /\ frames' # <<>> /\ Top' = g
      /\ Len(frames') = Len(frames) /\ frames'[Len(frames)] = g
  BY <1>1, <1>3, <1>4, TopSet
<1>6. /\ Scheduling("edges") /\ ~Scheduling("outputs")
      /\ Scheduling("edges")' /\ ~Scheduling("outputs")' /\ Top'.object = o /\ Top'.outlet = k
  BY <1>1, <1>3, <1>5 DEF Scheduling
<1>7. /\ here \in Edges /\ Ahead(Top, here) /\ c \in Conn /\ c.dst \in Objects /\ c.inlet \in Ins
      /\ c.dst \in ToSet(objects)
      /\ \A e \in Edges : AheadIn(conns, g, e) <=> (Ahead(Top, e) /\ e # here)
  <2>1. PICK f \in Frame : f = Top
    BY <1>2
  <2>2. /\ NoDouble(conns) /\ f.outlet \in Outs /\ f.at <= Len(conns[<<f.object, f.outlet>>])
        /\ g \in Frame /\ g.object = f.object /\ g.outlet = f.outlet /\ g.at = f.at + 1
    BY <2>1, <1>1, <1>2, <1>3
  <2>3. /\ <<f.object, f.outlet, conns[<<f.object, f.outlet>>][f.at]>> \in EdgesOf(conns)
        /\ AheadIn(conns, f, <<f.object, f.outlet, conns[<<f.object, f.outlet>>][f.at]>>)
        /\ \A e \in EdgesOf(conns) : AheadIn(conns, g, e) <=>
             (AheadIn(conns, f, e) /\ e # <<f.object, f.outlet, conns[<<f.object, f.outlet>>][f.at]>>)
    BY <1>1, <2>2, WalkEdge
  <2>4. here = <<f.object, f.outlet, conns[<<f.object, f.outlet>>][f.at]>>
    BY <2>1, <1>1
  <2>5. here[3] = c
    OBVIOUS
  <2> HIDE DEF here
  <2>6. here \in Edges /\ Ahead(Top, here)
    BY <2>1, <2>3, <2>4, <1>2 DEF Ahead
  <2>7. \A e \in Edges : AheadIn(conns, g, e) <=> (Ahead(Top, e) /\ e # here)
    BY <2>1, <2>3, <2>4, <1>2 DEF Ahead
  <2>8. c \in Conn /\ c.dst \in Objects /\ c.inlet \in Ins
    BY <2>5, <2>6, <1>2
  <2>9. c.dst \in ToSet(objects)
    BY <2>5, <2>6, <1>1 DEF Graph
  <2> QED BY <2>6, <2>7, <2>8, <2>9
<1>a. here[1] = o /\ here[3] = c
  OBVIOUS
<1> HIDE DEF here
<1>8. here \in Unpassed /\ here \in Into(c.dst, Unpassed)
  BY <1>6, <1>7, <1>a DEF Unpassed, Into
<1>9. pred_cnt[c.dst] # SCHEDULED /\ c.dst # o
  BY <1>1, <1>2, <1>7, <1>8 DEF Counted
<1> DEFINE A == Into(c.dst, Unpassed)
<1>10. /\ pred_cnt[c.dst] = Cardinality(A) /\ Cardinality(A) \in Nat /\ Cardinality(A) # 0
       /\ Cardinality(A \ {here}) = Cardinality(A) - 1
  <2>1. IsFiniteSet(A)
    BY <1>2 DEF Into, Unpassed
  <2>2. here \in A /\ pred_cnt[c.dst] = Cardinality(A)
    BY <1>1, <1>7, <1>8, <1>9 DEF Counted
  <2> HIDE DEF A
  <2>3. Cardinality(A) \in Nat /\ Cardinality(A) # 0
    BY <2>1, <2>2, FS_CardinalityType, FS_EmptySet
  <2>4. Cardinality(A \ {here}) = Cardinality(A) - 1
    BY <2>1, <2>2, FS_RemoveElement
  <2> QED BY <2>2, <2>3, <2>4
<1>11. /\ pred_cnt' \in [Objects -> Int]
       /\ pred_cnt'[c.dst] = Cardinality(A) - 1
       /\ \A p \in Objects : p # c.dst => pred_cnt'[p] = pred_cnt[p]
       /\ \A p \in Objects : pred_cnt'[p] = SCHEDULED <=> pred_cnt[p] = SCHEDULED
  <2> HIDE DEF A
  <2>1. /\ pred_cnt' \in [Objects -> Int]
        /\ pred_cnt'[c.dst] = Cardinality(A) - 1
        /\ \A p \in Objects : p # c.dst => pred_cnt'[p] = pred_cnt[p]
    BY <1>1, <1>7, <1>10
  <2>2. pred_cnt'[c.dst] # SCHEDULED
    BY <2>1, <1>10 DEF SCHEDULED
  <2> QED BY <2>1, <2>2, <1>9
<1>12. Edges' = Edges
  BY <1>1 DEF Edges
<1>13. Unpassed' = Unpassed \ {here}
  <2>1. Unpassed' = {e \in Edges : pred_cnt'[e[1]] # SCHEDULED \/ AheadIn(conns, g, e)}
    BY <1>1, <1>5, <1>6, <1>12 DEF Unpassed, Ahead
  <2>2. Unpassed = {e \in Edges : pred_cnt[e[1]] # SCHEDULED \/ Ahead(Top, e)}
    BY <1>6 DEF Unpassed
  <2>3. \A e \in Edges : pred_cnt'[e[1]] # SCHEDULED <=> pred_cnt[e[1]] # SCHEDULED
    BY <1>2, <1>11
  <2>4. pred_cnt[here[1]] = SCHEDULED
    BY <1>2, <1>a
  <2> QED BY <2>1, <2>2, <2>3, <2>4, <1>7
<1>14. Counted'
  <2>1. ASSUME NEW p \in Objects
        PROVE  /\ pred_cnt'[p] = SCHEDULED => Into(p, Unpassed) \ {here} = {}
               /\ pred_cnt'[p] # SCHEDULED => pred_cnt'[p] = Cardinality(Into(p, Unpassed) \ {here})
    <3>1. CASE p = c.dst
      BY <3>1, <1>9, <1>10, <1>11
    <3>2. CASE p # c.dst
      <4>1. Into(p, Unpassed) \ {here} = Into(p, Unpassed)
        BY <3>2, <1>a DEF Into
      <4> QED BY <4>1, <3>2, <1>1, <1>11 DEF Counted
    <3> QED BY <3>1, <3>2
  <2>2. \A p : Into(p, Unpassed)' = Into(p, Unpassed) \ {here}
    BY <1>13 DEF Into
  <2> QED BY <2>1, <2>2 DEF Counted
<1>15. Graph'
  BY <1>1, <1>12 DEF Graph
<1>16. Stack'
  BY <1>1, <1>3, <1>4, <1>11, StackTop
<1>17. Reached'
  <2>1. \A p \in Objects : pred_cnt'[p] = 0 /\ Met(p) => Met(p)'
    BY <1>1, <1>3, <1>4, MetTop
  <2>2. Met(c.dst)'
    <3>1. /\ Len(frames) \in 1 .. Len(frames') /\ here \in Edges' /\ here[1] = frames'[Len(frames)].object
          /\ here[3].dst = c.dst /\ frames'[Len(frames)].walk # "depth"
      BY <1>2, <1>3, <1>5, <1>7, <1>12, <1>a
    <3>2. PICK d : d = c.dst
      OBVIOUS
    <3>3. Met(d)'
      BY <3>1, <3>2 DEF Met
    <3> QED BY <3>2, <3>3
  <2>3. ToSet(objects) \subseteq Objects
    BY <1>1 DEF Types, ToSet
  <2>4. ASSUME NEW p \in ToSet(objects), pred_cnt'[p] = 0 PROVE Met(p)'
    <3>1. CASE p = c.dst
      BY <3>1, <2>2
    <3>2. CASE p # c.dst
      BY <3>2, <2>1, <2>3, <2>4, <1>1, <1>11 DEF Reached
    <3> QED BY <3>1, <3>2
  <2> QED BY <2>4, <1>1 DEF Reached
<1>18. LoopsWait'
  <2>1. \A B : Blocked(B)' <=> Blocked(B)
    BY <1>12 DEF Blocked
  <2>2. \A p \in ToSet(objects) : pred_cnt[p] # SCHEDULED => pred_cnt'[p] # SCHEDULED
    <3>1. \A p \in ToSet(objects) : p \in Objects
      BY <1>1 DEF Types, ToSet
    <3> QED BY <3>1, <1>11
  <2> QED BY <2>1, <2>2, <1>1 DEF LoopsWait
<1> QED BY <1>1, <1>2, <1>5, <1>6, <1>7, <1>8, <1>9, <1>11, <1>12, <1>13, <1>14, <1>15, <1>16, <1>17, <1>18 DEF here

\* The connection that is passed is one of the sources of its inlet, if it
\* carries a signal.
LEMMA EdgePassed ==
  ASSUME NEW o, NEW k, NEW c, <<o, k, c>> \in Unpassed, Edges' = Edges, out' = out,
         Unpassed' = Unpassed \ {<<o, k, c>>}
  PROVE  /\ \A p, i : Passed(p, i)' = Passed(p, i) \cup
              (IF p = c.dst /\ i = c.inlet /\ c.kind = "signal" /\ out[o][k] # Nil
               THEN {<<o, k>>} ELSE {})
         /\ \A p, i : Sources(p, i)' = Sources(p, i)
<1> DEFINE here == <<o, k, c>>
<1>1. here[1] = o /\ here[2] = k /\ here[3] = c /\ here \in Edges
  BY DEF Unpassed
<1> HIDE DEF here
<1>2. Edges \ Unpassed' = (Edges \ Unpassed) \cup {here} /\ here \notin Edges \ Unpassed
  BY <1>1 DEF here
<1>3. ASSUME NEW p, NEW i
      PROVE  Passed(p, i)' = Passed(p, i) \cup
               (IF p = c.dst /\ i = c.inlet /\ c.kind = "signal" /\ out[o][k] # Nil
                THEN {<<o, k>>} ELSE {})
  <2> DEFINE Good(x) == /\ x[3].dst = p /\ x[3].inlet = i /\ x[3].kind = "signal"
                        /\ out[x[1]][x[2]] # Nil
  <2>1. Passed(p, i)' = {<<e[1], e[2]>> : e \in {x \in (Edges \ Unpassed) \cup {here} : Good(x)}}
    BY <1>2 DEF Passed
  <2>2. Passed(p, i) = {<<e[1], e[2]>> : e \in {x \in Edges \ Unpassed : Good(x)}}
    BY DEF Passed
  <2>3. Good(here) <=> (p = c.dst /\ i = c.inlet /\ c.kind = "signal" /\ out[o][k] # Nil)
    BY <1>1
  <2> HIDE DEF Good
  <2>4. CASE Good(here)
    <3>1. {x \in (Edges \ Unpassed) \cup {here} : Good(x)} = {x \in Edges \ Unpassed : Good(x)} \cup {here}
      BY <2>4
    <3>2. Passed(p, i)' = Passed(p, i) \cup {<<here[1], here[2]>>}
      BY <2>1, <2>2, <3>1
    <3> QED BY <3>2, <2>3, <2>4, <1>1
  <2>5. CASE ~Good(here)
    <3>1. {x \in (Edges \ Unpassed) \cup {here} : Good(x)} = {x \in Edges \ Unpassed : Good(x)}
      BY <2>5
    <3> QED BY <2>1, <2>2, <2>3, <2>5, <3>1
  <2> QED BY <2>4, <2>5
<1>4. \A p, i : Sources(p, i)' = Sources(p, i)
  BY DEF Sources
<1> QED BY <1>3, <1>4

\* What is left to show when a connection has been passed.
LEMMA EdgeKeeps ==
  ASSUME IInv, Edge, NEW o, NEW k, NEW c, o = Top.object, k = Top.outlet, c = Here[Top.at],
         Types', Counts', Waiting', Outputs', Contents', Puts' = Puts,
         \A n \in Puts : program'[n].object = program[n].object
  PROVE  IInv'
<1>1. PutOnce /\ PutScheduled /\ PutBehind /\ Types
  BY DEF IInv, Edge, InWalk
<1>2. /\ \A p \in Objects : pred_cnt'[p] = SCHEDULED <=> pred_cnt[p] = SCHEDULED
      /\ ~Scheduling("outputs")' /\ Edges' = Edges
      /\ Graph' /\ Stack' /\ Counted' /\ Reached' /\ LoopsWait'
  BY EdgeWalk
<1>3. PutOnce'
  BY <1>1 DEF PutOnce
<1>4. PutScheduled'
  <2>1. ASSUME NEW n \in Puts PROVE program[n].object \in Objects
    <3>1. program[n] \in Instruction(Len(signals)) /\ program[n].op = "put"
      BY <1>1 DEF Types, Puts
    <3> QED BY <3>1 DEF Instruction
  <2> QED BY <2>1, <1>1, <1>2 DEF PutScheduled
<1>5. PutBehind'
  BY <1>1, <1>2 DEF PutBehind
<1> QED BY <1>2, <1>3, <1>4, <1>5 DEF IInv

\* A connection that changes no signal: one that only forces an order, or that
\* comes from an outlet without a signal to an inlet without one.
LEMMA EdgeQuiet ==
  ASSUME IInv, Edge, NEW o, NEW k, NEW c, o = Top.object, k = Top.outlet, c = Here[Top.at],
         c.kind # "signal" \/ out[o][k] = Nil,
         UNCHANGED <<in, signals, program, phase>>
  PROVE  IInv'
<1>1. /\ Types /\ Graph /\ Counts /\ Waiting /\ Outputs /\ Contents
      /\ ToSet(objects) \subseteq Objects
  BY DEF IInv, Edge, InWalk, Types, ToSet
<1>2. /\ o \in Objects /\ k \in Outs /\ c.dst \in Objects
      /\ <<o, k, c>> \in Unpassed /\ pred_cnt' \in [Objects -> Int]
      /\ \A p \in Objects : pred_cnt'[p] = SCHEDULED <=> pred_cnt[p] = SCHEDULED
      /\ Unpassed' = Unpassed \ {<<o, k, c>>}
      /\ Scheduling("edges") /\ ~Scheduling("outputs")
      /\ Scheduling("edges")' /\ ~Scheduling("outputs")' /\ Top'.object = o /\ Top'.outlet = k
      /\ frames' \in Seq(Frame)
      /\ UNCHANGED <<objects, conns, status, roots, out>> /\ Edges' = Edges
  BY EdgeWalk
<1>3. \A p, i : Passed(p, i)' = Passed(p, i) /\ Sources(p, i)' = Sources(p, i)
  <2>1. ASSUME NEW p, NEW i
        PROVE  /\ Passed(p, i)' = Passed(p, i) \cup
                    (IF p = c.dst /\ i = c.inlet /\ c.kind = "signal" /\ out[o][k] # Nil
                     THEN {<<o, k>>} ELSE {})
               /\ Sources(p, i)' = Sources(p, i)
    BY <1>2, EdgePassed
  <2>2. ASSUME NEW p, NEW i
        PROVE  ~(p = c.dst /\ i = c.inlet /\ c.kind = "signal" /\ out[o][k] # Nil)
    OBVIOUS
  <2> QED BY <2>1, <2>2
<1>4. Content' = Content /\ Puts' = Puts /\ Now' = Now
  <2>1. Content' = Content
    BY ContentIs
  <2> QED BY <2>1 DEF Puts, Now
<1>5. \A s : Readers(s)' = Readers(s)
  <2>1. \A x \in ToSet(objects) \X Ins : x[1] \in Objects
    BY <1>1
  <2> QED BY <2>1, <1>2 DEF Readers
<1>6. Types'
  BY <1>1, <1>2 DEF Types
<1>7. Counts'
  <2>1. signals' # <<>> /\ signals'[sig_zero].refcnt = 1
    BY <1>1 DEF Counts
  <2>2. ASSUME NEW r \in 1 .. Len(signals'), r # sig_zero
        PROVE  \/ signals'[r].refcnt = Cardinality(Readers(r)')
               \/ /\ Pending(r)' /\ Readers(r)' = {}
                  /\ Scheduling("edges")'
                  /\ \E j \in Outs : out'[Top'.object][j] = r
    <3>1. Pending(r)' <=> Pending(r)
      BY DEF Pending
    <3> QED BY <3>1, <2>2, <1>1, <1>2, <1>5 DEF Counts
  <2> QED BY <2>1, <2>2 DEF Counts
<1>8. Waiting'
  BY <1>1, <1>2 DEF Waiting
<1>9. Outputs'
  <2>1. \A j \in Outs : j > k /\ out'[o][j] # Nil => signals'[out'[o][j]].refcnt = SIGNAL_PENDING
    BY <1>1, <1>2 DEF Outputs, Pending
  <2>2. \A i, j \in Outs : out'[o][i] = out'[o][j] /\ out'[o][i] # Nil => i = j
    BY <1>1, <1>2 DEF Outputs
  <2> QED BY <2>1, <2>2, <1>2 DEF Outputs, Pending
<1>10. Contents'
  <2>1. /\ Follows(program, 1 .. Len(signals), Content)'
        /\ (\A n \in 0 .. Len(program) : Content[n][sig_zero] = {})'
    BY <1>1, <1>4 DEF Contents, Follows
  <2>a. LengthsKept
    BY <1>2 DEF LengthsKept
  <2>2. InputsSum'
    <3>1. ASSUME NEW p \in ToSet(objects), NEW i \in Ins, pred_cnt[p] # SCHEDULED
          PROVE  InletSum(p, i)'
      <4>1. InletSum(p, i) /\ p \in Objects
        BY <3>1, <1>1 DEF Contents, InputsSum
      <4> QED BY <4>1, <3>1, <2>a, <1>1, <1>3, <1>4, InletKept
    <3> QED BY <3>1, <1>1, <1>2 DEF InputsSum
  <2>3. TopHears'
    BY <1>1, <1>2, <1>4 DEF Contents, TopHears
  <2>4. Heard'
    <3>1. \A p, i : Even(p, i)' <=> Even(p, i)
      BY <2>a, <1>1, <1>3, EvenStays
    <3> QED BY <3>1, <1>1, <1>3, <1>4 DEF Contents, Heard
  <2> QED BY <2>1, <2>2, <2>3, <2>4 DEF Contents
<1> QED BY <1>4, <1>6, <1>7, <1>8, <1>9, <1>10, EdgeKeeps

\* One more reader is a set with one element more.
LEMMA OneMore == ASSUME NEW A, IsFiniteSet(A), NEW x, x \notin A
                 PROVE  /\ Cardinality(A) \in Nat /\ Cardinality(A \cup {x}) = Cardinality(A) + 1
                        /\ Cardinality(A \cup {x}) \in Nat
<1>1. Cardinality(A \cup {x}) = Cardinality(A) + 1 /\ IsFiniteSet(A \cup {x})
  BY FS_AddElement
<1> QED BY <1>1, FS_CardinalityType

\* The readers of a signal when one inlet of an object that waits gets another.
LEMMA InletReaders ==
  ASSUME Types, UNCHANGED objects,
         \A p \in Objects : pred_cnt'[p] = SCHEDULED <=> pred_cnt[p] = SCHEDULED,
         NEW d \in Objects, d \in ToSet(objects), pred_cnt[d] # SCHEDULED, NEW l \in Ins,
         NEW s, in'[d][l] = s,
         \A p \in Objects, i \in Ins : ~(p = d /\ i = l) => in'[p][i] = in[p][i]
  PROVE  /\ \A r : <<d, l>> \in Readers(r) <=> r = in[d][l]
         /\ Readers(s)' = Readers(s) \cup {<<d, l>>}
         /\ \A r : r # s => Readers(r)' = Readers(r) \ {<<d, l>>}
<1>1. \A p \in ToSet(objects) : p \in Objects
  BY DEF Types, ToSet
<1>2. /\ in'[d][l] = s
      /\ \A p \in Objects, i \in Ins : ~(p = d /\ i = l) => in'[p][i] = in[p][i]
  OBVIOUS
<1>3. \A x \in ToSet(objects) \X Ins : /\ x = <<x[1], x[2]>> /\ x[1] \in ToSet(objects) /\ x[2] \in Ins
                                       /\ x = <<d, l>> <=> (x[1] = d /\ x[2] = l)
  OBVIOUS
<1>4. <<d, l>> \in ToSet(objects) \X Ins
  OBVIOUS
<1>5. \A r : Readers(r) = {x \in ToSet(objects) \X Ins : pred_cnt[x[1]] # SCHEDULED /\ in[x[1]][x[2]] = r}
  BY DEF Readers
<1>6. \A r : Readers(r)' = {x \in ToSet(objects) \X Ins : pred_cnt'[x[1]] # SCHEDULED /\ in'[x[1]][x[2]] = r}
  BY DEF Readers
<1>7. \A x \in ToSet(objects) \X Ins : /\ pred_cnt'[x[1]] # SCHEDULED <=> pred_cnt[x[1]] # SCHEDULED
                                       /\ x = <<d, l>> => in'[x[1]][x[2]] = s /\ pred_cnt[x[1]] # SCHEDULED
                                       /\ x # <<d, l>> => in'[x[1]][x[2]] = in[x[1]][x[2]]
  BY <1>1, <1>2, <1>3
<1>8. \A r : <<d, l>> \in Readers(r) <=> r = in[d][l]
  BY <1>4, <1>5
<1>11. Readers(s)' = Readers(s) \cup {<<d, l>>}
  BY <1>4, <1>6, <1>5, <1>7
<1>12. ASSUME NEW r, r # s PROVE Readers(r)' = Readers(r) \ {<<d, l>>}
  BY <1>12, <1>6, <1>5, <1>7
<1> QED BY <1>8, <1>11, <1>12

\* The first connection to an inlet: it gets the signal of the outlet.
LEMMA EdgeFirst ==
  ASSUME IInv, Edge, NEW o, NEW k, NEW c, o = Top.object, k = Top.outlet, c = Here[Top.at],
         NEW sig, sig = out[o][k], sig # Nil,
         c.kind = "signal", in[c.dst][c.inlet] = Nil, phase' = phase, FirstSignal(sig, c)
  PROVE  IInv'
<1>0. PICK d, l, N : d = c.dst /\ l = c.inlet /\ N = Len(signals)
  OBVIOUS
<1>1. /\ Types /\ Graph /\ Counts /\ Waiting /\ Outputs /\ Contents
      /\ signals \in Seq(SignalRec) /\ N \in Nat /\ DOMAIN signals = 1 .. N
      /\ \A s \in 1 .. N : signals[s] \in SignalRec
      /\ signals' = fts_dsp_signal_reference(signals, sig)
      /\ in' = [in EXCEPT ![d][l] = sig]
      /\ program' = program
      /\ in \in [Objects -> [Ins -> 0 .. N]]
      /\ \A p \in ToSet(objects) : p \in Objects
  BY <1>0 DEF IInv, Edge, InWalk, Types, FirstSignal, ToSet
<1>2. /\ o \in Objects /\ k \in Outs /\ d \in Objects /\ l \in Ins /\ d \in ToSet(objects) /\ d # o
      /\ <<o, k, c>> \in Unpassed /\ pred_cnt[d] # SCHEDULED
      /\ pred_cnt' \in [Objects -> Int]
      /\ \A p \in Objects : pred_cnt'[p] = SCHEDULED <=> pred_cnt[p] = SCHEDULED
      /\ Unpassed' = Unpassed \ {<<o, k, c>>}
      /\ Scheduling("edges") /\ ~Scheduling("outputs")
      /\ Scheduling("edges")' /\ ~Scheduling("outputs")' /\ Top'.object = o /\ Top'.outlet = k
      /\ frames' \in Seq(Frame)
      /\ UNCHANGED <<objects, conns, status, roots, out>> /\ Edges' = Edges
  BY <1>0, EdgeWalk
<1>3. sig \in 1 .. N /\ sig # sig_zero /\ k \in Nat /\ \A j \in Outs : out[o][j] \in 0 .. N
  <2>1. \A j \in Outs : out[o][j] \in 0 .. N
    BY <1>0, <1>1, <1>2, Facts
  <2> QED BY <2>1, <1>1, <1>2, GraphAssumption DEF Waiting, Nil
<1>4. /\ \A r : <<d, l>> \in Readers(r) <=> r = Nil
      /\ Readers(sig)' = Readers(sig) \cup {<<d, l>>}
      /\ \A r : r # sig => Readers(r)' = Readers(r) \ {<<d, l>>}
      /\ in'[d][l] = sig
      /\ \A p \in Objects, i \in Ins : <<p, i>> # <<d, l>> => in'[p][i] = in[p][i]
  <2>1. in[d][l] = Nil
    BY <1>0
  <2>2. /\ in'[d][l] = sig
        /\ \A p \in Objects, i \in Ins : ~(p = d /\ i = l) => in'[p][i] = in[p][i]
    BY <1>1, <1>2
  <2>3. /\ Types /\ UNCHANGED objects /\ d \in ToSet(objects) /\ pred_cnt[d] # SCHEDULED
        /\ \A p \in Objects : pred_cnt'[p] = SCHEDULED <=> pred_cnt[p] = SCHEDULED
    BY <1>1, <1>2
  <2>4. /\ \A r : <<d, l>> \in Readers(r) <=> r = in[d][l]
        /\ Readers(sig)' = Readers(sig) \cup {<<d, l>>}
        /\ \A r : r # sig => Readers(r)' = Readers(r) \ {<<d, l>>}
    BY <2>2, <2>3, <1>2, InletReaders
  <2>5. \A p \in Objects, i \in Ins : <<p, i>> # <<d, l>> => in'[p][i] = in[p][i]
    BY <2>2
  <2> QED BY <2>1, <2>2, <2>4, <2>5
<1>5. \A r : r # sig /\ r # Nil => Readers(r)' = Readers(r)
  BY <1>4
<1>6. /\ signals' \in Seq(SignalRec) /\ Len(signals') = N /\ DOMAIN signals' = DOMAIN signals
      /\ \A r \in 1 .. N : r # sig => signals'[r] = signals[r]
      /\ signals'[sig].refcnt = IF Pending(sig) THEN 1 ELSE signals[sig].refcnt + 1
      /\ signals'[sig].length = signals[sig].length
  <2>1. PICK m : m = IF signals[sig].refcnt = SIGNAL_PENDING THEN 1 ELSE signals[sig].refcnt + 1
    OBVIOUS
  <2>2. PICK r \in SignalRec : r = signals[sig]
    BY <1>1, <1>3
  <2>3. /\ m \in Int /\ [r EXCEPT !.refcnt = m] \in SignalRec /\ [r EXCEPT !.refcnt = m].refcnt = m
        /\ [r EXCEPT !.refcnt = m].length = r.length
    <3>1. m \in Int
      BY <2>1, <2>2 DEF SignalRec
    <3> QED BY <3>1 DEF SignalRec
  <2>4. signals' = [signals EXCEPT ![sig] = [r EXCEPT !.refcnt = m]]
    BY <1>1, <1>3, <2>1, <2>2 DEF fts_dsp_signal_reference, SignalRec
  <2>5. signals' = [s \in 1 .. N |-> signals'[s]] /\ \A s \in 1 .. N : signals'[s] \in SignalRec
    BY <1>1, <1>3, <2>3, <2>4
  <2>6. signals' \in Seq(SignalRec) /\ Len(signals') = N
    BY <2>5, <1>1
  <2>7. /\ signals'[sig].refcnt = m /\ signals'[sig].length = r.length
        /\ \A s \in 1 .. N : s # sig => signals'[s] = signals[s]
    BY <1>1, <1>3, <2>3, <2>4
  <2> QED BY <1>1, <2>1, <2>2, <2>5, <2>6, <2>7 DEF Pending
<1>7. signals'[sig].refcnt = Cardinality(Readers(sig)') /\ Cardinality(Readers(sig)') \in Nat
  <2>1. <<d, l>> \notin Readers(sig)
    BY <1>4
  <2>2. PICK A : A = Readers(sig)
    OBVIOUS
  <2>3. IsFiniteSet(A)
    BY <2>2, <1>1, ReadersFinite
  <2>4. /\ Cardinality(A) \in Nat /\ Cardinality(A \cup {<<d, l>>}) = Cardinality(A) + 1
        /\ Cardinality(A \cup {<<d, l>>}) \in Nat
    BY <2>1, <2>2, <2>3, OneMore
  <2>5. CASE Pending(sig)
    <3>1. A = {}
      BY <2>2, <2>5, <1>0, <1>1, <1>3, PendingUnread
    <3>2. Cardinality(A) = 0
      BY <3>1, FS_EmptySet
    <3> QED BY <3>2, <2>2, <2>4, <2>5, <1>4, <1>6
  <2>6. CASE ~Pending(sig)
    <3>1. signals[sig].refcnt = Cardinality(A)
      BY <2>2, <2>6, <1>0, <1>1, <1>3 DEF Counts
    <3> QED BY <3>1, <2>2, <2>4, <2>6, <1>4, <1>6
  <2> QED BY <2>5, <2>6
<1>8. Types'
  <2>1. in' \in [Objects -> [Ins -> 0 .. N]]
    BY <1>1, <1>2, <1>3
  <2>2. ASSUME NEW r \in 1 .. N PROVE signals'[r].refcnt >= SIGNAL_PENDING
    <3>1. CASE r = sig
      BY <3>1, <1>7 DEF SIGNAL_PENDING
    <3>2. CASE r # sig
      BY <3>2, <1>0, <1>1, <1>6 DEF Types
    <3> QED BY <3>1, <3>2
  <2>3. phase' \in {"idle", "schedule", "crashed"}
    BY <1>1 DEF Types
  <2> QED BY <2>1, <2>2, <2>3, <1>0, <1>1, <1>2, <1>6 DEF Types
<1>9. Content' = Content /\ Puts' = Puts /\ Now' = Now
  <2>1. Content' = Content
    BY <1>1, <1>6, ContentIs
  <2> QED BY <2>1, <1>1 DEF Puts, Now
<1>10. Counts'
  <2>1. signals' # <<>> /\ signals'[sig_zero].refcnt = 1
    <3>1. N # 0 /\ sig_zero \in 1 .. N
      BY <1>0, <1>1 DEF Counts, sig_zero
    <3> QED BY <3>1, <1>1, <1>3, <1>6 DEF Counts
  <2>2. ASSUME NEW r \in 1 .. N, r # sig_zero
        PROVE  \/ signals'[r].refcnt = Cardinality(Readers(r)')
               \/ /\ Pending(r)' /\ Readers(r)' = {}
                  /\ Scheduling("edges")'
                  /\ \E j \in Outs : out'[Top'.object][j] = r
    <3>1. CASE r = sig
      BY <3>1, <1>7
    <3>2. CASE r # sig
      <4>1. signals'[r] = signals[r] /\ r # Nil
        BY <3>2, <1>6 DEF Nil
      <4>2. Pending(r)' <=> Pending(r)
        BY <4>1 DEF Pending
      <4>3. Readers(r)' = Readers(r)
        BY <3>2, <4>1, <1>5
      <4>4. \/ signals[r].refcnt = Cardinality(Readers(r))
            \/ /\ Pending(r) /\ Readers(r) = {}
               /\ \E j \in Outs : out[Top.object][j] = r
        BY <2>2, <1>0, <1>1 DEF Counts
      <4> QED BY <4>1, <4>2, <4>3, <4>4, <1>2
    <3> QED BY <3>1, <3>2
  <2> QED BY <2>1, <2>2, <1>6 DEF Counts
<1>11. Waiting'
  <2>1. ASSUME NEW p \in Objects, NEW i \in Ins, pred_cnt[p] # SCHEDULED PROVE in'[p][i] # sig_zero
    BY <2>1, <1>1, <1>3, <1>4 DEF Waiting
  <2> QED BY <2>1, <1>1, <1>2 DEF Waiting
<1>12. Outputs'
  <2>1. ASSUME NEW j \in Outs, j > k, out[o][j] # Nil PROVE signals'[out[o][j]].refcnt = SIGNAL_PENDING
    <3>1. Pending(out[o][j]) /\ out[o][j] # sig
      <4>1. j # k
        BY <2>1, <1>3
      <4>2. Pending(out[o][j])
        BY <2>1, <1>1, <1>2 DEF Outputs
      <4>3. out[o][j] = out[o][k] => j = k
        BY <2>1, <1>1, <1>2 DEF Outputs
      <4> QED BY <4>1, <4>2, <4>3
    <3>2. out[o][j] \in 1 .. N
      BY <2>1, <1>3 DEF Nil
    <3> QED BY <3>1, <3>2, <1>6 DEF Pending
  <2>2. \A i, j \in Outs : out'[o][i] = out'[o][j] /\ out'[o][i] # Nil => i = j
    BY <1>1, <1>2 DEF Outputs
  <2> QED BY <2>1, <2>2, <1>2 DEF Outputs, Pending
<1>13. Contents'
  <2>1. /\ Follows(program, 1 .. Len(signals), Content)'
        /\ (\A n \in 0 .. Len(program) : Content[n][sig_zero] = {})'
    BY <1>0, <1>1, <1>6, <1>9 DEF Contents, Follows
  <2>a. LengthsKept
    BY <1>0, <1>2, <1>6 DEF LengthsKept
  <2>2. ASSUME NEW p, NEW i
        PROVE  /\ Passed(p, i)' = Passed(p, i) \cup
                    (IF p = c.dst /\ i = c.inlet /\ c.kind = "signal" /\ out[o][k] # Nil
                     THEN {<<o, k>>} ELSE {})
               /\ Sources(p, i)' = Sources(p, i)
    BY <1>2, EdgePassed
  <2>3. InputsSum'
    <3>1. ASSUME NEW p \in ToSet(objects), NEW i \in Ins, pred_cnt[p] # SCHEDULED
          PROVE  InletSum(p, i)'
      <4>1. CASE p = d /\ i = l
        <5>1. Passed(p, i) = {} /\ in[p][i] = Nil
          BY <4>1, <3>1, <1>0, <1>1 DEF Contents, InputsSum, InletSum
        <5>2. Passed(p, i)' = {<<o, k>>}
          BY <4>1, <5>1, <2>2, <1>0
        <5>3. Now[sig] = {<<o, k>>}
          <6>1. k >= k
            BY <1>3
          <6> QED BY <6>1, <1>1, <1>2 DEF Contents, TopHears
        <5>4. Length(<<o, k>>)' = signals'[sig].length
          BY <1>2 DEF Length
        <5>5. in'[p][i] = sig /\ Now'[sig] = {<<o, k>>}
          BY <4>1, <5>3, <1>4, <1>9
        <5> QED BY <5>2, <5>4, <5>5 DEF InletSum
      <4>2. CASE ~(p = d /\ i = l)
        <5>1. p \in Objects /\ <<p, i>> # <<d, l>>
          BY <4>2, <1>1
        <5>2. in'[p][i] = in[p][i]
          BY <5>1, <1>4
        <5>a. ~(p = c.dst /\ i = c.inlet /\ c.kind = "signal" /\ out[o][k] # Nil)
          BY <4>2, <1>0
        <5>3. Passed(p, i)' = Passed(p, i)
          BY <5>a, <2>2
        <5>4. InletSum(p, i)
          BY <3>1, <1>1 DEF Contents, InputsSum
        <5> QED BY <5>1, <5>2, <5>3, <5>4, <3>1, <2>a, <1>1, <1>9, InletKept
      <4> QED BY <4>1, <4>2
    <3> QED BY <3>1, <1>1, <1>2, <1>9 DEF InputsSum
  <2>4. TopHears'
    BY <1>1, <1>2, <1>9 DEF Contents, TopHears
  <2>5. Heard'
    <3>1. \A p, i : Even(p, i)' <=> Even(p, i)
      BY <2>2, <2>a, <1>1, EvenStays
    <3> QED BY <3>1, <1>1, <2>2, <1>9 DEF Contents, Heard
  <2> QED BY <2>1, <2>3, <2>4, <2>5 DEF Contents
<1> QED BY <1>1, <1>8, <1>9, <1>10, <1>11, <1>12, <1>13, EdgeKeeps


\* fts_dsp_signal_reference counts one reader more, from none for a pending
\* signal.
LEMMA References == ASSUME NEW list \in Seq(SignalRec), NEW s \in 1 .. Len(list)
   PROVE \E t : /\ t = fts_dsp_signal_reference(list, s)
                /\ t \in Seq(SignalRec) /\ Len(t) = Len(list)
                /\ t[s].refcnt = IF list[s].refcnt = SIGNAL_PENDING THEN 1 ELSE list[s].refcnt + 1
                /\ t[s].length = list[s].length
                /\ \A r \in 1 .. Len(list) : r # s => t[r] = list[r]
<1> DEFINE t == fts_dsp_signal_reference(list, s)
<1>1. PICK m : m = IF list[s].refcnt = SIGNAL_PENDING THEN 1 ELSE list[s].refcnt + 1
  OBVIOUS
<1>2. PICK r \in SignalRec : r = list[s]
  OBVIOUS
<1>3. /\ [r EXCEPT !.refcnt = m] \in SignalRec /\ [r EXCEPT !.refcnt = m].refcnt = m
      /\ [r EXCEPT !.refcnt = m].length = r.length
  <2>1. m \in Int
    BY <1>1, <1>2 DEF SignalRec
  <2> QED BY <2>1 DEF SignalRec
<1>4. t = [list EXCEPT ![s] = [r EXCEPT !.refcnt = m]]
  BY <1>1, <1>2 DEF fts_dsp_signal_reference, SignalRec
<1> HIDE DEF t
<1>5. t \in Seq(SignalRec) /\ Len(t) = Len(list)
  BY <1>3, <1>4
<1>6. /\ t[s].refcnt = m /\ t[s].length = list[s].length
      /\ \A x \in 1 .. Len(list) : x # s => t[x] = list[x]
  BY <1>2, <1>3, <1>4
<1> QED BY <1>1, <1>5, <1>6 DEF t

\* fts_dsp_signal_unreference counts one reader less, if the signal is not
\* pending.
LEMMA Unreferences == ASSUME NEW list \in Seq(SignalRec), NEW s \in 1 .. Len(list)
   PROVE \E t : /\ t = fts_dsp_signal_unreference(list, s)
                /\ t \in Seq(SignalRec) /\ Len(t) = Len(list)
                /\ list[s].refcnt # SIGNAL_PENDING => t[s].refcnt = list[s].refcnt - 1
                /\ t[s].length = list[s].length
                /\ \A r \in 1 .. Len(list) : r # s => t[r] = list[r]
<1> DEFINE t == fts_dsp_signal_unreference(list, s)
<1>1. CASE list[s].refcnt = SIGNAL_PENDING
  <2>1. t = list
    BY <1>1 DEF fts_dsp_signal_unreference
  <2> QED BY <2>1, <1>1
<1>2. CASE list[s].refcnt # SIGNAL_PENDING
  <2>1. PICK m : m = list[s].refcnt - 1
    OBVIOUS
  <2>2. PICK r \in SignalRec : r = list[s]
    OBVIOUS
  <2>3. /\ [r EXCEPT !.refcnt = m] \in SignalRec /\ [r EXCEPT !.refcnt = m].refcnt = m
        /\ [r EXCEPT !.refcnt = m].length = r.length
    <3>1. m \in Int
      BY <2>1, <2>2 DEF SignalRec
    <3> QED BY <3>1 DEF SignalRec
  <2>4. t = [list EXCEPT ![s] = [r EXCEPT !.refcnt = m]]
    BY <1>2, <2>1, <2>2 DEF fts_dsp_signal_unreference, SignalRec
  <2> HIDE DEF t
  <2>5. t \in Seq(SignalRec) /\ Len(t) = Len(list)
    BY <2>3, <2>4
  <2>6. /\ t[s].refcnt = m /\ t[s].length = list[s].length
        /\ \A x \in 1 .. Len(list) : x # s => t[x] = list[x]
    BY <2>2, <2>3, <2>4
  <2> QED BY <2>1, <2>5, <2>6 DEF t
<1> QED BY <1>1, <1>2

\* fts_dsp_signal_new, as a list and the signal it gives.
LEMMA NewSignal == ASSUME NEW list \in Seq(SignalRec), NEW length \in Nat
   PROVE \E t, s : /\ t = fts_dsp_signal_new(list, length) /\ s = Allocated(list, length)
                   /\ t \in Seq(SignalRec) /\ Len(list) <= Len(t) /\ s \in 1 .. Len(t)
                   /\ s \in 1 .. Len(list) => list[s].refcnt = 0
                   /\ t[s].refcnt = SIGNAL_PENDING /\ t[s].length = length
                   /\ \A r \in 1 .. Len(list) : r # s => t[r] = list[r]
                   /\ \A r \in 1 .. Len(t) : r \in 1 .. Len(list) \/ r = s
                   /\ \A r \in 1 .. Len(list) : t[r].length = list[r].length
<1>1. PICK s : s = Allocated(list, length)
  OBVIOUS
<1>2. PICK t : t = fts_dsp_signal_new(list, length)
  OBVIOUS
<1>3. /\ Allocated(list, length) \in 1 .. Len(list) => list[Allocated(list, length)].refcnt = 0
      /\ fts_dsp_signal_new(list, length) \in Seq(SignalRec)
      /\ Len(list) <= Len(fts_dsp_signal_new(list, length))
      /\ Allocated(list, length) \in 1 .. Len(fts_dsp_signal_new(list, length))
      /\ fts_dsp_signal_new(list, length)[Allocated(list, length)]
           = [refcnt |-> SIGNAL_PENDING, length |-> length]
      /\ \A r \in 1 .. Len(list) : r # Allocated(list, length)
                                    => fts_dsp_signal_new(list, length)[r] = list[r]
      /\ \A r \in 1 .. Len(fts_dsp_signal_new(list, length)) :
            r \in 1 .. Len(list) \/ r = Allocated(list, length)
      /\ \A r \in 1 .. Len(list) : fts_dsp_signal_new(list, length)[r].length = list[r].length
  BY Allocates
<1>4. /\ s \in 1 .. Len(list) => list[s].refcnt = 0
      /\ t \in Seq(SignalRec) /\ Len(list) <= Len(t) /\ s \in 1 .. Len(t)
      /\ t[s] = [refcnt |-> SIGNAL_PENDING, length |-> length]
      /\ \A r \in 1 .. Len(list) : r # s => t[r] = list[r]
      /\ \A r \in 1 .. Len(t) : r \in 1 .. Len(list) \/ r = s
      /\ \A r \in 1 .. Len(list) : t[r].length = list[r].length
  BY ONLY <1>1, <1>2, <1>3, Zenon
<1>5. t[s].refcnt = SIGNAL_PENDING /\ t[s].length = length
  BY <1>4
<1> QED BY <1>1, <1>2, <1>4, <1>5

\* The signals when a connection is added up with what an inlet has: the sum
\* gets a signal nobody reads, maybe the one the inlet had alone.
Summed(N, d, l, pv, sig, new) ==
   /\ signals' \in Seq(SignalRec) /\ N <= Len(signals')
   /\ new \in 1 .. Len(signals') /\ new # sig
   /\ new \in 1 .. N => signals[new].refcnt = 0 \/ (new = pv /\ signals[pv].refcnt = 1)
   /\ signals'[new].refcnt = 1
   /\ signals'[sig].refcnt = IF Pending(sig) THEN 0 ELSE signals[sig].refcnt
   /\ pv # new => signals'[pv].refcnt = signals[pv].refcnt - 1
   /\ \A r \in 1 .. N : r \notin {new, sig, pv} => signals'[r] = signals[r]
   /\ \A r \in 1 .. Len(signals') : r \in 1 .. N \/ r = new
   /\ in' = [in EXCEPT ![d][l] = new]
   /\ program' = Append(program, [op |-> "add", in |-> <<pv, sig>>, out |-> new,
                                  even |-> signals[pv].length = signals[sig].length])
   /\ signals'[new].length = signals[sig].length
   /\ \A r \in 1 .. N : signals'[r].length = signals[r].length

\* This is what dsp_graph_dec_pred_inc_refcnt does when it adds up.
LEMMA Adds ==
  ASSUME signals \in Seq(SignalRec), NEW c, NEW d, NEW l, d = c.dst, l = c.inlet, NEW N, N = Len(signals),
         NEW pv \in 1 .. Len(signals), NEW sig \in 1 .. Len(signals),
         pv = in[d][l], pv # sig, signals[pv].refcnt >= 1, signals[sig].refcnt >= SIGNAL_PENDING,
         AddSignal(sig, c)
  PROVE  \E new : Summed(N, d, l, pv, sig, new)
<1>0. PICK z : N = Len(signals) /\ N \in Nat /\ z = signals
  OBVIOUS
<1>1. PICK a : /\ a = fts_dsp_signal_unreference(signals, pv)
               /\ a \in Seq(SignalRec) /\ Len(a) = N
               /\ signals[pv].refcnt # SIGNAL_PENDING => a[pv].refcnt = signals[pv].refcnt - 1
               /\ a[pv].length = signals[pv].length
               /\ \A r \in 1 .. N : r # pv => a[r] = signals[r]
  <2>1. z \in Seq(SignalRec) /\ pv \in 1 .. Len(z)
    BY <1>0
  <2>2. \E a : /\ a = fts_dsp_signal_unreference(z, pv)
               /\ a \in Seq(SignalRec) /\ Len(a) = Len(z)
               /\ z[pv].refcnt # SIGNAL_PENDING => a[pv].refcnt = z[pv].refcnt - 1
               /\ a[pv].length = z[pv].length
               /\ \A r \in 1 .. Len(z) : r # pv => a[r] = z[r]
    BY ONLY <2>1, Unreferences
  <2>3. Len(z) = N /\ signals = z
    BY <1>0
  <2> QED BY <2>2, <2>3, Zenon
<1>2. sig \in 1 .. Len(a) /\ pv \in 1 .. N /\ sig \in 1 .. N
  BY <1>0, <1>1
<1>3. PICK b : /\ b = fts_dsp_signal_reference(a, sig)
               /\ b \in Seq(SignalRec) /\ Len(b) = N
               /\ b[sig].refcnt = IF a[sig].refcnt = SIGNAL_PENDING THEN 1 ELSE a[sig].refcnt + 1
               /\ b[sig].length = a[sig].length
               /\ \A r \in 1 .. N : r # sig => b[r] = a[r]
  <2>1. a \in Seq(SignalRec) /\ sig \in 1 .. Len(a)
    BY <1>1, <1>2
  <2>2. \E b : /\ b = fts_dsp_signal_reference(a, sig)
               /\ b \in Seq(SignalRec) /\ Len(b) = Len(a)
               /\ b[sig].refcnt = IF a[sig].refcnt = SIGNAL_PENDING THEN 1 ELSE a[sig].refcnt + 1
               /\ b[sig].length = a[sig].length
               /\ \A r \in 1 .. Len(a) : r # sig => b[r] = a[r]
    BY ONLY <2>1, References
  <2>3. Len(a) = N
    BY <1>1
  <2> QED BY <2>2, <2>3, Zenon
<1>4. signals[sig].length \in Nat /\ signals[sig].refcnt \in Int /\ signals[pv].refcnt \in Int
  <2>1. signals[sig] \in SignalRec /\ signals[pv] \in SignalRec
    OBVIOUS
  <2> QED BY ONLY <2>1 DEF SignalRec
<1>5. PICK m, new : /\ m = fts_dsp_signal_new(b, signals[sig].length)
                    /\ new = Allocated(b, signals[sig].length)
                    /\ m \in Seq(SignalRec) /\ N <= Len(m) /\ new \in 1 .. Len(m)
                    /\ new \in 1 .. N => b[new].refcnt = 0
                    /\ m[new].refcnt = SIGNAL_PENDING /\ m[new].length = signals[sig].length
                    /\ \A r \in 1 .. N : r # new => m[r] = b[r]
                    /\ \A r \in 1 .. Len(m) : r \in 1 .. N \/ r = new
                    /\ \A r \in 1 .. N : m[r].length = b[r].length
  <2>1. b \in Seq(SignalRec) /\ signals[sig].length \in Nat
    BY <1>3, <1>4
  <2>2. PICK length : length = signals[sig].length
    OBVIOUS
  <2>3. length \in Nat
    BY <2>1, <2>2
  <2>4. PICK t, s : /\ t = fts_dsp_signal_new(b, length) /\ s = Allocated(b, length)
                    /\ t \in Seq(SignalRec) /\ Len(b) <= Len(t) /\ s \in 1 .. Len(t)
                    /\ s \in 1 .. Len(b) => b[s].refcnt = 0
                    /\ t[s].refcnt = SIGNAL_PENDING /\ t[s].length = length
                    /\ \A r \in 1 .. Len(b) : r # s => t[r] = b[r]
                    /\ \A r \in 1 .. Len(t) : r \in 1 .. Len(b) \/ r = s
                    /\ \A r \in 1 .. Len(b) : t[r].length = b[r].length
    BY ONLY <2>1, <2>3, NewSignal
  <2>5. Len(b) = N
    BY <1>3
  <2>6. /\ t = fts_dsp_signal_new(b, length) /\ s = Allocated(b, length)
        /\ t \in Seq(SignalRec) /\ N <= Len(t) /\ s \in 1 .. Len(t)
        /\ s \in 1 .. N => b[s].refcnt = 0
        /\ t[s].refcnt = SIGNAL_PENDING /\ t[s].length = length
        /\ \A r \in 1 .. N : r # s => t[r] = b[r]
        /\ \A r \in 1 .. Len(t) : r \in 1 .. N \/ r = s
        /\ \A r \in 1 .. N : t[r].length = b[r].length
    BY ONLY <2>4, <2>5
  <2> WITNESS t, s
  <2> QED BY ONLY <2>2, <2>6, Zenon
<1>6. sig \in 1 .. Len(m) /\ Len(m) \in Nat
  BY <1>0, <1>2, <1>5
<1>7. PICK e : /\ e = fts_dsp_signal_unreference(m, sig)
               /\ e \in Seq(SignalRec) /\ Len(e) = Len(m)
               /\ m[sig].refcnt # SIGNAL_PENDING => e[sig].refcnt = m[sig].refcnt - 1
               /\ e[sig].length = m[sig].length
               /\ \A r \in 1 .. Len(m) : r # sig => e[r] = m[r]
  <2>1. m \in Seq(SignalRec) /\ sig \in 1 .. Len(m)
    BY <1>5, <1>6
  <2>2. \E e : /\ e = fts_dsp_signal_unreference(m, sig)
               /\ e \in Seq(SignalRec) /\ Len(e) = Len(m)
               /\ m[sig].refcnt # SIGNAL_PENDING => e[sig].refcnt = m[sig].refcnt - 1
               /\ e[sig].length = m[sig].length
               /\ \A r \in 1 .. Len(m) : r # sig => e[r] = m[r]
    BY ONLY <2>1, Unreferences
  <2> QED BY <2>2
<1>8. new \in 1 .. Len(e)
  BY <1>5, <1>7
<1>9. PICK f : /\ f = fts_dsp_signal_reference(e, new)
               /\ f \in Seq(SignalRec) /\ Len(f) = Len(m)
               /\ f[new].refcnt = IF e[new].refcnt = SIGNAL_PENDING THEN 1 ELSE e[new].refcnt + 1
               /\ f[new].length = e[new].length
               /\ \A r \in 1 .. Len(m) : r # new => f[r] = e[r]
  BY <1>7, <1>8, References
<1>10. /\ signals' = f /\ in' = [in EXCEPT ![d][l] = new]
       /\ program' = Append(program, [op |-> "add", in |-> <<pv, sig>>, out |-> new,
                                      even |-> signals[pv].length = signals[sig].length])
  BY <1>1, <1>3, <1>5, <1>7, <1>9 DEF AddSignal
<1>11. signals[pv].refcnt # SIGNAL_PENDING
  BY <1>4 DEF SIGNAL_PENDING
<1>12. /\ a[pv].refcnt = signals[pv].refcnt - 1 /\ a[sig] = signals[sig]
       /\ b[pv] = a[pv]
       /\ b[sig].refcnt >= 1 /\ b[sig].refcnt \in Int
       /\ b[sig].refcnt - 1 = IF Pending(sig) THEN 0 ELSE signals[sig].refcnt
  <2>1. a[pv].refcnt = signals[pv].refcnt - 1 /\ a[sig] = signals[sig] /\ b[pv] = a[pv]
    BY <1>1, <1>2, <1>3, <1>11
  <2>2. b[sig].refcnt = IF Pending(sig) THEN 1 ELSE signals[sig].refcnt + 1
    BY <2>1, <1>3 DEF Pending
  <2> QED BY <2>1, <2>2, <1>4 DEF Pending, SIGNAL_PENDING
<1>13. new # sig
  BY <1>2, <1>5, <1>12
<1>14. m[sig] = b[sig] /\ e[sig].refcnt = b[sig].refcnt - 1 /\ f[sig] = e[sig]
  <2>1. m[sig] = b[sig] /\ f[sig] = e[sig]
    BY <1>2, <1>5, <1>6, <1>9, <1>13
  <2>2. m[sig].refcnt # SIGNAL_PENDING
    BY <2>1, <1>12 DEF SIGNAL_PENDING
  <2> QED BY <2>1, <2>2, <1>7
<1>15. f[new].refcnt = 1
  BY <1>5, <1>7, <1>9, <1>13
<1>16. \A r \in 1 .. N : r # new /\ r # sig => f[r] = b[r]
  <2>1. \A r \in 1 .. N : r \in 1 .. Len(m)
    BY <1>0, <1>5, <1>6
  <2> QED BY <2>1, <1>5, <1>7, <1>9
<1>17. pv # new => f[pv].refcnt = signals[pv].refcnt - 1
  BY <1>2, <1>12, <1>16
<1>18. \A r \in 1 .. N : r \notin {new, sig, pv} => f[r] = signals[r]
  <2>1. ASSUME NEW r \in 1 .. N, r # new, r # sig, r # pv PROVE f[r] = signals[r]
    <3>1. f[r] = b[r] /\ b[r] = a[r] /\ a[r] = signals[r]
      BY ONLY <2>1, <1>1, <1>3, <1>16
    <3> QED BY <3>1
  <2> QED BY <2>1
<1>19. new \in 1 .. N => signals[new].refcnt = 0 \/ (new = pv /\ signals[pv].refcnt = 1)
  <2>1. CASE new = pv
    BY <2>1, <1>2, <1>4, <1>5, <1>12
  <2>2. CASE new # pv
    <3>1. ASSUME new \in 1 .. N PROVE b[new] = a[new] /\ a[new] = signals[new] /\ b[new].refcnt = 0
      BY ONLY <3>1, <2>2, <1>1, <1>3, <1>5, <1>13
    <3> QED BY <3>1
  <2> QED BY <2>1, <2>2
<1>20. f[sig].refcnt = IF Pending(sig) THEN 0 ELSE signals[sig].refcnt
  BY <1>12, <1>14
<1>21. f[new].length = signals[sig].length
  BY <1>5, <1>7, <1>9, <1>13
<1>22. ASSUME NEW r \in 1 .. N PROVE f[r].length = signals[r].length
  <2>1. r \in 1 .. Len(m)
    BY <1>0, <1>5, <1>6
  <2>2. a[r].length = signals[r].length
    BY ONLY <1>1, <1>22
  <2>3. b[r].length = a[r].length
    BY ONLY <1>3, <1>22
  <2>4. m[r].length = b[r].length
    BY ONLY <1>5, <1>22
  <2>5. e[r].length = m[r].length
    BY ONLY <1>7, <2>1
  <2>6. f[r].length = e[r].length
    BY ONLY <1>9, <2>1
  <2> QED BY ONLY <2>2, <2>3, <2>4, <2>5, <2>6
<1>23. /\ f \in Seq(SignalRec) /\ N <= Len(f) /\ new \in 1 .. Len(f)
       /\ \A r \in 1 .. Len(f) : r \in 1 .. N \/ r = new
  BY <1>5, <1>9
<1>24. Summed(N, d, l, pv, sig, new)
  BY ONLY <1>10, <1>13, <1>15, <1>17, <1>18, <1>19, <1>20, <1>21, <1>22, <1>23 DEF Summed
<1> QED BY <1>24


\* There is one connection from an outlet to an inlet.
LEMMA OneEdge ==
  ASSUME NEW c \in [Objects \X Outs -> Seq(Conn)], NoDouble(c),
         NEW x \in EdgesOf(c), NEW y \in EdgesOf(c), x[1] = y[1], x[2] = y[2],
         x[3].dst = y[3].dst, x[3].inlet = y[3].inlet
  PROVE  x = y
<1>2. \A e \in EdgesOf(c) : \E p \in Objects, k \in Outs : \E i \in 1 .. Len(c[<<p, k>>]) :
         e = <<p, k, c[<<p, k>>][i]>> /\ c[<<p, k>>][i] \in Conn
  BY EdgesAre
<1>4. PICK p \in Objects, k \in Outs : \E i \in 1 .. Len(c[<<p, k>>]) : x = <<p, k, c[<<p, k>>][i]>>
  BY <1>2
<1>5. PICK i \in 1 .. Len(c[<<p, k>>]) : x = <<p, k, c[<<p, k>>][i]>>
  BY <1>4
<1>6. PICK q \in Objects, m \in Outs : \E j \in 1 .. Len(c[<<q, m>>]) : y = <<q, m, c[<<q, m>>][j]>>
  BY <1>2
<1>7. PICK j \in 1 .. Len(c[<<q, m>>]) : y = <<q, m, c[<<q, m>>][j]>>
  BY <1>6
<1>8. q = p /\ m = k /\ <<p, k>> \in Objects \X Outs
  BY <1>5, <1>7
<1>9. i = j
  BY <1>5, <1>7, <1>8 DEF NoDouble
<1> QED BY <1>5, <1>7, <1>8, <1>9

\* The readers of the sum: the inlet that waits for it, and nobody else.
LEMMA SumReaders ==
  ASSUME Types, Counts, NEW d \in ToSet(objects), NEW l \in Ins, pred_cnt[d] # SCHEDULED,
         NEW pv, pv = in[d][l], pv \in 1 .. Len(signals), pv # sig_zero,
         NEW new \in Nat, new # Nil, new # sig_zero,
         new \in 1 .. Len(signals) => signals[new].refcnt = 0 \/ (new = pv /\ signals[pv].refcnt = 1)
  PROVE  /\ signals[pv].refcnt = Cardinality(Readers(pv)) /\ signals[pv].refcnt >= 1
         /\ Cardinality(Readers(pv) \ {<<d, l>>}) = signals[pv].refcnt - 1
         /\ Readers(new) \subseteq {<<d, l>>}
<1>1. <<d, l>> \in Readers(pv)
  BY DEF Readers
<1>2. PICK A : A = Readers(pv)
  OBVIOUS
<1>3. IsFiniteSet(A) /\ <<d, l>> \in A
  BY <1>1, <1>2, ReadersFinite
<1>4. /\ Cardinality(A) \in Nat /\ Cardinality(A) # 0
      /\ Cardinality(A \ {<<d, l>>}) = Cardinality(A) - 1 /\ IsFiniteSet(A \ {<<d, l>>})
  BY <1>3, FS_CardinalityType, FS_EmptySet, FS_RemoveElement
<1>5. ~Pending(pv)
  BY <1>1, PendingUnread
<1>6. signals[pv].refcnt = Cardinality(A)
  BY <1>2, <1>5 DEF Counts
<1>7. Readers(new) \subseteq {<<d, l>>}
  <2>1. CASE new \in 1 .. Len(signals) /\ signals[new].refcnt = 0
    <3>1. ~Pending(new)
      BY <2>1 DEF Pending, SIGNAL_PENDING
    <3>2. Cardinality(Readers(new)) = 0
      BY <2>1, <3>1 DEF Counts
    <3> QED BY <3>2, ReadersFinite, FS_EmptySet
  <2>2. CASE new = pv /\ signals[pv].refcnt = 1
    <3>1. Cardinality(A \ {<<d, l>>}) = 0
      BY <2>2, <1>4, <1>6
    <3>2. A \ {<<d, l>>} = {}
      BY <3>1, <1>4, FS_EmptySet
    <3> QED BY <3>2, <2>2, <1>2
  <2>3. CASE new \notin 1 .. Len(signals)
    <3>1. \A p \in ToSet(objects) : p \in Objects
      BY DEF Types, ToSet
    <3>2. \A p \in Objects, i \in Ins : in[p][i] \in 0 .. Len(signals)
      BY DEF Types
    <3>3. new \notin 0 .. Len(signals)
      BY <2>3 DEF Nil
    <3>4. \A x \in ToSet(objects) \X Ins : in[x[1]][x[2]] # new
      BY <3>1, <3>2, <3>3
    <3> QED BY <3>4 DEF Readers
  <2> QED BY <2>1, <2>2, <2>3
<1> QED BY <1>2, <1>4, <1>6, <1>7


\* One more connection to an inlet: the inlet gets the sum.
LEMMA EdgeAdd ==
  ASSUME IInv, Edge, NEW o, NEW k, NEW c, o = Top.object, k = Top.outlet, c = Here[Top.at],
         NEW sig, sig = out[o][k], sig # Nil,
         c.kind = "signal", in[c.dst][c.inlet] # Nil, phase' = phase, AddSignal(sig, c)
  PROVE  IInv'
<1>0. PICK d, l, N, L, pv : /\ d = c.dst /\ l = c.inlet /\ N = Len(signals) /\ L = Len(program)
                            /\ pv = in[d][l]
  OBVIOUS
<1>1. /\ Types /\ Graph /\ Counts /\ Waiting /\ Outputs /\ Contents /\ phase = "schedule"
      /\ signals \in Seq(SignalRec) /\ N \in Nat /\ DOMAIN signals = 1 .. N
      /\ program \in Seq(Instruction(N)) /\ L \in Nat
      /\ \A s \in 1 .. N : signals[s].refcnt \in Int /\ signals[s].refcnt >= SIGNAL_PENDING
      /\ in \in [Objects -> [Ins -> 0 .. N]]
      /\ \A p \in ToSet(objects) : p \in Objects
  <2>1. \A s \in 1 .. N : signals[s].refcnt \in Int
    BY <1>0, Facts DEF IInv
  <2> QED BY <2>1, <1>0 DEF IInv, Edge, InWalk, Types, ToSet
<1>2. /\ o \in Objects /\ k \in Outs /\ d \in Objects /\ l \in Ins /\ d \in ToSet(objects) /\ d # o
      /\ <<o, k, c>> \in Edges /\ <<o, k, c>> \in Unpassed /\ pred_cnt[d] # SCHEDULED
      /\ pred_cnt' \in [Objects -> Int]
      /\ \A p \in Objects : pred_cnt'[p] = SCHEDULED <=> pred_cnt[p] = SCHEDULED
      /\ Unpassed' = Unpassed \ {<<o, k, c>>}
      /\ Scheduling("edges") /\ ~Scheduling("outputs")
      /\ Scheduling("edges")' /\ ~Scheduling("outputs")' /\ Top'.object = o /\ Top'.outlet = k
      /\ frames' \in Seq(Frame)
      /\ UNCHANGED <<objects, conns, status, roots, out>> /\ Edges' = Edges
  BY <1>0, EdgeWalk
<1>3. /\ sig \in 1 .. N /\ sig # sig_zero /\ pv \in 1 .. N /\ pv # sig_zero
      /\ k \in Nat /\ \A j \in Outs : j \in Nat /\ out[o][j] \in 0 .. N /\ out[o][j] # sig_zero
      /\ N # 0 /\ sig_zero \in 1 .. N
  <2>1. \A j \in Outs : out[o][j] \in 0 .. N /\ out[o][j] # sig_zero /\ j \in Nat
    BY <1>0, <1>1, <1>2, Facts, GraphAssumption DEF Waiting
  <2>2. in[d][l] \in 0 .. N /\ in[d][l] # Nil /\ in[d][l] # sig_zero
    BY <1>0, <1>1, <1>2 DEF Waiting
  <2>3. N # 0
    BY <1>0, <1>1 DEF Counts
  <2>4. sig \in 0 .. N /\ sig # 0 /\ pv \in 0 .. N /\ pv # 0
    BY <2>1, <2>2, <1>0, <1>2 DEF Nil
  <2>6. sig # sig_zero /\ pv # sig_zero
    BY <2>1, <2>2, <1>0, <1>2
  <2>5. sig_zero \in 1 .. N
    BY <2>3, <1>1 DEF sig_zero
  <2>7. sig \in 1 .. N /\ pv \in 1 .. N
    <3>1. N \in Nat
      BY <1>1
    <3> QED BY ONLY <2>4, <3>1
  <2> QED BY <2>1, <2>3, <2>5, <2>6, <2>7, <1>2
\* What the outlet and the inlet have.
<1>4. /\ Now[sig] = {<<o, k>>} /\ <<o, k>> \notin Passed(d, l)
      /\ Now[pv] \subseteq Passed(d, l) \cup Stale
      /\ SameLength(Passed(d, l)) => Now[pv] = Passed(d, l)
      /\ \E x \in Passed(d, l) : Length(x) = signals[pv].length
  <2>1. Now[sig] = {<<o, k>>}
    <3>1. k >= k
      BY <1>3
    <3> QED BY <3>1, <1>1, <1>2 DEF Contents, TopHears
  <2>2. /\ Now[pv] \subseteq Passed(d, l) \cup Stale
        /\ SameLength(Passed(d, l)) => Now[pv] = Passed(d, l)
        /\ \E x \in Passed(d, l) : Length(x) = signals[pv].length
    <3>1. InletSum(d, l) /\ in[d][l] # Nil
      BY <1>0, <1>1, <1>2 DEF Contents, InputsSum
    <3> QED BY <3>1, <1>0 DEF InletSum
  <2>3. <<o, k>> \notin Passed(d, l)
    <3> SUFFICES ASSUME <<o, k>> \in Passed(d, l) PROVE FALSE
      OBVIOUS
    <3>1. PICK x \in Edges \ Unpassed : /\ x[3].dst = d /\ x[3].inlet = l
                                        /\ <<o, k>> = <<x[1], x[2]>>
      BY DEF Passed
    <3>2. PICK y : y = <<o, k, c>>
      OBVIOUS
    <3>3. /\ x \in Edges /\ y \in Edges /\ x[1] = y[1] /\ x[2] = y[2]
          /\ x[3].dst = y[3].dst /\ x[3].inlet = y[3].inlet
      BY <3>1, <3>2, <1>0, <1>2
    <3>4. /\ conns \in [Objects \X Outs -> Seq(Conn)] /\ NoDouble(conns)
          /\ x \in EdgesOf(conns) /\ y \in EdgesOf(conns)
      BY <3>3, <1>1, Facts DEF Types
    <3>5. x = y
      BY ONLY <3>3, <3>4, OneEdge
    <3> QED BY <3>1, <3>2, <3>5, <1>2
  <2> QED BY <2>1, <2>2, <2>3
<1>5. pv # sig
  <2>1. k # Nil
    BY <1>2, GraphAssumption DEF Nil
  <2>2. <<o, k>> \notin Stale
    BY <2>1 DEF Stale
  <2> QED BY <2>2, <1>4
<1>6. /\ signals[pv].refcnt = Cardinality(Readers(pv)) /\ signals[pv].refcnt >= 1
      /\ Cardinality(Readers(pv) \ {<<d, l>>}) = signals[pv].refcnt - 1
  <2>1. PICK new \in Nat : new = N + 1
    BY <1>1
  <2>2. new # Nil /\ new # sig_zero /\ new \notin 1 .. Len(signals)
    BY <2>1, <1>0, <1>1, <1>3 DEF Nil, sig_zero
  <2>3. /\ Types /\ Counts /\ d \in ToSet(objects) /\ l \in Ins /\ pred_cnt[d] # SCHEDULED
        /\ pv = in[d][l] /\ pv \in 1 .. Len(signals) /\ pv # sig_zero
    BY <1>0, <1>1, <1>2, <1>3
  <2> QED BY ONLY <2>2, <2>3, SumReaders
<1>7. PICK new : Summed(N, d, l, pv, sig, new)
  <2>1. /\ pv \in 1 .. Len(signals) /\ sig \in 1 .. Len(signals) /\ pv = in[d][l]
        /\ signals[sig].refcnt >= SIGNAL_PENDING /\ signals \in Seq(SignalRec)
        /\ d = c.dst /\ l = c.inlet /\ N = Len(signals)
    BY <1>0, <1>1, <1>3
  <2>2. AddSignal(sig, c) /\ pv # sig /\ signals[pv].refcnt >= 1
    BY <1>5, <1>6
  <2> QED BY ONLY <2>1, <2>2, Adds
<1>7a. /\ signals' \in Seq(SignalRec) /\ N <= Len(signals')
       /\ new \in 1 .. Len(signals') /\ new # sig
       /\ new \in 1 .. N => signals[new].refcnt = 0 \/ (new = pv /\ signals[pv].refcnt = 1)
       /\ signals'[new].refcnt = 1
       /\ signals'[sig].refcnt = IF Pending(sig) THEN 0 ELSE signals[sig].refcnt
       /\ pv # new => signals'[pv].refcnt = signals[pv].refcnt - 1
       /\ \A r \in 1 .. N : r \notin {new, sig, pv} => signals'[r] = signals[r]
       /\ \A r \in 1 .. Len(signals') : r \in 1 .. N \/ r = new
       /\ in' = [in EXCEPT ![d][l] = new]
       /\ program' = Append(program, [op |-> "add", in |-> <<pv, sig>>, out |-> new,
                                      even |-> signals[pv].length = signals[sig].length])
       /\ signals'[new].length = signals[sig].length
       /\ \A r \in 1 .. N : signals'[r].length = signals[r].length
  BY ONLY <1>7 DEF Summed
<1>8. PICK M : M = Len(signals') /\ M \in Nat /\ DOMAIN signals' = 1 .. M
  <2>1. Len(signals') \in Nat /\ DOMAIN signals' = 1 .. Len(signals')
    BY <1>7a
  <2> QED BY ONLY <2>1, Zenon
<1>9. /\ new \in 1 .. M /\ new \in Nat /\ new # Nil /\ new # sig_zero /\ N <= M
      /\ \A r \in 1 .. N : Pending(r) => r # new /\ r # pv
  <2>1. new # sig_zero
    BY <1>1, <1>3, <1>7a DEF Counts
  <2>2. \A r \in 1 .. N : Pending(r) => r # new /\ r # pv
    BY <1>1, <1>6, <1>7a DEF Pending, SIGNAL_PENDING
  <2> QED BY <2>1, <2>2, <1>1, <1>7a, <1>8 DEF Nil
<1>10. /\ in'[d][l] = new
       /\ \A p \in Objects, i \in Ins : ~(p = d /\ i = l) => in'[p][i] = in[p][i]
  BY <1>1, <1>2, <1>7a
<1>11. /\ Readers(new)' = {<<d, l>>} /\ Readers(new) \subseteq {<<d, l>>}
       /\ \A r : r # new => Readers(r)' = Readers(r) \ {<<d, l>>}
       /\ \A r : <<d, l>> \in Readers(r) <=> r = pv
  <2>1. Readers(new) \subseteq {<<d, l>>}
    <3>1. /\ Types /\ Counts /\ d \in ToSet(objects) /\ l \in Ins /\ pred_cnt[d] # SCHEDULED
          /\ pv = in[d][l] /\ pv \in 1 .. Len(signals) /\ pv # sig_zero
          /\ new \in Nat /\ new # Nil /\ new # sig_zero
      BY <1>0, <1>1, <1>2, <1>3, <1>9
    <3>2. new \in 1 .. Len(signals) => signals[new].refcnt = 0 \/ (new = pv /\ signals[pv].refcnt = 1)
      BY <1>0, <1>7a
    <3> QED BY ONLY <3>1, <3>2, SumReaders
  <2>2. /\ Types /\ UNCHANGED objects /\ d \in ToSet(objects) /\ pred_cnt[d] # SCHEDULED
        /\ \A p \in Objects : pred_cnt'[p] = SCHEDULED <=> pred_cnt[p] = SCHEDULED
    BY <1>1, <1>2
  <2>3. /\ \A r : <<d, l>> \in Readers(r) <=> r = in[d][l]
        /\ Readers(new)' = Readers(new) \cup {<<d, l>>}
        /\ \A r : r # new => Readers(r)' = Readers(r) \ {<<d, l>>}
    <3>1. d \in Objects /\ l \in Ins
      BY <1>2
    <3> QED BY ONLY <2>2, <3>1, <1>10, InletReaders
  <2> QED BY <2>1, <2>3, <1>0
<1>12. \A r : r # new /\ r # pv => Readers(r)' = Readers(r)
  BY <1>11
<1>13. ASSUME NEW r \in 1 .. M, r # sig_zero
       PROVE  \/ signals'[r].refcnt = Cardinality(Readers(r)') /\ signals'[r].refcnt \in Nat
              \/ r \in 1 .. N /\ signals'[r] = signals[r] /\ Readers(r)' = Readers(r)
  <2>1. CASE r = new
    <3>1. Cardinality({<<d, l>>}) = 1
      BY FS_Singleton
    <3>2. Readers(r)' = {<<d, l>>} /\ signals'[r].refcnt = 1
      BY <2>1, <1>7a, <1>11
    <3> QED BY <3>1, <3>2
  <2>2. CASE r # new /\ r = pv
    <3>1. Readers(r)' = Readers(pv) \ {<<d, l>>} /\ signals'[r].refcnt = signals[pv].refcnt - 1
      BY <2>2, <1>7a, <1>11
    <3>2. signals[pv].refcnt - 1 \in Nat
      BY <1>1, <1>3, <1>6
    <3> QED BY <3>1, <3>2, <1>6
  <2>3. CASE r = sig
    <3>1. Readers(sig)' = Readers(sig) /\ Cardinality(Readers(sig)) \in Nat
      BY <1>1, <1>5, <1>7a, <1>12, ReadersFinite
    <3>2. CASE Pending(sig)
      <4>1. Cardinality(Readers(sig)) = 0
        BY <3>2, <1>0, <1>1, <1>3, PendingUnread, FS_EmptySet
      <4>2. signals'[sig].refcnt = 0
        BY <3>2, <1>7a
      <4> QED BY <2>3, <3>1, <4>1, <4>2
    <3>3. CASE ~Pending(sig)
      <4>1. signals[sig].refcnt = Cardinality(Readers(sig))
        BY <3>3, <1>0, <1>1, <1>3 DEF Counts
      <4>2. signals'[sig].refcnt = signals[sig].refcnt
        BY <3>3, <1>7a
      <4> QED BY <2>3, <3>1, <4>1, <4>2
    <3> QED BY <3>2, <3>3
  <2>4. CASE r # new /\ r # pv /\ r # sig
    <3>1. r \in 1 .. N
      BY <2>4, <1>7a, <1>8
    <3>2. signals'[r] = signals[r] /\ Readers(r)' = Readers(r)
      BY <2>4, <3>1, <1>7a, <1>12
    <3> QED BY <3>1, <3>2
  <2> QED BY <2>1, <2>2, <2>3, <2>4
<1>14. signals' # <<>> /\ signals'[sig_zero].refcnt = 1
  <2>1. signals'[sig_zero] = signals[sig_zero]
    BY <1>3, <1>7a, <1>9
  <2>2. Len(signals') # 0
    BY <1>1, <1>3, <1>8, <1>9
  <2> QED BY <2>1, <2>2, <1>1 DEF Counts
<1>15. Counts'
  <2>1. ASSUME NEW r \in 1 .. M, r # sig_zero
        PROVE  \/ signals'[r].refcnt = Cardinality(Readers(r)')
               \/ /\ Pending(r)' /\ Readers(r)' = {}
                  /\ Scheduling("edges")'
                  /\ \E j \in Outs : out'[Top'.object][j] = r
    <3>1. CASE signals'[r].refcnt = Cardinality(Readers(r)')
      BY <3>1
    <3>2. CASE r \in 1 .. N /\ signals'[r] = signals[r] /\ Readers(r)' = Readers(r)
      <4>1. Pending(r)' <=> Pending(r)
        BY <3>2 DEF Pending
      <4>2. \/ signals[r].refcnt = Cardinality(Readers(r))
            \/ /\ Pending(r) /\ Readers(r) = {}
               /\ \E j \in Outs : out[Top.object][j] = r
        BY <2>1, <3>2, <1>0, <1>1 DEF Counts
      <4> QED BY <3>2, <4>1, <4>2, <1>2
    <3> QED BY <2>1, <3>1, <3>2, <1>13
  <2> QED BY <2>1, <1>8, <1>14 DEF Counts
<1>16. Types'
  <2>1. in' \in [Objects -> [Ins -> 0 .. M]]
    <3>1. in \in [Objects -> [Ins -> 0 .. M]] /\ new \in 0 .. M
      <4>1. 0 .. N \subseteq 0 .. M
        BY <1>1, <1>8, <1>9
      <4> QED BY <4>1, <1>1, <1>9
    <3> QED BY <3>1, <1>2, <1>7a
  <2>2. ASSUME NEW r \in 1 .. M PROVE signals'[r].refcnt >= SIGNAL_PENDING
    <3>1. CASE r = sig_zero
      BY <3>1, <1>14 DEF SIGNAL_PENDING
    <3>2. CASE r # sig_zero /\ signals'[r].refcnt \in Nat
      BY <3>2 DEF SIGNAL_PENDING
    <3>3. CASE r \in 1 .. N /\ signals'[r] = signals[r]
      BY <3>3, <1>1
    <3> QED BY <3>1, <3>2, <3>3, <1>13
  <2>3. program' \in Seq(Instruction(M))
    <3>1. program \in Seq(Instruction(M))
      BY <1>1, <1>8, <1>9, MoreSignals
    <3>2. [op |-> "add", in |-> <<pv, sig>>, out |-> new,
           even |-> signals[pv].length = signals[sig].length] \in Instruction(M)
      <4>1. pv \in 1 .. M /\ sig \in 1 .. M
        BY <1>1, <1>3, <1>8, <1>9
      <4> QED BY <4>1, <1>9 DEF Instruction
    <3> QED BY <3>1, <3>2, <1>7a
  <2>4. out' \in [Objects -> [Outs -> 0 .. M]]
    <3>1. 0 .. N \subseteq 0 .. M
      BY <1>1, <1>8, <1>9
    <3>2. out \in [Objects -> [Outs -> 0 .. N]]
      BY <1>0, <1>1 DEF Types
    <3> QED BY <3>1, <3>2, <1>2
  <2>5. phase' \in {"idle", "schedule", "crashed"}
    BY <1>1
  <2> QED BY <2>1, <2>2, <2>3, <2>4, <2>5, <1>1, <1>2, <1>7a, <1>8 DEF Types
<1>17. Waiting'
  <2>1. ASSUME NEW p \in Objects, NEW i \in Ins, pred_cnt[p] # SCHEDULED PROVE in'[p][i] # sig_zero
    <3>1. CASE p = d /\ i = l
      BY <3>1, <1>9, <1>10
    <3>2. CASE ~(p = d /\ i = l)
      <4>1. in'[p][i] = in[p][i]
        BY <3>2, <1>10
      <4> QED BY <2>1, <4>1, <1>1 DEF Waiting
    <3> QED BY <3>1, <3>2
  <2> QED BY <2>1, <1>1, <1>2 DEF Waiting
<1>18. Outputs'
  <2>1. ASSUME NEW j \in Outs, j > k, out[o][j] # Nil PROVE signals'[out[o][j]].refcnt = SIGNAL_PENDING
    <3>1. Pending(out[o][j]) /\ out[o][j] # sig
      <4>1. j # k
        BY <2>1, <1>3
      <4>2. Pending(out[o][j])
        BY <2>1, <1>1, <1>2 DEF Outputs
      <4>3. out[o][j] = out[o][k] => j = k
        BY <2>1, <1>1, <1>2 DEF Outputs
      <4> QED BY <4>1, <4>2, <4>3
    <3>2. out[o][j] \in 1 .. N
      BY <2>1, <1>3 DEF Nil
    <3>3. out[o][j] # new /\ out[o][j] # pv
      BY <3>1, <3>2, <1>9
    <3>4. signals'[out[o][j]] = signals[out[o][j]]
      BY <3>1, <3>2, <3>3, <1>7a
    <3> QED BY <3>1, <3>4 DEF Pending
  <2>2. \A i, j \in Outs : out'[o][i] = out'[o][j] /\ out'[o][i] # Nil => i = j
    BY <1>1, <1>2 DEF Outputs
  <2> QED BY <2>1, <2>2, <1>2 DEF Outputs, Pending
<1> DEFINE call == [op |-> "add", in |-> <<pv, sig>>, out |-> new,
                    even |-> signals[pv].length = signals[sig].length]
<1>19. /\ call \in Instruction(M) /\ call.op = "add" /\ call.in = <<pv, sig>> /\ call.out = new
       /\ call.even <=> signals[pv].length = signals[sig].length
  <2>1. pv \in 1 .. M /\ sig \in 1 .. M
    BY <1>1, <1>3, <1>8, <1>9
  <2> QED BY <2>1, <1>9 DEF Instruction
<1>20. program' = Append(program, call)
  BY <1>7a
<1> HIDE DEF call
<1>21. /\ DOMAIN program = 1 .. L /\ DOMAIN program' = 1 .. L + 1
       /\ \A n \in 1 .. L : program'[n] = program[n]
       /\ program'[L + 1] = call
  <2>1. program \in Seq(Instruction(M)) /\ call \in Instruction(M) /\ L = Len(program)
    BY <1>0, <1>1, <1>8, <1>9, <1>19, MoreSignals
  <2> QED BY <2>1, <1>1, <1>20
<1>22. Puts' = Puts /\ \A n \in Puts : program'[n] = program[n] /\ n \in 1 .. L
  <2>1. Puts \subseteq 1 .. L
    BY <1>21 DEF Puts
  <2>2. L + 1 \notin Puts'
    BY <1>19, <1>21 DEF Puts
  <2>3. \A n \in 1 .. L + 1 : n \in 1 .. L \/ n = L + 1
    BY <1>1
  <2>4. \A n \in 1 .. L : n \in 1 .. L + 1
    BY <1>1
  <2>5. \A n \in 1 .. L : n \in Puts' <=> n \in Puts
    BY <2>4, <1>21 DEF Puts
  <2>6. Puts' \subseteq 1 .. L
    BY <2>2, <2>3, <1>21 DEF Puts
  <2> QED BY <2>1, <2>5, <2>6, <1>21
<1>23. /\ Follows(program, 1 .. Len(signals), Content)'
       /\ \A n \in 0 .. L, s \in 1 .. N : Content'[n][s] = Content[n][s]
       /\ \A s \in 1 .. N : s # new => Now'[s] = Now[s]
       /\ Now'[new] = IF call.even THEN Now[pv] \cup Now[sig] ELSE Stale
  <2>1. /\ Follows(program, 1 .. Len(signals), Content) /\ signals # <<>>
        /\ call \in Instruction(Len(signals')) /\ Len(signals) <= Len(signals')
    BY <1>0, <1>1, <1>7a, <1>8, <1>19 DEF Contents, Counts
  <2>2. /\ Follows(program, 1 .. Len(signals), Content)'
        /\ \A n \in 0 .. Len(program), s \in 1 .. Len(signals) : Content'[n][s] = Content[n][s]
        /\ \E b : /\ b = [s \in 1 .. Len(signals') |-> b[s]]
                  /\ \A s \in 1 .. Len(signals) : b[s] = Now[s]
                  /\ Now' = Leaves(call, 1 .. Len(signals'), b)
    BY <2>1, <1>1, <1>7a, <1>20, ProgramGrows
  <2>3. PICK b : /\ b = [s \in 1 .. M |-> b[s]]
                 /\ \A s \in 1 .. N : b[s] = Now[s]
                 /\ Now' = Leaves(call, 1 .. M, b)
    BY <2>2, <1>0, <1>8
  <2>4. Now' = [b EXCEPT ![new] = IF call.even THEN b[pv] \cup b[sig] ELSE Stale]
    <3>1. call.in[1] = pv /\ call.in[2] = sig
      BY <1>19
    <3> QED BY <2>3, <3>1, <1>19 DEF Leaves, Added
  <2>5. /\ Now'[new] = IF call.even THEN b[pv] \cup b[sig] ELSE Stale
        /\ \A s \in 1 .. M : s # new => Now'[s] = b[s]
    BY <2>3, <2>4, <1>9
  <2>6. \A s \in 1 .. N : s \in 1 .. M
    BY <1>1, <1>8, <1>9
  <2>7. /\ Now'[new] = IF call.even THEN Now[pv] \cup Now[sig] ELSE Stale
        /\ \A s \in 1 .. N : s # new => Now'[s] = Now[s]
    BY <2>3, <2>5, <2>6, <1>3
  <2> QED BY <2>2, <2>7, <1>0
<1>24. LengthsKept
  BY <1>0, <1>2, <1>7a DEF LengthsKept
<1>25. ASSUME NEW p, NEW i
       PROVE  /\ Passed(p, i)' = Passed(p, i) \cup
                   (IF p = c.dst /\ i = c.inlet /\ c.kind = "signal" /\ out[o][k] # Nil
                    THEN {<<o, k>>} ELSE {})
              /\ Sources(p, i)' = Sources(p, i)
  <2>1. /\ <<o, k, c>> \in Unpassed /\ Edges' = Edges /\ out' = out
        /\ Unpassed' = Unpassed \ {<<o, k, c>>}
    BY <1>2
  <2>2. /\ \A q, j : Passed(q, j)' = Passed(q, j) \cup
              (IF q = c.dst /\ j = c.inlet /\ c.kind = "signal" /\ out[o][k] # Nil
               THEN {<<o, k>>} ELSE {})
        /\ \A q, j : Sources(q, j)' = Sources(q, j)
    BY ONLY <2>1, EdgePassed
  <2> QED BY ONLY <2>2
<1>26. Contents'
  <2>1. InputsSum'
    <3>1. ASSUME NEW p \in ToSet(objects), NEW i \in Ins, pred_cnt[p] # SCHEDULED
          PROVE  InletSum(p, i)'
      <4>1. CASE p = d /\ i = l
        <5>1. p = c.dst /\ i = c.inlet /\ c.kind = "signal" /\ out[o][k] # Nil
          BY <4>1, <1>0
        <5>2. PICK P, Q : P = Passed(d, l) /\ Q = P \cup {<<o, k>>}
          OBVIOUS
        <5>3. Passed(p, i)' = Q
          BY <4>1, <5>1, <5>2, <1>25
        <5>4. Length(<<o, k>>)' = signals'[new].length /\ Length(<<o, k>>) = signals[sig].length
          <6>1. out'[o][k] = sig
            BY <1>2
          <6>2. Length(<<o, k>>)' = signals'[sig].length
            BY <6>1 DEF Length
          <6> QED BY <6>2, <1>3, <1>7a DEF Length
        <5>5. Now'[new] \subseteq Q \cup Stale
          <6>1. Now[pv] \subseteq P \cup Stale /\ Now[sig] = {<<o, k>>}
            BY <5>2, <1>4
          <6> QED BY <6>1, <5>2, <1>23
        <5>6. ASSUME SameLength(Q)' PROVE Now'[new] = Q
          <6>1. \A x \in Q : IsOutlet(x)
            <7>1. \A x \in P : IsOutlet(x)
              BY <5>2, <1>1, OutletsOnly
            <7>2. IsOutlet(<<o, k>>)
              BY <1>2 DEF IsOutlet
            <7> QED BY <7>1, <7>2, <5>2
          <6>2. SameLength(Q)
            BY <5>6, <6>1, <1>1, <1>24, LengthsStay
          <6>3. PICK x \in P : Length(x) = signals[pv].length
            BY <5>2, <1>4
          <6>4. Length(x) = Length(<<o, k>>)
            BY <6>2, <5>2 DEF SameLength
          <6>5. call.even
            BY <6>3, <6>4, <5>4, <1>19
          <6>6. SameLength(P)
            BY <6>2, <5>2 DEF SameLength
          <6>7. Now[pv] = P /\ Now[sig] = {<<o, k>>}
            BY <6>6, <5>2, <1>4
          <6> QED BY <6>5, <6>7, <5>2, <1>23
        <5>7. in'[p][i] = new /\ new # Nil
          BY <4>1, <1>9, <1>10
        <5>8. SameLength(Passed(p, i))' => SameLength(Q)'
          BY <5>3 DEF SameLength, Length
        <5>9. \E x \in Q : Length(x)' = signals'[new].length
          BY <5>2, <5>4
        <5> QED BY <5>3, <5>5, <5>6, <5>7, <5>8, <5>9 DEF InletSum, Stale
      <4>2. CASE ~(p = d /\ i = l)
        <5>1. p \in Objects
          BY <1>1
        <5>2. in'[p][i] = in[p][i]
          BY <4>2, <5>1, <1>10
        <5>3. ~(p = c.dst /\ i = c.inlet /\ c.kind = "signal" /\ out[o][k] # Nil)
          BY <4>2, <1>0
        <5>4. Passed(p, i)' = Passed(p, i)
          BY <5>3, <1>25
        <5>5. InletSum(p, i)
          BY <3>1, <1>1 DEF Contents, InputsSum
        <5>6. ASSUME in[p][i] # Nil PROVE Now'[in[p][i]] = Now[in[p][i]]
          <6>1. in[p][i] \in 1 .. N
            BY <5>1, <5>6, <1>1 DEF Nil
          <6>2. <<p, i>> \in Readers(in[p][i]) /\ <<p, i>> # <<d, l>>
            BY <3>1, <4>2 DEF Readers
          <6>3. in[p][i] # new
            BY <6>2, <1>11
          <6> QED BY <6>1, <6>3, <1>23
        <5> QED BY <5>1, <5>2, <5>4, <5>5, <5>6, <3>1, <1>1, <1>24, InletKept
      <4> QED BY <4>1, <4>2
    <3> QED BY <3>1, <1>1, <1>2 DEF InputsSum
  <2>2. TopHears'
    <3>1. ASSUME NEW j \in Outs, j >= k, out[o][j] # Nil PROVE Now'[out[o][j]] = {<<o, j>>}
      <4>1. Now[out[o][j]] = {<<o, j>>}
        BY <3>1, <1>1, <1>2 DEF Contents, TopHears
      <4>2. out[o][j] \in 1 .. N
        BY <3>1, <1>3 DEF Nil
      <4>3. out[o][j] # new
        <5>1. CASE j = k
          BY <5>1, <1>7a
        <5>2. CASE j > k
          <6>1. Pending(out[o][j])
            BY <3>1, <5>2, <1>1, <1>2 DEF Outputs
          <6> QED BY <6>1, <4>2, <1>9
        <5> QED BY <5>1, <5>2, <3>1, <1>3
      <4> QED BY <4>1, <4>2, <4>3, <1>23
    <3> QED BY <3>1, <1>2 DEF TopHears
  <2>3. Heard'
    <3>1. ASSUME NEW n \in Puts, NEW i \in Ins
          PROVE  \E p : /\ p = program'[n].object
                        /\ Even(p, i) => Content'[n - 1][program'[n].in[i]] = Sources(p, i)'
      <4>1. program[n] \in Instruction(N) /\ program[n].op = "put" /\ n - 1 \in 0 .. L
        BY <1>1, <1>21, <1>22 DEF Puts
      <4>2. program[n].in[i] \in 1 .. N
        BY <4>1 DEF Instruction
      <4>3. PICK p : p = program[n].object
        OBVIOUS
      <4>4. Even(p, i) => Content[n - 1][program[n].in[i]] = Sources(p, i)
        BY <4>3, <1>1 DEF Contents, Heard
      <4>5. Even(p, i) => Content'[n - 1][program'[n].in[i]] = Sources(p, i)'
        BY <4>1, <4>2, <4>4, <1>22, <1>23, <1>25
      <4>6. program'[n].object = p
        BY <4>3, <1>22
      <4> QED BY <4>5, <4>6
    <3>a. \A p, i : Even(p, i)' <=> Even(p, i)
      BY <1>1, <1>24, <1>25, EvenStays
    <3>2. ASSUME NEW n \in Puts', NEW i \in Ins, Even(program[n].object, i)'
          PROVE  Content'[n - 1][program'[n].in[i]] = Sources(program[n].object, i)'
      <4>1. PICK p : /\ p = program'[n].object
                     /\ Even(p, i) => Content'[n - 1][program'[n].in[i]] = Sources(p, i)'
        BY <3>1, <1>22
      <4>2. Even(p, i)'
        BY <3>2, <4>1
      <4> QED BY <4>1, <4>2, <3>a
    <3> QED BY <3>2 DEF Heard
  <2>4. (\A n \in 0 .. Len(program) : Content[n][sig_zero] = {})'
    <3>1. Now[sig_zero] = {} /\ \A n \in 0 .. L : Content[n][sig_zero] = {}
      BY <1>0, <1>1 DEF Contents, Now
    <3>2. Len(program') = L + 1
      <4>1. program' \in Seq(Instruction(M))
        BY <1>8, <1>16 DEF Types
      <4>2. DOMAIN program' = 1 .. Len(program') /\ Len(program') \in Nat
        BY <4>1
      <4> QED BY <4>2, <1>1, <1>21
    <3>3. Content'[L + 1][sig_zero] = {}
      <4>1. Now'[sig_zero] = {}
        BY <3>1, <1>3, <1>9, <1>23
      <4> QED BY <4>1, <3>2 DEF Now
    <3>4. \A n \in 0 .. L + 1 : n \in 0 .. L \/ n = L + 1
      BY <1>1
    <3> QED BY <3>1, <3>2, <3>3, <3>4, <1>3, <1>23
  <2> QED BY <2>1, <2>2, <2>3, <2>4, <1>23 DEF Contents
<1> QED BY <1>15, <1>16, <1>17, <1>18, <1>22, <1>26, EdgeKeeps


\* Every connection the walk of dsp_graph_schedule_node passes, an attempt to
\* add to the signal of an outlet that has none included: there the program ends.
LEMMA EdgeStep == ASSUME IInv, Edge PROVE IInv'
<1>0. PICK o, k, c, sig : o = Top.object /\ k = Top.outlet /\ c = Here[Top.at] /\ sig = out[o][k]
  OBVIOUS
<1>1. CASE c.kind = "order" /\ phase' = phase /\ UNCHANGED <<signals, in, program>>
  BY <1>0, <1>1, EdgeQuiet
<1>2. CASE c.kind = "signal" /\ in[c.dst][c.inlet] = Nil /\ phase' = phase /\ FirstSignal(sig, c)
  <2>1. CASE sig = Nil
    <3>1. /\ Types /\ c.dst \in Objects /\ c.inlet \in Ins
      BY <1>0, EdgeWalk DEF IInv
    <3>2. in' = in
      <4>1. PICK d, l : d = c.dst /\ l = c.inlet
        OBVIOUS
      <4>2. in' = [in EXCEPT ![d][l] = Nil] /\ in[d][l] = Nil /\ d \in Objects /\ l \in Ins
        BY <4>1, <3>1, <2>1, <1>2 DEF FirstSignal
      <4>3. in \in [Objects -> [Ins -> 0 .. Len(signals)]]
        BY <3>1 DEF Types
      <4> QED BY <4>2, <4>3
    <3>3. UNCHANGED <<in, signals, program, phase>> /\ out[o][k] = Nil
      BY <3>2, <2>1, <1>0, <1>2 DEF FirstSignal
    <3> QED BY <3>3, <1>0, EdgeQuiet
  <2>2. CASE sig # Nil
    BY <2>2, <1>0, <1>2, EdgeFirst
  <2> QED BY <2>1, <2>2
<1>3. CASE /\ c.kind = "signal" /\ in[c.dst][c.inlet] # Nil /\ sig # Nil
           /\ phase' = phase /\ AddSignal(sig, c)
  BY <1>0, <1>3, EdgeAdd
<1>4. CASE phase' = "crashed" /\ UNCHANGED <<signals, in, program>>
  <2>1. Types /\ Graph
    BY DEF IInv
  <2>2. /\ pred_cnt' \in [Objects -> Int] /\ frames' \in Seq(Frame)
        /\ UNCHANGED <<objects, conns, status, roots, out>>
        /\ Graph' /\ Stack'
    BY <1>0, EdgeWalk
  <2>3. Types'
    BY <1>4, <2>1, <2>2 DEF Types
  <2>4. phase' # "schedule"
    BY <1>4
  <2> QED BY <2>2, <2>3, <2>4 DEF IInv
<1>5. \/ c.kind = "order" /\ phase' = phase /\ UNCHANGED <<signals, in, program>>
      \/ c.kind = "signal" /\ in[c.dst][c.inlet] = Nil /\ phase' = phase /\ FirstSignal(sig, c)
      \/ /\ c.kind = "signal" /\ in[c.dst][c.inlet] # Nil /\ sig # Nil
         /\ phase' = phase /\ AddSignal(sig, c)
      \/ phase' = "crashed" /\ UNCHANGED <<signals, in, program>>
  BY <1>0, Zenon DEF Edge
<1> QED BY <1>1, <1>2, <1>3, <1>4, <1>5

-----------------------------------------------------------------------------
(* The end of a compilation.                                                *)

\* fts_dsp_graph_compile has come to its end.
LEMMA CompileEndStep == ASSUME IInv, CompileEnd PROVE IInv'
<1>1. /\ Types /\ Graph /\ Stack /\ phase' = "idle" /\ frames = <<>> /\ roots = <<>>
      /\ status' = "compiled"
      /\ UNCHANGED <<objects, conns, roots, frames, pred_cnt, in, out, signals, program>>
  BY DEF IInv, CompileEnd, graphVars
<1>2. Types'
  BY <1>1 DEF Types
<1>3. Graph'
  <2>1. Edges' = Edges
    BY <1>1 DEF Edges
  <2> QED BY <2>1, <1>1 DEF Graph
<1>4. Stack'
  BY <1>1 DEF Stack
<1> QED BY <1>1, <1>2, <1>3, <1>4 DEF IInv


-----------------------------------------------------------------------------
(* The beginning of a compilation.                                          *)

\* Predecessors are counted, signals and program are empty, and all objects of
\* the list are still to be looked at.
LEMMA CompileBeginStep == ASSUME IInv, CompileBegin PROVE IInv'
<1>1. /\ Types /\ Graph /\ Stack
      /\ signals' = <<[refcnt |-> 1, length |-> TickSize]>>
      /\ in' = NoSignals(Ins) /\ out' = NoSignals(Outs)
      /\ pred_cnt' = [o \in Objects |-> Predecessors(o)]
      /\ program' = <<>> /\ roots' = objects /\ phase' = "schedule"
      /\ UNCHANGED <<objects, conns, status, frames>>
      /\ objects \in Seq(Objects) /\ status \in {"reset", "compiled"}
  BY DEF IInv, CompileBegin, graphVars, Types
<1>2. /\ \A e \in Edges : e[1] \in Objects /\ e[3].dst \in Objects
      /\ \A E \in SUBSET Edges : IsFiniteSet(E)
      /\ frames = <<>> /\ Edges' = Edges
      /\ \A o \in ToSet(objects) : o \in Objects
  <2>1. frames = <<>>
    BY <1>1 DEF CompileBegin, Stack
  <2>2. Edges' = Edges
    BY <1>1 DEF Edges
  <2>3. \A o \in ToSet(objects) : o \in Objects
    BY <1>1 DEF ToSet
  <2> QED BY <2>1, <2>2, <2>3, <1>1, Facts
<1>3. ASSUME NEW o \in Objects
      PROVE  /\ pred_cnt'[o] = Cardinality({e \in Edges : e[3].dst = o})
             /\ pred_cnt'[o] \in Nat
  <2>1. pred_cnt'[o] = Cardinality({e \in Edges : e[3].dst = o})
    BY <1>1 DEF Predecessors
  <2>2. IsFiniteSet({e \in Edges : e[3].dst = o})
    BY <1>2
  <2> QED BY <2>1, <2>2, FS_CardinalityType
<1>4. \A o \in Objects : pred_cnt'[o] # SCHEDULED /\ pred_cnt'[o] \in Nat
  <2>1. ASSUME NEW o \in Objects PROVE pred_cnt'[o] # SCHEDULED /\ pred_cnt'[o] \in Nat
    <3>1. PICK n \in Nat : n = pred_cnt'[o]
      BY <1>3
    <3> QED BY <3>1 DEF SCHEDULED
  <2> QED BY <2>1
<1>5. ~Scheduling("outputs")' /\ ~Scheduling("edges")'
  BY <1>1, <1>2 DEF Scheduling
<1>6. Unpassed' = Edges
  BY <1>2, <1>4 DEF Unpassed
<1>7. /\ signals' \in Seq(SignalRec) /\ Len(signals') = 1 /\ DOMAIN signals' = {1}
      /\ signals'[sig_zero].refcnt = 1 /\ signals' # <<>>
  <2>1. [refcnt |-> 1, length |-> TickSize] \in SignalRec
    BY GraphAssumption DEF SignalRec
  <2> QED BY <2>1, <1>1 DEF sig_zero
<1>8. /\ \A o \in Objects : /\ \A i \in Ins : in'[o][i] = Nil
                            /\ \A k \in Outs : out'[o][k] = Nil
      /\ in' \in [Objects -> [Ins -> 0 .. 1]] /\ out' \in [Objects -> [Outs -> 0 .. 1]]
  BY <1>1 DEF NoSignals, Nil
<1>9. Types'
  <2>1. pred_cnt' \in [Objects -> Int]
    <3>1. \A o \in Objects : pred_cnt'[o] \in Int
      BY <1>4
    <3>2. pred_cnt' = [o \in Objects |-> pred_cnt'[o]]
      BY <1>1
    <3> QED BY <3>1, <3>2
  <2>2. \A s \in 1 .. Len(signals') : signals'[s].refcnt >= SIGNAL_PENDING
    BY <1>7 DEF SIGNAL_PENDING, sig_zero
  <2>3. program' \in Seq(Instruction(1))
    BY <1>1
  <2>4. in' \in [Objects -> [Ins -> 0 .. Len(signals')]]
        /\ out' \in [Objects -> [Outs -> 0 .. Len(signals')]]
        /\ program' \in Seq(Instruction(Len(signals')))
    BY <2>3, <1>7, <1>8
  <2>5. /\ objects' \in Seq(Objects) /\ roots' \in Seq(Objects) /\ frames' \in Seq(Frame)
        /\ conns' \in [Objects \X Outs -> Seq(Conn)]
        /\ status' \in {"reset", "compiled"} /\ phase' \in {"idle", "schedule", "crashed"}
    BY <1>1 DEF Types
  <2> QED BY <2>1, <2>2, <2>4, <2>5, <1>7 DEF Types
<1>10. Graph'
  BY <1>1, <1>2 DEF Graph
<1>11. Stack'
  BY <1>1, <1>2 DEF Stack
<1>12. Counted'
  <2>1. ASSUME NEW o \in Objects PROVE Into(o, Unpassed)' = {e \in Edges : e[3].dst = o}
    BY <1>6 DEF Into
  <2> QED BY <2>1, <1>3, <1>4 DEF Counted
<1>13. Reached'
  BY <1>1 DEF Reached, Met
<1>14. LoopsWait'
  <2>1. \A o \in ToSet(objects') : pred_cnt'[o] # SCHEDULED
    BY <1>1, <1>2, <1>4
  <2> QED BY <2>1 DEF LoopsWait
<1>15. Puts' = {} /\ Len(program') = 0
  BY <1>1 DEF Puts
<1>16. PutOnce' /\ PutScheduled' /\ PutBehind'
  BY <1>15 DEF PutOnce, PutScheduled, PutBehind
<1>17. Counts'
  <2>1. \A s \in 1 .. Len(signals') : s = sig_zero
    BY <1>7 DEF sig_zero
  <2> QED BY <2>1, <1>7 DEF Counts
<1>18. Waiting' /\ Outputs'
  <2>1. Nil # sig_zero
    BY DEF Nil, sig_zero
  <2> QED BY <2>1, <1>5, <1>8 DEF Waiting, Outputs
<1>19. /\ Follows(program, 1 .. Len(signals), Content)'
       /\ (\A n \in 0 .. Len(program) : Content[n][sig_zero] = {})'
  <2> DEFINE D == 1 .. 1
             c == [n \in 0 .. 0 |-> [s \in D |-> IF s = sig_zero THEN {} ELSE Stale]]
  <2>1. Follows(<<>>, D, c)
    <3>1. ASSUME NEW n \in 0 .. 0 PROVE After(<<>>, D, c, n) = [s \in D |-> IF s = sig_zero THEN {} ELSE Stale]
      BY DEF After
    <3>2. c = [n \in 0 .. 0 |-> After(<<>>, D, c, n)]
      BY <3>1
    <3> HIDE DEF c
    <3> QED BY <3>2 DEF Follows
  <2>2. c[0][sig_zero] = {}
    BY DEF sig_zero
  <2> HIDE DEF c
  <2>3. Content' = c
    <3>1. program' = <<>> /\ DOMAIN signals' = D /\ Len(program') \in Nat
      BY <1>1, <1>7
    <3> QED BY <2>1, <3>1, ContentIs, ContentOne
  <2>4. \A n \in 0 .. Len(program') : Content'[n][sig_zero] = {}
    <3>1. \A n \in 0 .. Len(program') : n = 0
      BY <1>15
    <3> QED BY <3>1, <2>2, <2>3
  <2>5. Follows(program', 1 .. Len(signals'), Content')
    BY <2>1, <2>3, <1>1, <1>7
  <2> QED BY <2>4, <2>5 DEF Follows
<1>20. \A o, i : Passed(o, i)' = {}
  BY <1>2, <1>6 DEF Passed
<1>21. Contents'
  <2>1. InputsSum'
    BY <1>1, <1>2, <1>8, <1>20 DEF InputsSum, InletSum
  <2>2. TopHears' /\ Heard'
    BY <1>5, <1>15 DEF TopHears, Heard
  <2> QED BY <2>1, <2>2, <1>19 DEF Contents
<1> QED BY <1>9, <1>10, <1>11, <1>12, <1>13, <1>14, <1>16, <1>17, <1>18, <1>21 DEF IInv


-----------------------------------------------------------------------------
(* Changes of the patch.                                                    *)

\* The patch may be in any order while nothing is compiled: the rest of the
\* invariant says nothing then.
LEMMA IdleKeeps ==
  ASSUME IInv, phase = "idle",
         UNCHANGED <<phase, roots, frames, signals>>,
         objects' \in Seq(Objects), conns' \in [Objects \X Outs -> Seq(Conn)],
         status' \in {"reset", "compiled"}, pred_cnt' \in [Objects -> Int],
         in' \in [Objects -> [Ins -> 0 .. Len(signals)]],
         out' \in [Objects -> [Outs -> 0 .. Len(signals)]],
         program' \in Seq(Instruction(Len(signals))), Graph'
  PROVE  IInv'
<1>1. Types /\ Stack /\ frames = <<>> /\ roots = <<>>
  BY DEF IInv, Stack
<1>2. Types'
  BY <1>1 DEF Types
<1>3. Stack'
  <2>1. roots' = <<>> /\ frames' = <<>> /\ phase' = "idle"
    BY <1>1
  <2>2. ToSet(roots') = {} /\ Len(frames') = 0
    BY <2>1 DEF ToSet
  <2> QED BY <2>1, <2>2 DEF Stack
<1> QED BY <1>2, <1>3 DEF IInv

\* A connection is drawn: fts_connection_new does not accept a second one.
LEMMA ConnectStep == ASSUME IInv, NEW w \in Wires, Connect(w[1], w[2], w[3]) PROVE IInv'
<1>0. PICK o \in Objects, k \in Outs, c \in Conn : o = w[1] /\ k = w[2] /\ c = w[3]
  BY GraphAssumption
<1> DEFINE x == <<o, k>>
<1>1. /\ Types /\ Graph /\ phase = "idle"
      /\ {o, c.dst} \subseteq ToSet(objects)
      /\ \A i \in DOMAIN conns[x] : <<conns[x][i].dst, conns[x][i].inlet>> # <<c.dst, c.inlet>>
      /\ conns' = [conns EXCEPT ![x] = <<c>> \o @]
      /\ UNCHANGED <<objects, status, phase, roots, frames, pred_cnt, in, out, signals, program>>
      /\ conns \in [Objects \X Outs -> Seq(Conn)]
  <2>1. \A i \in DOMAIN conns[x] : conns[x][i] \in ToSet(conns[x])
    BY DEF ToSet
  <2> QED BY <2>1, <1>0 DEF IInv, Connect, Edit, Types
<1>2. x \in Objects \X Outs /\ conns[x] \in Seq(Conn)
  BY <1>1
<1> HIDE DEF x
<1>3. /\ <<c>> \o conns[x] \in Seq(Conn) /\ Len(conns[x]) \in Nat
      /\ Len(<<c>> \o conns[x]) = Len(conns[x]) + 1
      /\ DOMAIN conns[x] = 1 .. Len(conns[x])
      /\ (<<c>> \o conns[x])[1] = c
      /\ \A i \in 2 .. Len(conns[x]) + 1 : (<<c>> \o conns[x])[i] = conns[x][i - 1]
  BY <1>2
<1>4. /\ conns' \in [Objects \X Outs -> Seq(Conn)]
      /\ conns'[x] = <<c>> \o conns[x]
      /\ \A y \in Objects \X Outs : y # x => conns'[y] = conns[y]
  BY <1>1, <1>2, <1>3
<1>5. Edges' = EdgesOf(conns') /\ Edges = EdgesOf(conns) /\ NoDouble(conns)
  BY <1>1, Facts DEF Edges, EdgesOf
<1>6. NoDouble(conns')
  <2>1. ASSUME NEW i \in 1 .. Len(conns'[x]), NEW j \in 1 .. Len(conns'[x]),
               conns'[x][i].dst = conns'[x][j].dst, conns'[x][i].inlet = conns'[x][j].inlet
        PROVE  i = j
    <3>1. i \in 1 .. Len(conns[x]) + 1 /\ j \in 1 .. Len(conns[x]) + 1
      BY <1>3, <1>4
    <3>2. \A m \in 2 .. Len(conns[x]) + 1 : /\ m - 1 \in 1 .. Len(conns[x])
                                            /\ conns'[x][m] = conns[x][m - 1]
      BY <1>3, <1>4
    <3>3. \A m \in 2 .. Len(conns[x]) + 1 : ~(conns'[x][m].dst = c.dst /\ conns'[x][m].inlet = c.inlet)
      BY <3>2, <1>1, <1>3
    <3>4. conns'[x][1] = c
      BY <1>3, <1>4
    <3>5. CASE i = 1
      BY <3>1, <3>3, <3>4, <3>5, <2>1
    <3>6. CASE j = 1
      BY <3>1, <3>3, <3>4, <3>6, <2>1
    <3>7. CASE i # 1 /\ j # 1
      <4>1. i \in 2 .. Len(conns[x]) + 1 /\ j \in 2 .. Len(conns[x]) + 1
        BY <3>1, <3>7, <1>3
      <4>2. PICK a, b : a = i - 1 /\ b = j - 1
        OBVIOUS
      <4>3. /\ a \in 1 .. Len(conns[x]) /\ b \in 1 .. Len(conns[x])
            /\ conns'[x][i] = conns[x][a] /\ conns'[x][j] = conns[x][b]
        BY <4>1, <4>2, <3>2
      <4>4. conns[x][a].dst = conns[x][b].dst /\ conns[x][a].inlet = conns[x][b].inlet
        BY <4>3, <2>1
      <4>5. a = b
        BY ONLY <4>3, <4>4, <1>2, <1>5 DEF NoDouble
      <4> QED BY <4>1, <4>2, <4>5
    <3> QED BY <3>5, <3>6, <3>7
  <2>2. ASSUME NEW y \in Objects \X Outs, NEW i \in 1 .. Len(conns'[y]), NEW j \in 1 .. Len(conns'[y]),
               conns'[y][i].dst = conns'[y][j].dst, conns'[y][i].inlet = conns'[y][j].inlet
        PROVE  i = j
    <3>1. CASE y = x
      BY <3>1, <2>1, <2>2
    <3>2. CASE y # x
      <4>1. conns'[y] = conns[y]
        BY <3>2, <1>4
      <4> QED BY <4>1, <2>2, <1>5 DEF NoDouble
    <3> QED BY <3>1, <3>2
  <2> QED BY <2>2 DEF NoDouble
<1>7. ASSUME NEW e \in Edges' PROVE {e[1], e[3].dst} \subseteq ToSet(objects)
  <2>1. PICK z \in [Objects \X Outs -> Seq(Conn)] : z = conns'
    BY <1>4
  <2>2. PICK p \in Objects, m \in Outs : \E i \in 1 .. Len(z[<<p, m>>]) :
           e = <<p, m, z[<<p, m>>][i]>> /\ z[<<p, m>>][i] \in Conn
    <3>1. e \in EdgesOf(z)
      BY <2>1, <1>5
    <3>2. \A a \in EdgesOf(z) : \E p \in Objects, m \in Outs : \E i \in 1 .. Len(z[<<p, m>>]) :
             a = <<p, m, z[<<p, m>>][i]>> /\ z[<<p, m>>][i] \in Conn
      BY EdgesAre
    <3> QED BY <3>1, <3>2
  <2>3. PICK i \in 1 .. Len(conns'[<<p, m>>]) : e = <<p, m, conns'[<<p, m>>][i]>>
    BY <2>1, <2>2
  <2>4. e[1] = p /\ e[3] = conns'[<<p, m>>][i] /\ <<p, m>> \in Objects \X Outs
    BY <2>3
  <2>5. ASSUME NEW j \in 1 .. Len(conns[<<p, m>>])
        PROVE  {p, conns[<<p, m>>][j].dst} \subseteq ToSet(objects)
    <3>1. <<p, m, conns[<<p, m>>][j]>> \in Edges
      BY <1>1, <1>5, EdgesAre
    <3>2. PICK y : y = <<p, m, conns[<<p, m>>][j]>>
      OBVIOUS
    <3>3. y \in Edges /\ y[1] = p /\ y[3] = conns[<<p, m>>][j]
      BY <3>1, <3>2
    <3> QED BY <3>3, <1>1 DEF Graph
  <2>6. CASE <<p, m>> # x
    BY <2>3, <2>4, <2>5, <2>6, <1>4
  <2>7. CASE <<p, m>> = x
    <3>1. i \in 1 .. Len(conns[x]) + 1 /\ p = o
      BY <2>3, <2>7, <1>3, <1>4 DEF x
    <3>2. CASE i = 1
      BY <3>1, <3>2, <2>4, <2>7, <1>1, <1>3, <1>4
    <3>3. CASE i # 1
      <4>0. PICK a : a = i - 1
        OBVIOUS
      <4>1. i \in 2 .. Len(conns[x]) + 1 /\ a \in 1 .. Len(conns[x])
        BY <4>0, <3>1, <3>3, <1>3
      <4>2. conns'[x][i] = conns[x][a]
        BY <4>0, <4>1, <1>3, <1>4
      <4>3. e[3] = conns[<<p, m>>][a]
        BY <4>2, <2>4, <2>7
      <4> QED BY <4>1, <4>3, <2>4, <2>5, <2>7
    <3> QED BY <3>2, <3>3
  <2> QED BY <2>6, <2>7
<1>8. Graph'
  BY <1>1, <1>6, <1>7 DEF Graph, NoDouble
<1> QED BY <1>1, <1>4, <1>8, IdleKeeps DEF Types


\* An object is added to the head of the list.
LEMMA AddObjectStep == ASSUME IInv, NEW o \in Objects, fts_dsp_graph_add_object(o) PROVE IInv'
<1>1. /\ Types /\ Graph /\ phase = "idle" /\ o \notin ToSet(objects)
      /\ objects' = <<o>> \o objects /\ objects \in Seq(Objects)
      /\ UNCHANGED <<conns, status, phase, roots, frames, pred_cnt, in, out, signals, program>>
  BY DEF IInv, fts_dsp_graph_add_object, Edit, Types, Contains, ToSet
<1>2. /\ objects' \in Seq(Objects) /\ Len(objects) \in Nat /\ Len(objects') = Len(objects) + 1
      /\ objects'[1] = o
      /\ \A i \in 2 .. Len(objects) + 1 : objects'[i] = objects[i - 1]
      /\ DOMAIN objects = 1 .. Len(objects) /\ DOMAIN objects' = 1 .. Len(objects) + 1
  BY <1>1
<1>3. \A i \in 1 .. Len(objects) : objects[i] # o
  BY <1>1, <1>2 DEF ToSet
<1>4. ASSUME NEW i \in 1 .. Len(objects'), NEW j \in 1 .. Len(objects'), objects'[i] = objects'[j]
      PROVE  i = j
  <2>0. PICK a, b : a = i - 1 /\ b = j - 1
    OBVIOUS
  <2>1. /\ i = 1 \/ (a \in 1 .. Len(objects) /\ objects'[i] = objects[a])
        /\ j = 1 \/ (b \in 1 .. Len(objects) /\ objects'[j] = objects[b])
    BY <2>0, <1>2
  <2>2. i = 1 <=> j = 1
    <3>1. CASE i = 1
      <4>1. j # 1 => objects[b] # o /\ objects'[j] = objects[b]
        BY <2>1, <1>3
      <4> QED BY <3>1, <4>1, <1>2, <1>4
    <3>2. CASE j = 1
      <4>1. i # 1 => objects[a] # o /\ objects'[i] = objects[a]
        BY <2>1, <1>3
      <4> QED BY <3>2, <4>1, <1>2, <1>4
    <3> QED BY <3>1, <3>2
  <2>3. CASE i # 1 /\ j # 1
    <3>1. a = b
      BY <2>1, <2>3, <1>1, <1>4 DEF Graph
    <3>2. i = a + 1 /\ j = b + 1
      BY <2>0, <1>2
    <3> QED BY <3>1, <3>2, Zenon
  <2>4. CASE i = 1 /\ j = 1
    BY <2>4
  <2> QED BY <2>2, <2>3, <2>4, Zenon
<1>5. ToSet(objects) \subseteq ToSet(objects')
  <2>1. ASSUME NEW i \in 1 .. Len(objects) PROVE objects[i] \in ToSet(objects')
    <3>0. PICK m : m = i + 1
      OBVIOUS
    <3>1. m \in 2 .. Len(objects) + 1 /\ m \in 1 .. Len(objects) + 1 /\ objects'[m] = objects[i]
      BY <3>0, <1>2
    <3> QED BY <3>1, <1>2 DEF ToSet
  <2> QED BY <2>1, <1>2 DEF ToSet
<1>6. Graph'
  <2>1. Edges' = Edges
    BY <1>1 DEF Edges
  <2> QED BY <2>1, <1>1, <1>4, <1>5 DEF Graph
<1>7. /\ conns' \in [Objects \X Outs -> Seq(Conn)] /\ status' \in {"reset", "compiled"}
      /\ pred_cnt' \in [Objects -> Int]
      /\ in' \in [Objects -> [Ins -> 0 .. Len(signals)]]
      /\ out' \in [Objects -> [Outs -> 0 .. Len(signals)]]
      /\ program' \in Seq(Instruction(Len(signals)))
  BY <1>1 DEF Types
<1> QED BY <1>1, <1>2, <1>6, <1>7, IdleKeeps

\* The DSP is switched off: fts_dsp_graph_reset.
LEMMA ResetStep == ASSUME IInv, fts_dsp_graph_reset PROVE IInv'
<1>1. /\ Types /\ Graph /\ phase = "idle" /\ status' = "reset" /\ program' = <<>>
      /\ UNCHANGED <<objects, conns, phase, roots, frames, pred_cnt, in, out, signals>>
  BY DEF IInv, fts_dsp_graph_reset, Reset, graphVars
<1>2. Graph'
  <2>1. Edges' = Edges
    BY <1>1 DEF Edges
  <2> QED BY <2>1, <1>1 DEF Graph
<1>3. program' \in Seq(Instruction(Len(signals)))
  BY <1>1
<1> QED BY <1>1, <1>2, <1>3, IdleKeeps DEF Types

\* Every entry of t comes from one place in s, and all of s not in R are left.
From(t, s, R, h) == /\ \A i \in 1 .. Len(t) :
                          h[i] \in 1 .. Len(s) /\ t[i] = s[h[i]] /\ s[h[i]] \notin R
                    /\ \A i, j \in 1 .. Len(t) : h[i] = h[j] => i = j
                    /\ \A i \in 1 .. Len(s) : s[i] \notin R => \E k \in 1 .. Len(t) : t[k] = s[i]

\* The loop of Lists leaves a part of the list, every entry once.
LEMMA WithoutFrom == ASSUME NEW S, NEW s \in Seq(S), NEW R
   PROVE  Without(s, R) \in Seq(S) /\ \E h : From(Without(s, R), s, R, h)
<1>1. PICK t : t = Without(s, R) /\ t \in Seq(S)
  BY WithoutPlaces
<1>2. PICK h : Places(t, s, R, Len(s), h)
  BY <1>1, WithoutPlaces
<1>3. Len(t) \in Nat /\ Len(s) \in Nat
  BY <1>1
<1>4. \A i \in 1 .. Len(t) : h[i] \in 1 .. Len(s) /\ t[i] = s[h[i]] /\ s[h[i]] \notin R
  BY <1>2 DEF Places
<1>5. \A i, j \in 1 .. Len(t) : i < j => h[i] < h[j]
  BY <1>2 DEF Places
<1>6. ASSUME NEW i \in 1 .. Len(t), NEW j \in 1 .. Len(t), h[i] = h[j] PROVE i = j
  <2>1. ~(i < j) /\ ~(j < i)
    BY <1>3, <1>4, <1>5, <1>6
  <2> QED BY <2>1, <1>3
<1>7. ASSUME NEW i \in 1 .. Len(s), s[i] \notin R PROVE \E k \in 1 .. Len(t) : t[k] = s[i]
  <2>1. PICK k \in 1 .. Len(t) : h[k] = i
    BY <1>2, <1>7 DEF Places
  <2> QED BY <2>1, <1>4
<1>8. From(t, s, R, h)
  BY <1>4, <1>6, <1>7 DEF From
<1> QED BY <1>1, <1>8


\* An object is deleted: the list and the lists of connections keep the others,
\* in their order, and no connection leads to the object any more.
LEMMA RemoveObjectStep == ASSUME IInv, NEW o \in Objects, fts_dsp_graph_remove_object(o) PROVE IInv'
<1> DEFINE R(x) == {c \in ToSet(conns[x]) : c.dst = o}
<1>1. /\ Types /\ Graph /\ phase = "idle"
      /\ conns' = [x \in Objects \X Outs |-> IF x[1] = o THEN <<>> ELSE Without(conns[x], R(x))]
      /\ objects' = Without(objects, {o})
      /\ status' = "reset" /\ program' = <<>>
      /\ in' = [in EXCEPT ![o] = [i \in Ins |-> Nil]]
      /\ out' = [out EXCEPT ![o] = [k \in Outs |-> Nil]]
      /\ pred_cnt' = [pred_cnt EXCEPT ![o] = 0]
      /\ UNCHANGED <<phase, roots, frames, signals>>
      /\ conns \in [Objects \X Outs -> Seq(Conn)] /\ objects \in Seq(Objects)
  BY DEF IInv, fts_dsp_graph_remove_object, Edit, Reset, Types
<1>2. PICK h : From(objects', objects, {o}, h)
  BY <1>1, WithoutFrom
<1>3. objects' \in Seq(Objects)
  BY <1>1, WithoutFrom
<1>4. \A i, j \in 1 .. Len(objects') : objects'[i] = objects'[j] => i = j
  <2>1. ASSUME NEW i \in 1 .. Len(objects'), NEW j \in 1 .. Len(objects'), objects'[i] = objects'[j]
        PROVE  i = j
    <3>1. PICK a, b : a = h[i] /\ b = h[j]
      OBVIOUS
    <3>2. a \in 1 .. Len(objects) /\ b \in 1 .. Len(objects) /\ objects[a] = objects[b]
      BY <3>1, <2>1, <1>2 DEF From
    <3>3. a = b
      BY <3>2, <1>1 DEF Graph
    <3> QED BY <3>1, <3>3, <1>2 DEF From
  <2> QED BY <2>1
<1>5. \A p \in ToSet(objects) : p # o => p \in ToSet(objects')
  <2>1. /\ \A p \in ToSet(objects) : \E i \in 1 .. Len(objects) : p = objects[i]
        /\ DOMAIN objects' = 1 .. Len(objects')
    <3>1. DOMAIN objects = 1 .. Len(objects) /\ DOMAIN objects' = 1 .. Len(objects')
      BY <1>1, <1>3
    <3> QED BY <3>1 DEF ToSet
  <2>2. ASSUME NEW i \in 1 .. Len(objects'), NEW p, p = objects'[i] PROVE p \in ToSet(objects')
    BY <2>1, <2>2 DEF ToSet
  <2>3. ASSUME NEW p \in ToSet(objects), p # o PROVE p \in ToSet(objects')
    <3>1. PICK i \in 1 .. Len(objects) : p = objects[i]
      BY <2>1
    <3>2. PICK k \in 1 .. Len(objects') : objects'[k] = p
      BY <3>1, <2>3, <1>2 DEF From
    <3> QED BY <3>2, <2>2
  <2> QED BY <2>3
<1>6. ASSUME NEW x \in Objects \X Outs
      PROVE  /\ x[1] = o => conns'[x] = <<>>
             /\ x[1] # o => conns'[x] = Without(conns[x], R(x))
             /\ conns[x] \in Seq(Conn)
  <2> HIDE DEF R
  <2> QED BY <1>1
<1>7. ASSUME NEW x \in Objects \X Outs, x[1] # o
      PROVE  /\ conns'[x] \in Seq(Conn)
             /\ \E f : From(conns'[x], conns[x], R(x), f)
  <2>1. PICK s \in Seq(Conn) : s = conns[x]
    BY <1>6
  <2>2. PICK D : D = R(x)
    OBVIOUS
  <2> HIDE DEF R
  <2>3. conns'[x] = Without(s, D)
    BY <1>6, <1>7, <2>1, <2>2
  <2>4. Without(s, D) \in Seq(Conn) /\ \E f : From(Without(s, D), s, D, f)
    BY WithoutFrom
  <2> QED BY <2>1, <2>2, <2>3, <2>4
<1>8. conns' \in [Objects \X Outs -> Seq(Conn)]
  <2>1. \A x \in Objects \X Outs : conns'[x] \in Seq(Conn)
    <3>1. ASSUME NEW x \in Objects \X Outs PROVE conns'[x] \in Seq(Conn)
      <4>1. CASE x[1] = o
        <5>1. conns'[x] = <<>>
          BY <4>1, <1>6
        <5> QED BY <5>1
      <4>2. CASE x[1] # o
        BY <4>2, <1>7
      <4> QED BY <4>1, <4>2
    <3> QED BY <3>1
  <2>2. conns' = [x \in Objects \X Outs |-> conns'[x]]
    <3> HIDE DEF R
    <3> QED BY <1>1
  <2> QED BY <2>1, <2>2
<1>9. Edges' = EdgesOf(conns') /\ Edges = EdgesOf(conns) /\ NoDouble(conns)
  BY <1>1, Facts DEF Edges, EdgesOf
<1>10. ASSUME NEW x \in Objects \X Outs, NEW i \in 1 .. Len(conns'[x]), NEW j \in 1 .. Len(conns'[x]),
              conns'[x][i].dst = conns'[x][j].dst, conns'[x][i].inlet = conns'[x][j].inlet
       PROVE  i = j
  <2>1. x[1] # o
    <3> SUFFICES ASSUME x[1] = o PROVE FALSE
      OBVIOUS
    <3>1. conns'[x] = <<>>
      BY <1>6
    <3> QED BY <3>1, <1>10
  <2> HIDE DEF R
  <2>2. PICK f : /\ \A m \in 1 .. Len(conns'[x]) :
                            f[m] \in 1 .. Len(conns[x]) /\ conns'[x][m] = conns[x][f[m]]
                 /\ \A m, n \in 1 .. Len(conns'[x]) : f[m] = f[n] => m = n
    <3>1. PICK f : From(conns'[x], conns[x], R(x), f)
      BY <2>1, <1>7
    <3> QED BY <3>1 DEF From
  <2>3. PICK a, b : a = f[i] /\ b = f[j]
    OBVIOUS
  <2>4. /\ a \in 1 .. Len(conns[x]) /\ b \in 1 .. Len(conns[x])
        /\ conns[x][a].dst = conns[x][b].dst /\ conns[x][a].inlet = conns[x][b].inlet
    BY <2>2, <2>3, <1>10
  <2>5. a = b
    BY ONLY <2>4, <1>9, <1>10 DEF NoDouble
  <2> QED BY <2>2, <2>3, <2>5
<1>11. ASSUME NEW e \in Edges' PROVE {e[1], e[3].dst} \subseteq ToSet(objects')
  <2>1. PICK z \in [Objects \X Outs -> Seq(Conn)] : z = conns'
    BY <1>8
  <2>2. PICK p \in Objects, m \in Outs : \E i \in 1 .. Len(z[<<p, m>>]) :
           e = <<p, m, z[<<p, m>>][i]>> /\ z[<<p, m>>][i] \in Conn
    <3>1. e \in EdgesOf(z)
      BY <2>1, <1>9
    <3>2. \A a \in EdgesOf(z) : \E p \in Objects, m \in Outs : \E i \in 1 .. Len(z[<<p, m>>]) :
             a = <<p, m, z[<<p, m>>][i]>> /\ z[<<p, m>>][i] \in Conn
      BY EdgesAre
    <3> QED BY <3>1, <3>2
  <2>3. PICK x \in Objects \X Outs : x = <<p, m>>
    OBVIOUS
  <2>4. PICK i \in 1 .. Len(conns'[x]) : e = <<p, m, conns'[x][i]>>
    BY <2>1, <2>2, <2>3
  <2>5. e[1] = p /\ e[3] = conns'[x][i] /\ x[1] = p
    BY <2>3, <2>4
  <2>6. p # o
    <3> SUFFICES ASSUME p = o PROVE FALSE
      OBVIOUS
    <3>1. conns'[x] = <<>>
      BY <2>5, <1>6
    <3> QED BY <3>1, <2>4
  <2>7. PICK a \in 1 .. Len(conns[x]) : conns'[x][i] = conns[x][a] /\ conns[x][a] \notin R(x)
    <3> HIDE DEF R
    <3>1. PICK f : \A n \in 1 .. Len(conns'[x]) :
                            f[n] \in 1 .. Len(conns[x]) /\ conns'[x][n] = conns[x][f[n]]
                            /\ conns[x][f[n]] \notin R(x)
      <4>1. PICK f : From(conns'[x], conns[x], R(x), f)
        BY <2>5, <2>6, <1>7
      <4> QED BY <4>1 DEF From
    <3> QED BY <3>1
  <2>8. conns[x][a] \in ToSet(conns[x]) /\ conns[x][a].dst # o
    <3>1. conns[x][a] \in ToSet(conns[x])
      BY <1>6 DEF ToSet
    <3> QED BY <3>1, <2>7
  <2>9. {p, conns[x][a].dst} \subseteq ToSet(objects)
    <3>1. <<p, m, conns[<<p, m>>][a]>> \in Edges
      BY <2>3, <1>1, <1>9, EdgesAre
    <3>2. PICK y : y = <<p, m, conns[x][a]>>
      OBVIOUS
    <3>3. y \in Edges /\ y[1] = p /\ y[3] = conns[x][a]
      BY <3>1, <3>2, <2>3
    <3> QED BY <3>3, <1>1 DEF Graph
  <2> QED BY <2>5, <2>6, <2>7, <2>8, <2>9, <1>5
<1>12. Graph'
  BY <1>4, <1>10, <1>11 DEF Graph
<1>13. /\ pred_cnt' \in [Objects -> Int]
       /\ in' \in [Objects -> [Ins -> 0 .. Len(signals)]]
       /\ out' \in [Objects -> [Outs -> 0 .. Len(signals)]]
       /\ program' \in Seq(Instruction(Len(signals)))
  <2>1. Len(signals) \in Nat
    BY <1>1, Facts
  <2>2. Nil \in 0 .. Len(signals)
    BY <2>1 DEF Nil
  <2>3. /\ pred_cnt \in [Objects -> Int]
        /\ in \in [Objects -> [Ins -> 0 .. Len(signals)]]
        /\ out \in [Objects -> [Outs -> 0 .. Len(signals)]]
    BY <1>1 DEF Types
  <2>4. program' \in Seq(Instruction(Len(signals)))
    BY <1>1
  <2>5. in' \in [Objects -> [Ins -> 0 .. Len(signals)]]
    BY <2>2, <2>3, <1>1
  <2>6. out' \in [Objects -> [Outs -> 0 .. Len(signals)]]
    BY <2>2, <2>3, <1>1
  <2>7. pred_cnt' \in [Objects -> Int]
    BY <2>3, <1>1
  <2> QED BY <2>4, <2>5, <2>6, <2>7
<1> QED BY <1>1, <1>3, <1>8, <1>12, <1>13, IdleKeeps

-----------------------------------------------------------------------------
(* The invariant of every behaviour.                                        *)

\* What SetToSeq chooses: a list of all objects, none of them twice.
LEMMA SetToSeqIs == ASSUME NEW S, IsFiniteSet(S)
   PROVE  /\ SetToSeq(S) \in Seq(S)
          /\ \A i, j \in 1 .. Len(SetToSeq(S)) : SetToSeq(S)[i] = SetToSeq(S)[j] => i = j
<1> DEFINE n == Cardinality(S)
           f == SetToSeq(S)
<1>1. n \in Nat /\ ExistsBijection(1 .. n, S)
  BY FS_CardinalityType
<1>2. \E g \in [1 .. n -> S] : IsInjective(g)
  BY <1>1 DEF ExistsBijection, Bijection, Injection
<1>3. f \in [1 .. n -> S] /\ IsInjective(f)
  BY <1>2 DEF SetToSeq
<1> HIDE DEF f, n
<1>4. f \in Seq(S) /\ Len(f) = n
  BY <1>1, <1>3
<1>5. \A i, j \in 1 .. Len(f) : f[i] = f[j] => i = j
  BY <1>3, <1>4 DEF IsInjective
<1> QED BY <1>4, <1>5 DEF f

\* ... and the same list backwards.
LEMMA ReverseIs == ASSUME NEW S, NEW s \in Seq(S), \A i, j \in 1 .. Len(s) : s[i] = s[j] => i = j
   PROVE  /\ Reverse(s) \in Seq(S)
          /\ \A i, j \in 1 .. Len(Reverse(s)) : Reverse(s)[i] = Reverse(s)[j] => i = j
<1>0. PICK n \in Nat : n = Len(s)
  OBVIOUS
<1>1. Reverse(s) = [i \in 1 .. n |-> s[(n - i) + 1]]
  BY <1>0 DEF Reverse
<1>2. \A i \in 1 .. n : (n - i) + 1 \in 1 .. n
  OBVIOUS
<1>3. \A i \in 1 .. n : s[(n - i) + 1] \in S
  BY <1>0, <1>2
<1>4. Reverse(s) \in Seq(S) /\ Len(Reverse(s)) = n
  BY <1>1, <1>3
<1>5. ASSUME NEW i \in 1 .. n, NEW j \in 1 .. n, Reverse(s)[i] = Reverse(s)[j] PROVE i = j
  <2>1. PICK a, b : a = (n - i) + 1 /\ b = (n - j) + 1
    OBVIOUS
  <2>2. a \in 1 .. n /\ b \in 1 .. n /\ s[a] = s[b]
    BY <2>1, <1>1, <1>2, <1>5
  <2>3. a = b
    BY <2>2, <1>0
  <2>4. (n - i) + 1 = (n - j) + 1
    BY <2>1, <2>3
  <2> QED BY <2>4
<1> QED BY <1>4, <1>5

\* A patch that has just been opened.
LEMMA InitKeeps == ASSUME Init PROVE IInv
<1>1. objects \in Seq(Objects) /\ \A i, j \in 1 .. Len(objects) : objects[i] = objects[j] => i = j
  <2>1. /\ SetToSeq(Objects) \in Seq(Objects)
        /\ \A i, j \in 1 .. Len(SetToSeq(Objects)) :
              SetToSeq(Objects)[i] = SetToSeq(Objects)[j] => i = j
    BY GraphAssumption, SetToSeqIs
  <2>2. PICK s \in Seq(Objects) : s = SetToSeq(Objects)
    BY <2>1
  <2>3. \A i, j \in 1 .. Len(s) : s[i] = s[j] => i = j
    BY <2>1, <2>2
  <2>4. /\ Reverse(s) \in Seq(Objects)
        /\ \A i, j \in 1 .. Len(Reverse(s)) : Reverse(s)[i] = Reverse(s)[j] => i = j
    BY <2>3, ReverseIs
  <2>5. objects = s \/ objects = Reverse(s)
    BY <2>2 DEF Init
  <2> QED BY <2>3, <2>4, <2>5
<1>2. /\ conns = [x \in Objects \X Outs |-> <<>>]
      /\ status = "reset" /\ phase = "idle" /\ roots = <<>> /\ frames = <<>>
      /\ pred_cnt = [o \in Objects |-> 0]
      /\ in = NoSignals(Ins) /\ out = NoSignals(Outs)
      /\ signals = <<>> /\ program = <<>>
  BY DEF Init
<1>3. Types
  <2>1. Len(signals) = 0 /\ signals \in Seq(SignalRec) /\ program \in Seq(Instruction(Len(signals)))
    BY <1>2
  <2>2. in \in [Objects -> [Ins -> 0 .. 0]] /\ out \in [Objects -> [Outs -> 0 .. 0]]
    BY <1>2 DEF NoSignals, Nil
  <2>3. conns \in [Objects \X Outs -> Seq(Conn)]
    BY <1>2
  <2>4. roots \in Seq(Objects) /\ frames \in Seq(Frame) /\ pred_cnt \in [Objects -> Int]
    BY <1>2
  <2> QED BY <2>1, <2>2, <2>3, <2>4, <1>1, <1>2 DEF Types
<1>4. Edges = {}
  <2>1. \A x \in Objects \X Outs : DOMAIN conns[x] = {}
    BY <1>2
  <2> QED BY <2>1 DEF Edges
<1>5. Graph
  <2>1. \A x \in Objects \X Outs : Len(conns[x]) = 0
    BY <1>2
  <2> QED BY <2>1, <1>1, <1>4 DEF Graph
<1>6. Stack
  <2>1. ToSet(roots) = {} /\ Len(frames) = 0
    BY <1>2 DEF ToSet
  <2> QED BY <2>1, <1>2 DEF Stack
<1> QED BY <1>2, <1>3, <1>5, <1>6 DEF IInv

\* A step of something else.
LEMMA StutterKeeps == ASSUME IInv, UNCHANGED vars PROVE IInv'
<1>1. /\ UNCHANGED <<objects, conns, status, phase, roots, frames, pred_cnt, in, out, signals, program>>
      /\ DOMAIN signals' = DOMAIN signals
  BY DEF vars
<1>2. /\ Edges' = Edges /\ Content' = Content /\ Puts' = Puts
      /\ \A s : Readers(s)' = Readers(s)
      /\ \A B : Blocked(B)' <=> Blocked(B)
      /\ \A o, i : Sources(o, i)' = Sources(o, i)
      /\ \A f, e : Ahead(f, e)' <=> Ahead(f, e)
  BY <1>1, Same
<1>3. Top' = Top /\ \A walk : Scheduling(walk)' <=> Scheduling(walk)
  <2>1. Top' = Top
    BY <1>1 DEF Top, Last
  <2> QED BY <2>1, <1>1 DEF Scheduling
<1>4. Unpassed' = Unpassed
  BY <1>1, <1>2, <1>3 DEF Unpassed
<1>5. Types' /\ Graph' /\ Stack'
  BY <1>1, <1>2 DEF IInv, Types, Graph, Stack
<1>6. ASSUME phase = "schedule" PROVE /\ Counted' /\ Reached' /\ LoopsWait'
                                      /\ PutOnce' /\ PutScheduled' /\ PutBehind'
                                      /\ Counts' /\ Waiting' /\ Outputs' /\ Contents'
  <2>1. /\ Counted /\ Reached /\ LoopsWait /\ PutOnce /\ PutScheduled /\ PutBehind
        /\ Counts /\ Waiting /\ Outputs /\ Contents
    BY <1>6 DEF IInv
  <2>2. \A s : Pending(s)' <=> Pending(s)
    BY <1>1 DEF Pending
  <2>3. Counted'
    <3>1. \A o : Into(o, Unpassed)' = Into(o, Unpassed)
      BY <1>4 DEF Into
    <3> QED BY <3>1, <2>1, <1>1 DEF Counted
  <2>4. Reached'
    <3>1. \A o : Met(o)' <=> Met(o)
      BY <1>1, <1>2 DEF Met
    <3> QED BY <3>1, <2>1, <1>1 DEF Reached
  <2>5. LoopsWait'
    BY <2>1, <1>1, <1>2 DEF LoopsWait
  <2>6. PutOnce' /\ PutBehind'
    BY <2>1, <1>1, <1>2 DEF PutOnce, PutBehind
  <2>7. PutScheduled'
    BY <2>1, <1>1, <1>2, <1>3 DEF PutScheduled
  <2>8. Counts'
    BY <2>1, <2>2, <1>1, <1>2, <1>3 DEF Counts
  <2>9. Waiting'
    BY <2>1, <1>1 DEF Waiting
  <2>10. Outputs'
    BY <2>1, <2>2, <1>1, <1>3 DEF Outputs
  <2>11. Contents'
    <3>1. Now' = Now
      BY <1>1, <1>2 DEF Now
    <3>2. Follows(program, 1 .. Len(signals), Content)'
      BY <2>1, <1>1, <1>2 DEF Contents, Follows
    <3>3. \A o, i : Passed(o, i)' = Passed(o, i)
      BY <1>1, <1>2, <1>4 DEF Passed
    <3>4. LengthsKept
      BY <1>1 DEF LengthsKept
    <3>5. InputsSum'
      <4>1. \A o \in ToSet(objects) : o \in Objects
        BY DEF IInv, Types, ToSet
      <4>2. ASSUME NEW o \in ToSet(objects), NEW i \in Ins, pred_cnt[o] # SCHEDULED
            PROVE  InletSum(o, i)'
        <5>1. Types /\ Graph /\ InletSum(o, i) /\ o \in Objects
          BY <2>1, <4>1, <4>2 DEF IInv, Contents, InputsSum
        <5> QED BY <5>1, <2>1, <3>1, <3>3, <3>4, <4>2, <1>1, InletKept
      <4> QED BY <4>2, <1>1 DEF InputsSum
    <3>6. \A o, i : Even(o, i)' <=> Even(o, i)
      BY <2>1, <3>4, <1>2, EvenStays DEF IInv
    <3>7. TopHears'
      BY <2>1, <3>1, <3>6, <1>1, <1>2, <1>3 DEF Contents, TopHears
    <3>8. Heard'
      BY <2>1, <3>6, <1>1, <1>2 DEF Contents, Heard
    <3>9. (\A n \in 0 .. Len(program) : Content[n][sig_zero] = {})'
      BY <2>1, <1>1, <1>2 DEF Contents
    <3> QED BY <3>2, <3>5, <3>7, <3>8, <3>9 DEF Contents
  <2> QED BY <2>3, <2>4, <2>5, <2>6, <2>7, <2>8, <2>9, <2>10, <2>11
<1> QED BY <1>1, <1>5, <1>6 DEF IInv

\* Every step keeps the invariant.
LEMMA NextKeeps == ASSUME IInv, [Next]_vars PROVE IInv'
<1>1. ASSUME NEW w \in Wires, Connect(w[1], w[2], w[3]) PROVE IInv'
  BY <1>1, ConnectStep
<1>2. ASSUME NEW o \in Objects, fts_dsp_graph_remove_object(o) PROVE IInv'
  BY <1>2, RemoveObjectStep
<1>3. ASSUME NEW o \in Objects, fts_dsp_graph_add_object(o) PROVE IInv'
  BY <1>3, AddObjectStep
<1>4. CASE fts_dsp_graph_reset
  BY <1>4, ResetStep
<1>5. CASE CompileBegin
  BY <1>5, CompileBeginStep
<1>6. CASE Compile
  BY <1>6, RootStep, GenOutputStep, PutNodeStep, NextOutletStep, EdgeStep, EdgesEndStep,
     DepthStep, DepthEndStep, CompileEndStep DEF Compile
<1>7. CASE UNCHANGED vars
  BY <1>7, StutterKeeps
<1> QED BY <1>1, <1>2, <1>3, <1>4, <1>5, <1>6, <1>7 DEF Next

\* The compiler keeps the invariant, whatever is done to the patch between two
\* compilations.
THEOREM Invariant == Spec => []IInv
<1>1. Init => IInv
  BY InitKeeps
<1>2. IInv /\ [Next]_vars => IInv'
  BY NextKeeps
<1> QED BY <1>1, <1>2, PTL DEF Spec

-----------------------------------------------------------------------------
(* The properties.                                                          *)

\* Type correctness: the inputs and outputs of an object name signals that have
\* been made, and no count falls below that of a pending signal.
THEOREM TypeCorrect == Spec => []TypeOK
<1>1. IInv => TypeOK
  <2> SUFFICES ASSUME IInv PROVE TypeOK
    OBVIOUS
  <2>1. Types /\ DOMAIN signals = 1 .. Len(signals)
    BY DEF IInv, Types
  <2>2. ToSet(objects) \subseteq Objects
    BY <2>1 DEF Types, ToSet
  <2> QED BY <2>1, <2>2 DEF Types, TypeOK
<1> QED BY <1>1, Invariant, PTL

\* The reference counts of fts_dsp_signal_reference and _unreference: the count
\* of a signal is the number of inlets that have still to read it, in any patch.
THEOREM CountsCorrect == Spec => []CountsExact
<1>1. IInv => CountsExact
  <2> SUFFICES ASSUME IInv, phase = "schedule", NEW s \in DOMAIN signals \ {sig_zero}
               PROVE  \/ signals[s].refcnt = Cardinality(Readers(s))
                      \/ /\ signals[s].refcnt = SIGNAL_PENDING
                         /\ Readers(s) = {}
                         /\ frames # <<>> /\ Top.walk \in {"outputs", "edges"}
                         /\ \E k \in Outs : out[Top.object][k] = s
    BY DEF CountsExact
  <2>1. Counts /\ s \in 1 .. Len(signals) /\ s # sig_zero
    BY DEF IInv, Types
  <2> QED BY <2>1 DEF Counts, Pending, Scheduling
<1> QED BY <1>1, Invariant, PTL

\* The sums of fts_dsp_graph_compile: when it is done, every object of the
\* program finds in each inlet what is connected there, however many
\* connections, fan-outs and signals taken again the patch has, where the vectors
\* connected to the inlet have one length; where there are none, it reads silence if
\* it does not read more than a tick (dspgraph.c:628 and 449 leave the rest open).
THEOREM HearsCorrect == Spec => HearsItsSources
<1> DEFINE Hears == \A n \in Puts : \A i \in Ins :
                       Matching(n, i) => Reads(n, i) = Sources(program[n].object, i)
<1>1. ASSUME IInv, CompileEnd, NEW n \in Puts, NEW i \in Ins, Matching(n, i)
      PROVE  Reads(n, i) = Sources(program[n].object, i)
  <2>1. PICK o, s : o = program[n].object /\ s = program[n].in[i]
    OBVIOUS
  <2>2. Content[n - 1][s] = Sources(o, i)
    BY <2>1, <1>1 DEF IInv, CompileEnd, Contents, Heard, Matching
  <2>3. CASE s = sig_zero
    <3>1. n - 1 \in 0 .. Len(program)
      BY <1>1 DEF IInv, Types, Puts
    <3>2. Content[n - 1][sig_zero] = {}
      BY <3>1, <1>1 DEF IInv, CompileEnd, Contents
    <3>3. program[n].size <= TickSize
      BY <3>2, <2>1, <2>2, <2>3, <1>1 DEF Matching
    <3>4. ~(program[n].size > TickSize)
      <4>1. program[n].size \in Nat
        BY <1>1 DEF IInv, Types, Puts, Instruction
      <4> QED BY <4>1, <3>3, GraphAssumption
    <3> QED BY <3>4, <2>1, <2>2 DEF Reads
  <2>4. CASE s # sig_zero
    BY <2>1, <2>2, <2>4 DEF Reads
  <2> QED BY <2>3, <2>4
<1> HIDE DEF Hears
<1>2. IInv /\ [Next]_vars => [CompileEnd => Hears]_vars
  BY <1>1 DEF Hears
<1>3. Spec => [][CompileEnd => Hears]_vars
  BY <1>2, Invariant, PTL DEF Spec
<1> QED BY <1>3 DEF HearsItsSources, Hears

\* At the end of a compilation the objects that have not been scheduled wait
\* for one another: everything dsp_graph_check_loop complains of.
LEMMA LeftWait == ASSUME IInv, CompileEnd
                  PROVE  Blocked({o \in ToSet(objects) : pred_cnt[o] # SCHEDULED})
<1> DEFINE B == {o \in ToSet(objects) : pred_cnt[o] # SCHEDULED}
<1>1. /\ Types /\ Graph /\ Counted /\ Reached /\ frames = <<>> /\ roots = <<>>
      /\ \A o \in ToSet(objects) : o \in Objects
  BY DEF IInv, CompileEnd, Types, ToSet
<1>2. ASSUME NEW o \in B PROVE \E e \in Edges : e[1] \in B /\ e[3].dst = o
  <2>1. o \in ToSet(objects) /\ o \in Objects /\ pred_cnt[o] # SCHEDULED
    BY <1>1
  <2>2. ~Met(o)
    <3>1. ToSet(roots) = {} /\ Len(frames) = 0
      BY <1>1 DEF ToSet
    <3> QED BY <3>1 DEF Met
  <2>3. pred_cnt[o] # 0 /\ pred_cnt[o] = Cardinality(Into(o, Unpassed))
    BY <2>1, <2>2, <1>1 DEF Reached, Counted
  <2>4. Into(o, Unpassed) # {}
    BY <2>3, FS_EmptySet
  <2>5. PICK e \in Edges : e \in Unpassed /\ e[3].dst = o
    BY <2>4 DEF Into, Unpassed
  <2>6. pred_cnt[e[1]] # SCHEDULED
    BY <2>5, <1>1 DEF Unpassed, Scheduling
  <2>7. e[1] \in ToSet(objects)
    BY <1>1 DEF Graph
  <2> QED BY <2>5, <2>6, <2>7
<1> QED BY <1>2 DEF Blocked

\* The order of the program: every connection leads from an object computed
\* earlier to one computed later, none is computed twice, and those on a loop
\* or behind one, and no others, are left out.
THEOREM SequentialCorrect == Spec => Sequential
<1> DEFINE Order == /\ \A e \in Edges : \A n \in PutOf(e[3].dst) :
                          pred_cnt[e[1]] = SCHEDULED /\ \A m \in PutOf(e[1]) : m < n
                    /\ \A o \in ToSet(objects) :
                         /\ Cardinality(PutOf(o)) <= 1
                         /\ pred_cnt[o] # SCHEDULED <=>
                              \E B \in SUBSET ToSet(objects) : o \in B /\ Blocked(B)
<1>1. ASSUME IInv, CompileEnd PROVE Order
  <2>1. /\ Types /\ Graph /\ Counted /\ LoopsWait /\ PutOnce /\ PutScheduled /\ PutBehind
        /\ frames = <<>>
        /\ \A e \in Edges : e[1] \in Objects /\ e[3].dst \in Objects
    BY <1>1, Facts DEF IInv, CompileEnd
  <2>2. ASSUME NEW e \in Edges, NEW n \in PutOf(e[3].dst)
        PROVE  pred_cnt[e[1]] = SCHEDULED /\ \A m \in PutOf(e[1]) : m < n
    <3>1. n \in Puts /\ program[n].object = e[3].dst
      BY DEF PutOf
    <3>2. pred_cnt[e[3].dst] = SCHEDULED
      BY <3>1, <2>1 DEF PutScheduled
    <3>3. e \notin Unpassed
      BY <3>2, <2>1 DEF Counted, Into
    <3>4. pred_cnt[e[1]] = SCHEDULED
      BY <3>3 DEF Unpassed
    <3>5. \A m \in PutOf(e[1]) : m < n
      BY <3>1, <2>1 DEF PutBehind, PutOf
    <3> QED BY <3>4, <3>5
  <2>3. ASSUME NEW o \in ToSet(objects) PROVE Cardinality(PutOf(o)) <= 1
    <3>1. CASE PutOf(o) = {}
      <4>1. Cardinality(PutOf(o)) = 0
        BY <3>1, FS_EmptySet
      <4> QED BY <4>1
    <3>2. CASE PutOf(o) # {}
      <4>1. PICK n : n \in PutOf(o)
        BY <3>2
      <4>2. \A m \in PutOf(o) : m = n
        BY <4>1, <2>1 DEF PutOf, PutOnce
      <4>3. PutOf(o) = {n}
        BY <4>1, <4>2
      <4>4. Cardinality({n}) = 1
        BY FS_Singleton
      <4> QED BY <4>3, <4>4
    <3> QED BY <3>1, <3>2
  <2>4. ASSUME NEW o \in ToSet(objects)
        PROVE  pred_cnt[o] # SCHEDULED <=>
                 \E B \in SUBSET ToSet(objects) : o \in B /\ Blocked(B)
    <3>1. ASSUME pred_cnt[o] # SCHEDULED
          PROVE  \E B \in SUBSET ToSet(objects) : o \in B /\ Blocked(B)
      <4>1. PICK B : B = {p \in ToSet(objects) : pred_cnt[p] # SCHEDULED}
        OBVIOUS
      <4>2. B \in SUBSET ToSet(objects) /\ o \in B
        BY <4>1, <3>1
      <4>3. Blocked(B)
        BY <4>1, <1>1, LeftWait
      <4> QED BY <4>2, <4>3
    <3>2. ASSUME NEW B \in SUBSET ToSet(objects), o \in B, Blocked(B)
          PROVE  pred_cnt[o] # SCHEDULED
      BY <3>2, <2>1 DEF LoopsWait
    <3> QED BY <3>1, <3>2
  <2> QED BY <2>2, <2>3, <2>4
<1> HIDE DEF Order
<1>2. IInv /\ [Next]_vars => [CompileEnd => Order]_vars
  BY <1>1
<1>3. Spec => [][CompileEnd => Order]_vars
  BY <1>2, Invariant, PTL DEF Spec
<1> QED BY <1>3 DEF Sequential, Order
=============================================================================
