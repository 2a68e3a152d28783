--------------------------- MODULE TimebaseProofs ---------------------------
(***************************************************************************)
(* The time base for any number of objects, alarms and nested calls.  The   *)
(* list of alarms is seen in two ways: as a sequence that stays ordered,    *)
(* and as the set of its alarms, which the reference counts count.          *)
(***************************************************************************)
EXTENDS Timebase, FiniteSetTheorems, WellFoundedInduction, SequenceTheorems, TLAPS

-----------------------------------------------------------------------------
(* What the loop of Lists leaves of a list, for every list.                 *)

\* A set of natural numbers that is not empty has a least element.
LEMMA NatMin == ASSUME NEW T \in SUBSET Nat, T # {}
                PROVE  \E m \in T : \A k \in T : m <= k
<1>1. IsWellFoundedOn(OpToRel(<, Nat), Nat)  BY NatLessThanWellFounded
<1>2. PICK m \in T : \A k \in T : ~(<<k, m>> \in OpToRel(<, Nat)) BY <1>1, WFMin
<1>3. \A k \in T : ~(k < m) BY <1>2 DEF OpToRel
<1> HIDE <1>2
<1> QED BY <1>3

\* t is what is left of the first n entries of s: h gives the old place of
\* every entry of t, keeps their order, and misses only entries in R.
Places(t, s, R, n, h) ==
   /\ h \in [1 .. Len(t) -> 1 .. n]
   /\ \A j, k \in 1 .. Len(t) : j < k => h[j] < h[k]
   /\ \A k \in 1 .. Len(t) : t[k] = s[h[k]] /\ s[h[k]] \notin R
   /\ \A i \in 1 .. n : s[i] \notin R => \E k \in 1 .. Len(t) : h[k] = i

\* The places up to one that is kept are more than those up to an earlier one.
LEMMA RankGrows == ASSUME NEW n \in Nat, NEW K \in SUBSET (1 .. n)
   PROVE /\ IsFiniteSet(K) /\ Cardinality(K) \in Nat
         /\ \A i \in K : Cardinality({j \in K : j <= i}) \in 1 .. Cardinality(K)
         /\ \A i, k \in K : i < k =>
               Cardinality({j \in K : j <= i}) < Cardinality({j \in K : j <= k})
<1>1. IsFiniteSet(K) /\ Cardinality(K) \in Nat
  <2>1. IsFiniteSet(1 .. n)
    BY FS_Interval
  <2>2. IsFiniteSet(K)
    BY <2>1, FS_Subset
  <2> QED BY <2>2, FS_CardinalityType
<1>2. ASSUME NEW i \in K
      PROVE  /\ IsFiniteSet({j \in K : j <= i})
             /\ Cardinality({j \in K : j <= i}) \in 1 .. Cardinality(K)
  <2> DEFINE B == {j \in K : j <= i}
  <2>1. B \in SUBSET K /\ B # {}
    OBVIOUS
  <2> HIDE DEF B
  <2>2. IsFiniteSet(B) /\ Cardinality(B) <= Cardinality(K)
    BY <1>1, <2>1, FS_Subset
  <2>3. Cardinality(B) \in Nat /\ Cardinality(B) # 0
    BY <2>1, <2>2, FS_CardinalityType, FS_EmptySet
  <2> QED BY <1>1, <2>2, <2>3 DEF B
<1>3. ASSUME NEW i \in K, NEW k \in K, i < k
      PROVE  Cardinality({j \in K : j <= i}) < Cardinality({j \in K : j <= k})
  <2> DEFINE A == {j \in K : j <= i}
             B == {j \in K : j <= k}
  <2>0. \A j \in K : j \in Int
    OBVIOUS
  <2>a. k <= k /\ ~(k <= i) /\ \A j \in K : j <= i => j <= k
    BY <1>3, <2>0
  <2>1. A \in SUBSET B /\ k \in B /\ k \notin A
    BY <2>a, Zenon
  <2>2. IsFiniteSet(B) /\ Cardinality(A) \in Nat /\ Cardinality(B) \in Nat
    BY <1>2
  <2> HIDE DEF A, B
  <2>3. Cardinality(A) <= Cardinality(B) /\ (Cardinality(B) = Cardinality(A) => B = A)
    BY <2>1, <2>2, FS_Subset
  <2>4. Cardinality(A) < Cardinality(B)
    BY <2>1, <2>2, <2>3
  <2> QED BY <2>4 DEF A, B
<1> QED BY <1>1, <1>2, <1>3

\* So every number up to the number of places kept is the rank of one of them.
LEMMA RankReaches == ASSUME NEW n \in Nat, NEW K \in SUBSET (1 .. n), NEW r \in 1 .. Cardinality(K)
   PROVE \E i \in K : Cardinality({j \in K : j <= i}) = r
<1> DEFINE rank == [i \in K |-> Cardinality({j \in K : j <= i})]
<1>1. /\ IsFiniteSet(K) /\ Cardinality(K) \in Nat
      /\ rank \in [K -> 1 .. Cardinality(K)]
      /\ \A i, k \in K : i < k => rank[i] < rank[k]
  BY RankGrows
<1> HIDE DEF rank
<1>2. \A i, k \in K : rank[i] = rank[k] => i = k
  <2> SUFFICES ASSUME NEW i \in K, NEW k \in K, rank[i] = rank[k], i # k PROVE FALSE
    OBVIOUS
  <2>1. i < k \/ k < i
    OBVIOUS
  <2>2. rank[i] < rank[k] \/ rank[k] < rank[i]
    BY <2>1, <1>1
  <2>3. rank[i] \in 1 .. Cardinality(K) /\ rank[k] \in 1 .. Cardinality(K)
    BY <1>1
  <2> QED BY <2>2, <2>3, <1>1
<1>3. rank \in Injection(K, 1 .. Cardinality(K))
  BY <1>1, <1>2 DEF Injection, IsInjective
<1>4. IsFiniteSet(1 .. Cardinality(K)) /\ Cardinality(1 .. Cardinality(K)) = Cardinality(K)
  BY <1>1, FS_Interval
<1>5. rank \in Surjection(K, 1 .. Cardinality(K))
  BY <1>3, <1>4, FS_Injection
<1>6. PICK i \in K : rank[i] = r
  BY <1>5 DEF Surjection
<1> QED BY <1>6 DEF rank

\* The loop of Lists unlinks exactly the entries it should and keeps the order
\* of the others.
LEMMA WithoutPlaces == ASSUME NEW S, NEW s \in Seq(S), NEW R
   PROVE /\ Without(s, R) \in Seq(S)
         /\ \E h : Places(Without(s, R), s, R, Len(s), h)
<1> DEFINE K == Kept(s, R)
           m == Cardinality(K)
           h == [k \in 1 .. m |-> KeptPlace(s, R, k)]
           t == Without(s, R)
<1>1. Len(s) \in Nat /\ K \in SUBSET (1 .. Len(s)) /\ \A i \in 1 .. Len(s) : s[i] \in S
  BY DEF Kept
<1>2. /\ m \in Nat
      /\ \A i \in K : Cardinality({j \in K : j <= i}) \in 1 .. m
      /\ \A i, k \in K : i < k => Cardinality({j \in K : j <= i}) < Cardinality({j \in K : j <= k})
      /\ \A i \in K : i \in Int
  <2> HIDE DEF K
  <2>1. \A i \in K : i \in Int
    BY <1>1
  <2> QED BY <2>1, <1>1, RankGrows
<1>3. ASSUME NEW k \in 1 .. m
      PROVE  h[k] \in K /\ Cardinality({j \in K : j <= h[k]}) = k
  <2>1. \E i \in K : Cardinality({j \in K : j <= i}) = k
    BY <1>1, RankReaches
  <2>2. h[k] = CHOOSE i \in K : Cardinality({j \in K : j <= i}) = k
    BY DEF KeptPlace
  <2> HIDE DEF h, K
  <2> QED BY <2>1, <2>2
<1>4. t = [k \in 1 .. m |-> s[h[k]]]
  BY DEF Without
<1> DEFINE rank(i) == Cardinality({j \in K : j <= i})
<1>a. /\ \A k \in 1 .. m : h[k] \in K /\ rank(h[k]) = k
      /\ \A i \in K : rank(i) \in 1 .. m /\ i \in Int
      /\ \A i, k \in K : i < k => rank(i) < rank(k)
  BY <1>2, <1>3
<1> HIDE DEF h, t, m, rank
<1>5. \A k \in 1 .. m : h[k] \in 1 .. Len(s) /\ s[h[k]] \notin R
  BY <1>3 DEF Kept
<1>6. h \in [1 .. m -> 1 .. Len(s)]
  <2>1. DOMAIN h = 1 .. m /\ h = [k \in 1 .. m |-> h[k]]
    BY DEF h
  <2> QED BY <2>1, <1>5
<1>7. t \in Seq(S) /\ Len(t) = m /\ \A k \in 1 .. m : t[k] = s[h[k]]
  BY <1>1, <1>2, <1>4, <1>5
<1>8. ASSUME NEW j \in 1 .. m, NEW k \in 1 .. m, j < k PROVE h[j] < h[k]
  <2> HIDE DEF K
  <2>1. /\ h[j] \in K /\ h[k] \in K /\ h[j] \in Int /\ h[k] \in Int
        /\ rank(h[j]) = j /\ rank(h[k]) = k
    BY <1>a
  <2>2. h[j] # h[k] /\ ~(h[k] < h[j])
    BY <2>1, <1>a, <1>8
  <2> QED BY <2>1, <2>2
<1>9. ASSUME NEW i \in 1 .. Len(s), s[i] \notin R PROVE \E k \in 1 .. m : h[k] = i
  <2>1. i \in K
    BY <1>9 DEF Kept
  <2> HIDE DEF K
  <2>2. rank(i) \in 1 .. m
    BY <2>1, <1>a
  <2>3. h[rank(i)] \in K /\ h[rank(i)] \in Int /\ rank(h[rank(i)]) = rank(i)
    BY <2>2, <1>a
  <2>4. ~(h[rank(i)] < i) /\ ~(i < h[rank(i)])
    BY <2>1, <2>2, <2>3, <1>a
  <2>5. h[rank(i)] = i
    BY <2>3, <2>4
  <2> QED BY <2>2, <2>5
<1>10. Places(t, s, R, Len(s), h)
  BY <1>5, <1>6, <1>7, <1>8, <1>9 DEF Places
<1> QED BY <1>7, <1>10 DEF t

-----------------------------------------------------------------------------
(* The inductive invariant.                                                 *)

Frame == [kind : {"flush"}, object : Objects, p : 0 .. MaxAlarms, entry : Alarm \cup {NoAlarm}]
           \cup [kind : {"advance"}, entry : Alarm \cup {NoAlarm}]

Types == /\ time \in Nat /\ target \in Nat
         /\ entries \in Seq(Alarm)
         /\ frames \in Seq(Frame) /\ Len(frames) <= MaxDepth + 1
         /\ added \in 0 .. MaxAlarms
         /\ fired \subseteq 1 .. added
         /\ held \subseteq Objects /\ destroyed \subseteq Objects
         /\ refcnt \in [Objects -> Nat]
         /\ dangling \in BOOLEAN /\ foreign \in BOOLEAN

\* The list is ordered, by time and then by name, and every name is there once.
Before(a, b) == a.time < b.time \/ (a.time = b.time /\ a.n < b.n)
Sorted(l) == \A i, j \in 1 .. Len(l) : i < j => Before(l[i], l[j])
Distinct(l) == \A i, j \in 1 .. Len(l) : i # j => l[i].n # l[j].n

InList == ToSet(entries)

\* The alarms whose methods run, of a stack of calls; each is in
\* the hands of one call.
Hands(fs) == {fs[i].entry : i \in 1 .. Len(fs)} \ {NoAlarm}
Apart(fs) == \A i, j \in 1 .. Len(fs) :
               i # j /\ fs[i].entry # NoAlarm => fs[i].entry # fs[j].entry

\* No alarm of the list is late or was fired; every alarm that runs was.
Waiting == /\ Sorted(entries) /\ Distinct(entries)
           /\ \A e \in InList : e.time >= time /\ e.n <= added /\ e.n \notin fired
           /\ \A e \in Running : e.n \in fired
           /\ Apart(frames)

\* The references to an object.
Owned(A, o) == {e \in A : e.object = o}
Refs(o) == (IF o \in held THEN 1 ELSE 0) + Cardinality(Owned(InList, o))
             + Cardinality(Owned(Running, o))
Counts == /\ \A o \in Objects : refcnt[o] = Refs(o)
          /\ \A o \in destroyed : refcnt[o] = 0

\* The tick is the outermost call.
Outermost == \A i \in 1 .. Len(frames) : frames[i].kind = "advance" => i = 1 /\ time <= target

\* As long as nobody has interfered, all flushes are of one object and keep
\* their pointers in alarms of other objects.
Pointers == ~foreign => \A i \in 1 .. Len(frames) : frames[i].kind = "flush" =>
              /\ \A j \in 1 .. Len(frames) :
                   frames[j].kind = "flush" => frames[j].object = frames[i].object
              /\ frames[i].p # Head0 =>
                   \E e \in InList : e.n = frames[i].p /\ e.object # frames[i].object

IInv == Types /\ Waiting /\ Counts /\ Outermost /\ Pointers /\ NoDangling

-----------------------------------------------------------------------------
(* Lists of alarms.                                                         *)

\* The fields of an alarm; it is not the null pointer (fts_timebase_entry_t).
LEMMA AlarmFields == ASSUME NEW a \in Alarm
   PROVE /\ a.n \in Nat /\ a.n \in 1 .. MaxAlarms /\ a.n > 0
         /\ a.time \in Nat /\ a.object \in Objects
         /\ a # NoAlarm
BY TimebaseAssumption DEF Alarm, NoAlarm

\* The entries of a list.
LEMMA InSeq == ASSUME NEW l \in Seq(Alarm)
   PROVE /\ Len(l) \in Nat /\ DOMAIN l = 1 .. Len(l)
         /\ ToSet(l) = {l[i] : i \in 1 .. Len(l)}
         /\ \A i \in 1 .. Len(l) : l[i] \in Alarm /\ l[i] \in ToSet(l)
         /\ \A e \in ToSet(l) : e \in Alarm /\ \E i \in 1 .. Len(l) : l[i] = e
BY DEF ToSet

\* A list of which entries were unlinked stays ordered (timebase->entries).
LEMMA Thinned == ASSUME NEW l \in Seq(Alarm), Sorted(l), Distinct(l), NEW t \in Seq(Alarm), NEW h,
                        \A k \in 1 .. Len(t) : h[k] \in 1 .. Len(l) /\ t[k] = l[h[k]],
                        \A j, k \in 1 .. Len(t) : j < k => h[j] < h[k]
                 PROVE  Sorted(t) /\ Distinct(t)
<1>1. Sorted(t)
  BY DEF Sorted
<1>2. \A j, k \in 1 .. Len(t) : j # k => h[j] # h[k]
  <2> SUFFICES ASSUME NEW j \in 1 .. Len(t), NEW k \in 1 .. Len(t), j # k PROVE h[j] # h[k]
    OBVIOUS
  <2>1. j < k \/ k < j
    BY InSeq
  <2>2. h[j] < h[k] \/ h[k] < h[j]
    BY <2>1
  <2>3. h[j] \in Nat /\ h[k] \in Nat
    BY InSeq
  <2> QED BY <2>2, <2>3
<1>3. Distinct(t)
  BY <1>2 DEF Distinct
<1> QED BY <1>1, <1>3

\* fts_timebase_remove_object: the alarms of an object leave the list.
LEMMA WithoutList == ASSUME NEW l \in Seq(Alarm), Sorted(l), Distinct(l), NEW R
   PROVE LET t == Without(l, R)
         IN  t \in Seq(Alarm) /\ Sorted(t) /\ Distinct(t) /\ ToSet(t) = ToSet(l) \ R
<1> DEFINE t == Without(l, R)
<1>1. t \in Seq(Alarm) /\ \E h : Places(t, l, R, Len(l), h)
  BY WithoutPlaces
<1>2. PICK h : Places(t, l, R, Len(l), h)
  BY <1>1
<1> HIDE DEF t
<1>3. \A k \in 1 .. Len(t) : h[k] \in 1 .. Len(l) /\ t[k] = l[h[k]] /\ t[k] \notin R
  BY <1>2 DEF Places
<1>4. \A j, k \in 1 .. Len(t) : j < k => h[j] < h[k]
  BY <1>2 DEF Places
<1>5. Sorted(t) /\ Distinct(t)
  BY <1>1, <1>3, <1>4, Thinned
<1>6. ASSUME NEW i \in 1 .. Len(l), l[i] \notin R PROVE l[i] \in ToSet(t)
  <2>1. PICK k \in 1 .. Len(t) : h[k] = i
    BY <1>6, <1>2 DEF Places
  <2> QED BY <2>1, <1>1, <1>3, InSeq
<1>7. ToSet(t) = ToSet(l) \ R
  <2>1. ToSet(t) \subseteq ToSet(l) \ R
    BY <1>1, <1>3, InSeq
  <2>2. ToSet(l) \ R \subseteq ToSet(t)
    BY <1>6, InSeq
  <2> QED BY <2>1, <2>2
<1> QED BY <1>1, <1>5, <1>7 DEF t

\* One alarm leaves the list (*p = freeme->next).
LEMMA UnlinkList == ASSUME NEW l \in Seq(Alarm), Sorted(l), Distinct(l), NEW p \in 1 .. Len(l),
                           NEW t \in Seq(Alarm), Len(t) = Len(l) - 1,
                           \A k \in 1 .. Len(t) : t[k] = IF k < p THEN l[k] ELSE l[k + 1]
   PROVE Sorted(t) /\ Distinct(t) /\ ToSet(t) = ToSet(l) \ {l[p]}
<1> DEFINE h == [k \in 1 .. Len(t) |-> IF k < p THEN k ELSE k + 1]
<1>0. Len(l) \in Nat /\ Len(t) \in Nat
  OBVIOUS
<1>1. \A k \in 1 .. Len(t) : h[k] \in 1 .. Len(l) /\ t[k] = l[h[k]] /\ h[k] # p
  BY <1>0
<1>2. \A j, k \in 1 .. Len(t) : j < k => h[j] < h[k]
  BY <1>0
<1>3. \A i \in 1 .. Len(l) : i # p => \E k \in 1 .. Len(t) : h[k] = i
  <2> SUFFICES ASSUME NEW i \in 1 .. Len(l), i # p PROVE \E k \in 1 .. Len(t) : h[k] = i
    OBVIOUS
  <2>1. CASE i < p
    <3>1. i \in 1 .. Len(t) /\ h[i] = i
      BY <2>1, <1>0
    <3> QED BY <3>1
  <2>2. CASE i > p
    <3>1. i - 1 \in 1 .. Len(t) /\ h[i - 1] = i
      BY <2>2, <1>0
    <3> QED BY <3>1
  <2> QED BY <2>1, <2>2
<1> HIDE DEF h
<1>4. Sorted(t) /\ Distinct(t)
  BY <1>1, <1>2, Thinned
<1>5. ToSet(t) \subseteq ToSet(l) \ {l[p]}
  <2> SUFFICES ASSUME NEW k \in 1 .. Len(t) PROVE t[k] \in ToSet(l) /\ t[k] # l[p]
    BY InSeq
  <2>1. h[k] \in 1 .. Len(l) /\ h[k] # p /\ t[k] = l[h[k]]
    BY <1>1
  <2>2. l[h[k]].n # l[p].n
    BY <2>1 DEF Distinct
  <2> QED BY <2>1, <2>2, InSeq
<1>6. ToSet(l) \ {l[p]} \subseteq ToSet(t)
  <2> SUFFICES ASSUME NEW i \in 1 .. Len(l), i # p PROVE l[i] \in ToSet(t)
    BY InSeq
  <2>1. PICK k \in 1 .. Len(t) : h[k] = i
    BY <1>3
  <2> QED BY <2>1, <1>1, InSeq
<1> QED BY <1>4, <1>5, <1>6

\* An alarm in the middle leaves the list (fts_timebase_flush_object).
LEMMA RemoveAtList == ASSUME NEW l \in Seq(Alarm), Sorted(l), Distinct(l), NEW p \in 1 .. Len(l)
   PROVE LET t == RemoveAt(l, p)
         IN  t \in Seq(Alarm) /\ Sorted(t) /\ Distinct(t) /\ ToSet(t) = ToSet(l) \ {l[p]}
<1> DEFINE t == RemoveAt(l, p)
<1>1. /\ t \in Seq(Alarm) /\ Len(t) = Len(l) - 1
      /\ \A k \in 1 .. Len(t) : t[k] = IF k < p THEN l[k] ELSE l[k + 1]
  <2> DEFINE a == SubSeq(l, 1, p - 1)
             b == SubSeq(l, p + 1, Len(l))
  <2>0. Len(l) \in Nat /\ \A i \in 1 .. Len(l) : l[i] \in Alarm
    BY InSeq
  <2>1. a \in Seq(Alarm) /\ Len(a) = p - 1 /\ \A k \in 1 .. p - 1 : a[k] = l[k]
    BY <2>0
  <2>2. /\ b \in Seq(Alarm) /\ Len(b) = Len(l) - p
        /\ \A k \in 1 .. Len(l) - p : b[k] = l[p + k]
    BY <2>0
  <2> HIDE DEF a, b
  <2> DEFINE c == a \o b
  <2>3. /\ c \in Seq(Alarm) /\ Len(c) = Len(a) + Len(b)
        /\ \A k \in 1 .. Len(a) + Len(b) : c[k] = IF k <= Len(a) THEN a[k] ELSE b[k - Len(a)]
    BY <2>1, <2>2, ConcatProperties
  <2> HIDE DEF c
  <2>4. Len(c) = Len(l) - 1
    BY <2>0, <2>1, <2>2, <2>3
  <2>5. ASSUME NEW k \in 1 .. Len(c) PROVE c[k] = IF k < p THEN l[k] ELSE l[k + 1]
    <3>1. CASE k < p
      BY <3>1, <2>0, <2>1, <2>2, <2>3, <2>4
    <3>2. CASE ~(k < p)
      <4>1. k - (p - 1) \in 1 .. Len(l) - p /\ ~(k <= Len(a)) /\ p + (k - (p - 1)) = k + 1
        BY <3>2, <2>0, <2>1, <2>4
      <4>2. c[k] = b[k - (p - 1)]
        BY <4>1, <2>0, <2>1, <2>2, <2>3, <2>4
      <4> QED BY <4>1, <4>2, <3>2, <2>2
    <3> QED BY <3>1, <3>2
  <2> QED BY <2>3, <2>4, <2>5 DEF RemoveAt, a, b, c
<1> HIDE DEF t
<1> QED BY <1>1, UnlinkList DEF t

\* The first alarm leaves the list (fts_timebase_advance).
LEMMA TailList == ASSUME NEW l \in Seq(Alarm), Sorted(l), Distinct(l), l # <<>>
   PROVE /\ Head(l) = l[1] /\ 1 \in 1 .. Len(l)
         /\ LET t == Tail(l)
            IN  t \in Seq(Alarm) /\ Sorted(t) /\ Distinct(t) /\ ToSet(t) = ToSet(l) \ {l[1]}
<1> DEFINE t == Tail(l)
<1>1. /\ t \in Seq(Alarm) /\ Len(t) = Len(l) - 1 /\ 1 \in 1 .. Len(l) /\ Head(l) = l[1]
      /\ \A k \in 1 .. Len(t) : t[k] = IF k < 1 THEN l[k] ELSE l[k + 1]
  BY InSeq
<1> HIDE DEF t
<1> QED BY <1>1, UnlinkList DEF t


\* The least place in a list that passes a test (SelectInSeq).
LEMMA FirstPlace == ASSUME NEW N \in Nat, NEW I \in SUBSET (1 .. N), I # {}
                    PROVE  Min(I) \in I /\ \A k \in I : Min(I) <= k
<1>1. I \in SUBSET Nat
  OBVIOUS
<1>2. \E m \in I : \A k \in I : m <= k
  BY <1>1, NatMin
<1> QED BY <1>2, Zenon DEF Min

\* Insertion at a place p shifts the alarms from p on (timebase_insert_entry).
LEMMA InsertedList == ASSUME NEW l \in Seq(Alarm), Sorted(l), Distinct(l), NEW e \in Alarm,
                             \A i \in 1 .. Len(l) : l[i].n < e.n,
                             NEW p \in 1 .. Len(l) + 1,
                             \A i \in 1 .. Len(l) : i < p => l[i].time <= e.time,
                             \A i \in 1 .. Len(l) : i >= p => l[i].time > e.time,
                             NEW t \in Seq(Alarm), Len(t) = Len(l) + 1,
                             \A k \in 1 .. Len(t) : t[k] = IF k < p THEN l[k]
                                                           ELSE IF k = p THEN e ELSE l[k - 1]
   PROVE Sorted(t) /\ Distinct(t) /\ ToSet(t) = ToSet(l) \cup {e}
<1>0. /\ Len(l) \in Nat /\ Len(t) \in Nat
      /\ \A i \in 1 .. Len(l) : l[i] \in Alarm /\ l[i].n \in Nat /\ l[i].time \in Nat
      /\ e.n \in Nat /\ e.time \in Nat
  BY InSeq, AlarmFields
<1> DEFINE old(k) == IF k < p THEN k ELSE k - 1
<1>1. \A k \in 1 .. Len(t) : k # p => old(k) \in 1 .. Len(l) /\ t[k] = l[old(k)]
  BY <1>0
<1>2. t[p] = e /\ p \in 1 .. Len(t)
  BY <1>0
<1>3. \A j, k \in 1 .. Len(t) : j < k /\ j # p /\ k # p => old(j) < old(k)
  BY <1>0
<1>4. \A k \in 1 .. Len(t) : (k < p => old(k) < p) /\ (k > p => old(k) >= p)
  BY <1>0
<1>5. \A i \in 1 .. Len(l) : \E k \in 1 .. Len(t) : k # p /\ old(k) = i
  <2> SUFFICES ASSUME NEW i \in 1 .. Len(l) PROVE \E k \in 1 .. Len(t) : k # p /\ old(k) = i
    OBVIOUS
  <2>1. CASE i < p
    <3>1. i \in 1 .. Len(t) /\ i # p /\ old(i) = i
      BY <2>1, <1>0
    <3> QED BY <3>1
  <2>2. CASE ~(i < p)
    <3>1. i + 1 \in 1 .. Len(t) /\ i + 1 # p /\ old(i + 1) = i
      BY <2>2, <1>0
    <3> QED BY <3>1
  <2> QED BY <2>1, <2>2
<1> HIDE DEF old
<1>6. Sorted(t)
  <2> SUFFICES ASSUME NEW j \in 1 .. Len(t), NEW k \in 1 .. Len(t), j < k
               PROVE  Before(t[j], t[k])
    BY DEF Sorted
  <2>1. CASE j # p /\ k # p
    BY <2>1, <1>1, <1>3 DEF Sorted
  <2>2. CASE j = p
    <3>1. k # p /\ old(k) \in 1 .. Len(l) /\ t[k] = l[old(k)] /\ old(k) >= p
      BY <2>2, <1>0, <1>1, <1>4
    <3> QED BY <3>1, <2>2, <1>2, <1>0 DEF Before
  <2>3. CASE k = p
    <3>1. j # p /\ old(j) \in 1 .. Len(l) /\ t[j] = l[old(j)] /\ old(j) < p
      BY <2>3, <1>0, <1>1, <1>4
    <3> QED BY <3>1, <2>3, <1>2, <1>0 DEF Before
  <2> QED BY <2>1, <2>2, <2>3
<1>7. Distinct(t)
  <2> SUFFICES ASSUME NEW j \in 1 .. Len(t), NEW k \in 1 .. Len(t), j < k
               PROVE  t[j].n # t[k].n
    BY <1>0 DEF Distinct
  <2>1. CASE j # p /\ k # p
    <3>1. old(j) < old(k) /\ old(j) \in 1 .. Len(l) /\ old(k) \in 1 .. Len(l)
      BY <2>1, <1>1, <1>3
    <3>2. old(j) # old(k)
      BY <3>1, <1>0
    <3> QED BY <2>1, <1>1, <3>1, <3>2 DEF Distinct
  <2>2. CASE j = p
    BY <2>2, <1>0, <1>1, <1>2
  <2>3. CASE k = p
    BY <2>3, <1>0, <1>1, <1>2
  <2> QED BY <2>1, <2>2, <2>3
<1>8. ToSet(t) \subseteq ToSet(l) \cup {e}
  <2> SUFFICES ASSUME NEW k \in 1 .. Len(t) PROVE t[k] \in ToSet(l) \cup {e}
    BY InSeq
  <2>1. CASE k = p
    BY <2>1, <1>2
  <2>2. CASE k # p
    BY <2>2, <1>1, InSeq
  <2> QED BY <2>1, <2>2
<1>9. ToSet(l) \subseteq ToSet(t)
  <2> SUFFICES ASSUME NEW i \in 1 .. Len(l) PROVE l[i] \in ToSet(t)
    BY InSeq
  <2>1. PICK k \in 1 .. Len(t) : k # p /\ old(k) = i
    BY <1>5
  <2> QED BY <2>1, <1>1, InSeq
<1>10. e \in ToSet(t)
  BY <1>2, InSeq
<1> QED BY <1>6, <1>7, <1>8, <1>9, <1>10


\* timebase_insert_entry keeps the list ordered: a new alarm goes behind those
\* of its time.
LEMMA InsertList == ASSUME entries \in Seq(Alarm), Sorted(entries), Distinct(entries),
                           NEW e \in Alarm,
                           \A i \in 1 .. Len(entries) : entries[i].n < e.n
   PROVE LET t == timebase_insert_entry(e)
         IN  t \in Seq(Alarm) /\ Sorted(t) /\ Distinct(t)
             /\ ToSet(t) = ToSet(entries) \cup {e}
<1> DEFINE t == timebase_insert_entry(e)
           I == {i \in 1 .. Len(entries) : entries[i].time > e.time}
           later == IF I # {} THEN Min(I) ELSE 0
<1>0. /\ Len(entries) \in Nat /\ e.time \in Nat
      /\ \A i \in 1 .. Len(entries) : entries[i] \in Alarm /\ entries[i].time \in Nat
  BY InSeq, AlarmFields
<1>1. t = IF later = 0 THEN Append(entries, e) ELSE InsertAt(entries, later, e)
  BY DEF timebase_insert_entry, SelectInSeq
<1>2. CASE I = {}
  <2>1. t = Append(entries, e)
    BY <1>1, <1>2
  <2>2. \A i \in 1 .. Len(entries) : entries[i].time <= e.time
    BY <1>2, <1>0
  <2> HIDE DEF t
  <2> DEFINE p == Len(entries) + 1
  <2>3. /\ t \in Seq(Alarm) /\ Len(t) = Len(entries) + 1
        /\ \A k \in 1 .. Len(t) : t[k] = IF k < p THEN entries[k]
                                         ELSE IF k = p THEN e ELSE entries[k - 1]
    BY <2>1, <1>0
  <2>4. p \in 1 .. Len(entries) + 1 /\ \A i \in 1 .. Len(entries) : i < p /\ ~(i >= p)
    BY <1>0
  <2> HIDE DEF p
  <2>5. Sorted(t) /\ Distinct(t) /\ ToSet(t) = ToSet(entries) \cup {e}
    BY <2>2, <2>3, <2>4, InsertedList
  <2> QED BY <2>3, <2>5 DEF t
<1>3. CASE I # {}
  <2> DEFINE p == Min(I)
  <2>1. p \in I /\ \A k \in I : p <= k
    BY <1>0, <1>3, FirstPlace
  <2>2. p # 0 /\ p \in 1 .. Len(entries)
    BY <2>1, <1>0
  <2>3. t = InsertAt(entries, p, e)
    BY <1>1, <1>3, <2>2
  <2> HIDE DEF p, t
  <2>4. \A i \in 1 .. Len(entries) : i < p => entries[i].time <= e.time
    BY <2>1, <2>2, <1>0
  <2>5. \A i \in 1 .. Len(entries) : i >= p => entries[i].time > e.time
    <3> SUFFICES ASSUME NEW i \in 1 .. Len(entries), i > p PROVE entries[i].time > e.time
      BY <2>1, <2>2, <1>0
    <3>1. entries[p].time <= entries[i].time
      BY <2>2, <1>0 DEF Sorted, Before
    <3> QED BY <3>1, <2>1, <2>2, <1>0
  <2> DEFINE a == SubSeq(entries, 1, p - 1)
             b == SubSeq(entries, p, Len(entries))
             m == <<e>>
             c == a \o m
             d == c \o b
  <2>6. a \in Seq(Alarm) /\ Len(a) = p - 1 /\ \A k \in 1 .. p - 1 : a[k] = entries[k]
    BY <1>0, <2>2
  <2>7. /\ b \in Seq(Alarm) /\ Len(b) = Len(entries) - p + 1
        /\ \A k \in 1 .. Len(entries) - p + 1 : b[k] = entries[p + k - 1]
    BY <1>0, <2>2
  <2>8. m \in Seq(Alarm) /\ Len(m) = 1 /\ m[1] = e
    OBVIOUS
  <2>9. t = d
    BY <2>3 DEF InsertAt
  <2> HIDE DEF a, b, m
  <2>10. /\ c \in Seq(Alarm) /\ Len(c) = Len(a) + Len(m)
         /\ \A k \in 1 .. Len(a) + Len(m) : c[k] = IF k <= Len(a) THEN a[k] ELSE m[k - Len(a)]
    BY <2>6, <2>8, ConcatProperties
  <2> HIDE DEF c
  <2>11. /\ d \in Seq(Alarm) /\ Len(d) = Len(c) + Len(b)
         /\ \A k \in 1 .. Len(c) + Len(b) : d[k] = IF k <= Len(c) THEN c[k] ELSE b[k - Len(c)]
    BY <2>7, <2>10, ConcatProperties
  <2> HIDE DEF d
  <2>12. Len(c) = p /\ Len(d) = Len(entries) + 1
    BY <2>2, <2>6, <2>7, <2>8, <2>10, <2>11, <1>0
  <2>13. ASSUME NEW k \in 1 .. Len(d)
         PROVE  d[k] = IF k < p THEN entries[k] ELSE IF k = p THEN e ELSE entries[k - 1]
    <3>1. CASE k < p
      <4>1. k \in 1 .. p - 1 /\ k <= Len(c) /\ k <= Len(a) /\ k \in 1 .. Len(a) + Len(m)
            /\ k \in 1 .. Len(c) + Len(b)
        BY <3>1, <2>2, <2>6, <2>8, <2>11, <2>12, <1>0
      <4> QED BY <4>1, <3>1, <2>6, <2>10, <2>11
    <3>2. CASE k = p
      <4>1. k <= Len(c) /\ ~(k <= Len(a)) /\ k - Len(a) = 1 /\ k \in 1 .. Len(a) + Len(m)
            /\ k \in 1 .. Len(c) + Len(b)
        BY <3>2, <2>2, <2>6, <2>8, <2>11, <2>12, <1>0
      <4>2. d[k] = c[k] /\ c[k] = m[1]
        BY <4>1, <2>10, <2>11
      <4>3. ~(k < p)
        BY <3>2, <2>2
      <4> QED BY <4>2, <4>3, <3>2, <2>8
    <3>3. CASE k > p
      <4>1. ~(k <= Len(c)) /\ k - Len(c) \in 1 .. Len(entries) - p + 1
            /\ p + (k - Len(c)) - 1 = k - 1 /\ k \in 1 .. Len(c) + Len(b)
        BY <3>3, <2>2, <2>11, <2>12, <1>0
      <4>2. d[k] = b[k - Len(c)] /\ b[k - Len(c)] = entries[k - 1]
        BY <4>1, <2>7, <2>11
      <4>3. ~(k < p) /\ k # p
        BY <3>3, <2>2
      <4> QED BY <4>2, <4>3
    <3> QED BY <3>1, <3>2, <3>3, <2>2, <2>12, <1>0
  <2>14. t \in Seq(Alarm) /\ p \in 1 .. Len(entries) + 1
    BY <2>9, <2>11, <2>2, <1>0
  <2>15. /\ Len(t) = Len(entries) + 1
         /\ \A k \in 1 .. Len(t) : t[k] = IF k < p THEN entries[k]
                                          ELSE IF k = p THEN e ELSE entries[k - 1]
    BY <2>9, <2>12, <2>13
  <2>16. Sorted(t) /\ Distinct(t) /\ ToSet(t) = ToSet(entries) \cup {e}
    BY <2>4, <2>5, <2>14, <2>15, InsertedList
  <2> QED BY <2>14, <2>16 DEF t
<1> QED BY <1>2, <1>3


-----------------------------------------------------------------------------
(* Counting the alarms of an object.                                        *)

\* The alarms in the list are as many as their places (Of).
LEMMA OfCount == ASSUME entries \in Seq(Alarm), Distinct(entries), NEW o
                 PROVE  /\ IsFiniteSet(InList)
                        /\ Cardinality(Of(o)) = Cardinality(Owned(InList, o))
<1>0. /\ Len(entries) \in Nat /\ DOMAIN entries = 1 .. Len(entries)
      /\ InList = {entries[i] : i \in 1 .. Len(entries)}
  BY InSeq DEF InList
<1>1. IsFiniteSet(1 .. Len(entries))
  BY <1>0, FS_Interval
<1>2. IsFiniteSet(InList)
  <2> DEFINE f == [i \in 1 .. Len(entries) |-> entries[i]]
  <2>1. f \in Surjection(1 .. Len(entries), InList)
    BY <1>0 DEF Surjection
  <2> QED BY <2>1, <1>1, FS_Surjection
<1>3. IsFiniteSet(Of(o))
  <2>1. Of(o) \in SUBSET (1 .. Len(entries))
    BY <1>0 DEF Of
  <2> QED BY <2>1, <1>1, FS_Subset
<1> DEFINE g == [i \in Of(o) |-> entries[i]]
<1>4. g \in Surjection(Of(o), Owned(InList, o))
  BY <1>0 DEF Surjection, Of, Owned
<1>5. g \in Injection(Of(o), Owned(InList, o))
  <2>1. g \in [Of(o) -> Owned(InList, o)]
    BY <1>0 DEF Of, Owned
  <2>2. \A i, j \in Of(o) : g[i] = g[j] => i = j
    BY <1>0 DEF Of, Distinct
  <2> HIDE DEF g
  <2> QED BY <2>1, <2>2 DEF Injection, IsInjective
<1> HIDE DEF g
<1>6. Cardinality(Owned(InList, o)) = Cardinality(Of(o))
  BY <1>3, <1>4, <1>5, FS_Surjection
<1> QED BY <1>2, <1>6

\* Alarms can be counted.
LEMMA OwnedCount == ASSUME NEW A, IsFiniteSet(A), NEW o
   PROVE Cardinality(Owned(A, o)) \in Nat /\ IsFiniteSet(Owned(A, o))
<1>1. IsFiniteSet(Owned(A, o))
  BY FS_Subset DEF Owned
<1> QED BY <1>1, FS_CardinalityType

\* One alarm more (fts_timebase_entry_new).
LEMMA OwnedAdd == ASSUME NEW A, IsFiniteSet(A), NEW a, a \notin A, NEW o
   PROVE /\ IsFiniteSet(A \cup {a})
         /\ Cardinality(Owned(A \cup {a}, o)) =
              Cardinality(Owned(A, o)) + (IF a.object = o THEN 1 ELSE 0)
<1>1. IsFiniteSet(A \cup {a})
  BY FS_AddElement
<1>2. Cardinality(Owned(A, o)) \in Nat /\ IsFiniteSet(Owned(A, o)) /\ a \notin Owned(A, o)
  BY OwnedCount DEF Owned
<1>3. CASE a.object = o
  <2>1. Owned(A \cup {a}, o) = Owned(A, o) \cup {a}
    BY <1>3 DEF Owned
  <2>2. Cardinality(Owned(A, o) \cup {a}) = Cardinality(Owned(A, o)) + 1
    BY <1>2, FS_AddElement
  <2> QED BY <2>1, <2>2, <1>1, <1>3
<1>4. CASE a.object # o
  <2>1. Owned(A \cup {a}, o) = Owned(A, o)
    BY <1>4 DEF Owned
  <2> QED BY <2>1, <1>1, <1>2, <1>4
<1> QED BY <1>3, <1>4

\* One alarm less (fts_timebase_entry_free).
LEMMA OwnedDrop == ASSUME NEW A, IsFiniteSet(A), NEW a \in A, NEW o, NEW B, B = A \ {a}
   PROVE /\ IsFiniteSet(B)
         /\ Cardinality(Owned(A, o)) =
              Cardinality(Owned(B, o)) + (IF a.object = o THEN 1 ELSE 0)
<1>1. IsFiniteSet(B) /\ a \notin B /\ A = B \cup {a}
  BY FS_RemoveElement
<1>2. Cardinality(Owned(B \cup {a}, o)) =
        Cardinality(Owned(B, o)) + (IF a.object = o THEN 1 ELSE 0)
  BY <1>1, OwnedAdd
<1> QED BY <1>1, <1>2

\* The alarms of an object go (fts_timebase_remove_object).
LEMMA OwnedOut == ASSUME NEW A, IsFiniteSet(A), NEW o, NEW q,
                         NEW B, B = A \ Owned(A, o)
   PROVE /\ IsFiniteSet(B)
         /\ Cardinality(Owned(B, q)) = IF q = o THEN 0 ELSE Cardinality(Owned(A, q))
<1>1. IsFiniteSet(B)
  BY FS_Subset
<1>2. CASE q = o
  <2>1. Owned(B, q) = {}
    BY <1>2 DEF Owned
  <2> QED BY <2>1, <1>1, <1>2, FS_EmptySet
<1>3. CASE q # o
  <2>1. Owned(B, q) = Owned(A, q)
    BY <1>3 DEF Owned
  <2> QED BY <2>1, <1>1, <1>3
<1> QED BY <1>2, <1>3

-----------------------------------------------------------------------------
(* The calls in progress.                                                   *)

\* The fields of a frame (the locals of advance and flush).
LEMMA FrameFields == ASSUME NEW f \in Frame
   PROVE /\ f.kind \in {"flush", "advance"}
         /\ f.entry \in Alarm \cup {NoAlarm}
         /\ f.kind = "flush" => f.object \in Objects /\ f.p \in 0 .. MaxAlarms
BY DEF Frame

\* Its entry is set; the other locals stay (freeme of advance and flush).
LEMMA SetEntry == ASSUME NEW f \in Frame, NEW a \in Alarm \cup {NoAlarm}
   PROVE LET g == [f EXCEPT !.entry = a]
         IN  /\ g \in Frame /\ g.kind = f.kind /\ g.entry = a
             /\ f.kind = "flush" => g.object = f.object /\ g.p = f.p
<1>1. CASE f \in [kind : {"flush"}, object : Objects, p : 0 .. MaxAlarms,
                  entry : Alarm \cup {NoAlarm}]
  BY <1>1 DEF Frame
<1>2. CASE f \in [kind : {"advance"}, entry : Alarm \cup {NoAlarm}]
  BY <1>2 DEF Frame
<1> QED BY <1>1, <1>2 DEF Frame

\* Its pointer moves behind an alarm (p = &(*p)->next of the flush).
LEMMA SetPointer == ASSUME NEW f \in Frame, f.kind = "flush", NEW x \in 0 .. MaxAlarms
   PROVE LET g == [f EXCEPT !.p = x]
         IN  /\ g \in Frame /\ g.kind = f.kind /\ g.entry = f.entry
             /\ g.object = f.object /\ g.p = x
<1>1. CASE f \in [kind : {"flush"}, object : Objects, p : 0 .. MaxAlarms,
                  entry : Alarm \cup {NoAlarm}]
  BY <1>1 DEF Frame
<1>2. CASE f \in [kind : {"advance"}, entry : Alarm \cup {NoAlarm}]
  BY <1>2
<1> QED BY <1>1, <1>2 DEF Frame


\* t differs from fs in the entry of the innermost call only.
SameBut(t, fs, a) ==
  /\ t \in Seq(Frame) /\ Len(t) = Len(fs)
  /\ t[Len(fs)].entry = a
  /\ \A i \in 1 .. Len(fs) : i # Len(fs) => t[i] = fs[i]
  /\ \A i \in 1 .. Len(fs) : /\ t[i].kind = fs[i].kind
                             /\ fs[i].kind = "flush" =>
                                  t[i].object = fs[i].object /\ t[i].p = fs[i].p

\* The stack as a function on its places.
LEMMA OnStack == ASSUME NEW fs \in Seq(Frame)
   PROVE /\ Len(fs) \in Nat /\ DOMAIN fs = 1 .. Len(fs)
         /\ \A i \in 1 .. Len(fs) : fs[i] \in Frame
         /\ fs # <<>> => Len(fs) \in 1 .. Len(fs)
OBVIOUS

\* Setting the entry of the innermost call.
LEMMA TopSet == ASSUME NEW fs \in Seq(Frame), fs # <<>>, NEW a \in Alarm \cup {NoAlarm}
                PROVE  SameBut([fs EXCEPT ![Len(fs)].entry = a], fs, a)
<1> DEFINE n == Len(fs)
           g == [fs[n] EXCEPT !.entry = a]
           t == [fs EXCEPT ![n] = g]
<1>1. n \in 1 .. Len(fs) /\ fs[n] \in Frame
  BY OnStack
<1>2. /\ g \in Frame /\ g.kind = fs[n].kind /\ g.entry = a
      /\ fs[n].kind = "flush" => g.object = fs[n].object /\ g.p = fs[n].p
  BY <1>1, SetEntry
<1>3. [fs EXCEPT ![Len(fs)].entry = a] = t
  BY <1>1
<1> HIDE DEF g
<1>4. t \in Seq(Frame) /\ Len(t) = Len(fs) /\ t[n] = g
      /\ \A i \in 1 .. Len(fs) : i # n => t[i] = fs[i]
  BY <1>1, <1>2
<1> HIDE DEF t
<1> QED BY <1>2, <1>3, <1>4 DEF SameBut

\* The innermost call takes an alarm in hand.
LEMMA TopFires == ASSUME NEW fs \in Seq(Frame), fs # <<>>, Apart(fs),
                         fs[Len(fs)].entry = NoAlarm, NEW a \in Alarm, a \notin Hands(fs),
                         NEW t, SameBut(t, fs, a)
                  PROVE  Hands(t) = Hands(fs) \cup {a} /\ Apart(t)
<1> DEFINE n == Len(fs)
<1>1. /\ n \in 1 .. n /\ Len(t) = n /\ t[n].entry = a /\ a # NoAlarm
      /\ \A i \in 1 .. n : i # n => t[i] = fs[i]
  BY OnStack, AlarmFields DEF SameBut
<1>2. \A i \in 1 .. n : fs[i].entry # a
  BY <1>1 DEF Hands
<1>3. Hands(t) = Hands(fs) \cup {a}
  <2>1. Hands(t) \subseteq Hands(fs) \cup {a}
    BY <1>1 DEF Hands
  <2>2. Hands(fs) \subseteq Hands(t)
    <3> SUFFICES ASSUME NEW i \in 1 .. n, fs[i].entry # NoAlarm PROVE fs[i].entry \in Hands(t)
      BY DEF Hands
    <3>1. i # n /\ t[i] = fs[i]
      BY <1>1
    <3> QED BY <3>1, <1>1 DEF Hands
  <2>3. a \in Hands(t)
    BY <1>1 DEF Hands
  <2> QED BY <2>1, <2>2, <2>3
<1>4. Apart(t)
  <2> SUFFICES ASSUME NEW i \in 1 .. n, NEW j \in 1 .. n, i # j, t[i].entry # NoAlarm
               PROVE  t[i].entry # t[j].entry
    BY <1>1 DEF Apart
  <2>1. CASE i = n
    BY <2>1, <1>1, <1>2
  <2>2. CASE j = n
    BY <2>2, <1>1, <1>2
  <2>3. CASE i # n /\ j # n
    BY <2>3, <1>1 DEF Apart
  <2> QED BY <2>1, <2>2, <2>3
<1> QED BY <1>3, <1>4

\* The method of the innermost call returns.
LEMMA TopReturns == ASSUME NEW fs \in Seq(Frame), fs # <<>>, Apart(fs),
                           fs[Len(fs)].entry # NoAlarm,
                           NEW t, SameBut(t, fs, NoAlarm)
                    PROVE  Hands(t) = Hands(fs) \ {fs[Len(fs)].entry} /\ Apart(t)
<1> DEFINE n == Len(fs)
           b == fs[n].entry
<1>1. /\ n \in 1 .. n /\ Len(t) = n /\ t[n].entry = NoAlarm
      /\ \A i \in 1 .. n : i # n => t[i] = fs[i]
  BY OnStack DEF SameBut
<1>2. \A i \in 1 .. n : i # n => fs[i].entry # b
  BY <1>1 DEF Apart
<1>3. Hands(t) = Hands(fs) \ {b}
  <2>1. Hands(t) \subseteq Hands(fs) \ {b}
    <3> SUFFICES ASSUME NEW i \in 1 .. n, t[i].entry # NoAlarm
                 PROVE  t[i].entry \in Hands(fs) \ {b}
      BY <1>1 DEF Hands
    <3>1. i # n
      BY <1>1
    <3> QED BY <3>1, <1>1, <1>2 DEF Hands
  <2>2. Hands(fs) \ {b} \subseteq Hands(t)
    <3> SUFFICES ASSUME NEW i \in 1 .. n, fs[i].entry # NoAlarm, fs[i].entry # b
                 PROVE  fs[i].entry \in Hands(t)
      BY DEF Hands
    <3>1. i # n /\ t[i] = fs[i]
      BY <1>1
    <3> QED BY <3>1, <1>1 DEF Hands
  <2> QED BY <2>1, <2>2
<1>4. Apart(t)
  BY <1>1 DEF Apart
<1> QED BY <1>3, <1>4

\* The alarms that run are finitely many.
LEMMA HandsFinite == ASSUME NEW fs \in Seq(Frame) PROVE IsFiniteSet(Hands(fs))
<1> DEFINE f == [i \in 1 .. Len(fs) |-> fs[i].entry]
           T == {fs[i].entry : i \in 1 .. Len(fs)}
<1>1. IsFiniteSet(1 .. Len(fs))
  BY OnStack, FS_Interval
<1>2. f \in Surjection(1 .. Len(fs), T)
  BY DEF Surjection
<1>3. IsFiniteSet(T)
  BY <1>1, <1>2, FS_Surjection
<1> QED BY <1>3, FS_Subset DEF Hands


-----------------------------------------------------------------------------
(* Init and the steps.                                                      *)

\* The alarms that run, before and after a step.
LEMMA RunningIs == ASSUME frames \in Seq(Frame) PROVE Running = Hands(frames)
BY OnStack DEF Running, Hands

\* The alarms of the list and of the calls (entries, frames) are apart.
LEMMA Facts == ASSUME IInv
   PROVE /\ entries \in Seq(Alarm) /\ Sorted(entries) /\ Distinct(entries)
         /\ frames \in Seq(Frame) /\ Running = Hands(frames)
         /\ InList \subseteq Alarm /\ Running \subseteq Alarm
         /\ IsFiniteSet(InList) /\ IsFiniteSet(Running)
         /\ InList \cap Running = {}
         /\ time \in Nat /\ target \in Nat /\ added \in Nat
<1>1. /\ entries \in Seq(Alarm) /\ Sorted(entries) /\ Distinct(entries)
      /\ frames \in Seq(Frame)
      /\ time \in Nat /\ target \in Nat /\ added \in Nat
  BY TimebaseAssumption DEF IInv, Types, Waiting
<1>2. Running = Hands(frames)
  BY <1>1, RunningIs
<1>3. InList \subseteq Alarm
  BY <1>1, InSeq DEF InList
<1>4. Running \subseteq Alarm
  BY <1>1, <1>2, OnStack, FrameFields DEF Hands
<1>5. IsFiniteSet(InList) /\ IsFiniteSet(Running)
  BY <1>1, <1>2, OfCount, HandsFinite
<1>6. InList \cap Running = {}
  BY DEF IInv, Waiting
<1> QED BY <1>1, <1>2, <1>3, <1>4, <1>5, <1>6

\* The initial state satisfies the invariant (an empty time base).
LEMMA InitIInv == Init => IInv
<1> SUFFICES ASSUME Init PROVE IInv
  OBVIOUS
<1>1. entries = <<>> /\ frames = <<>> /\ entries \in Seq(Alarm) /\ frames \in Seq(Frame)
  BY DEF Init
<1>2. Types
  <2>1. dangling \in BOOLEAN /\ foreign \in BOOLEAN
    BY Zenon DEF Init
  <2> QED BY <2>1, <1>1, TimebaseAssumption DEF Types, Init
<1>3. InList = {} /\ Running = {}
  BY <1>1 DEF InList, ToSet, Running
<1>4. Waiting
  BY <1>1, <1>3 DEF Waiting, Sorted, Distinct, Apart
<1>5. Counts
  <2>1. ASSUME NEW o \in Objects PROVE refcnt[o] = Refs(o)
    <3>1. Owned(InList, o) = {} /\ Owned(Running, o) = {}
      BY <1>3 DEF Owned
    <3>2. Cardinality({}) = 0
      BY FS_EmptySet
    <3> QED BY <3>1, <3>2 DEF Refs, Init
  <2> QED BY <2>1 DEF Counts, Init
<1>6. Outermost /\ Pointers /\ NoDangling
  BY <1>1 DEF Outermost, Pointers, NoDangling, Init
<1> QED BY <1>2, <1>4, <1>5, <1>6 DEF IInv

\* fts_object_release: an object whose count drops to zero is destroyed.
LEMMA ReleaseFacts == ASSUME Types, Counts, NEW o \in Objects, NEW k \in Nat,
                             k <= refcnt[o], Release(o, k)
   PROVE /\ refcnt' \in [Objects -> Nat]
         /\ refcnt'[o] = refcnt[o] - k
         /\ \A q \in Objects : q # o => refcnt'[q] = refcnt[q]
         /\ destroyed' \subseteq Objects
         /\ \A q \in destroyed' : refcnt'[q] = 0
<1>1. refcnt \in [Objects -> Nat] /\ refcnt[o] - k \in Nat
  BY DEF Types
<1>2. refcnt' = [refcnt EXCEPT ![o] = refcnt[o] - k]
  BY DEF Release
<1>3. /\ refcnt' \in [Objects -> Nat] /\ refcnt'[o] = refcnt[o] - k
      /\ \A q \in Objects : q # o => refcnt'[q] = refcnt[q]
  BY <1>1, <1>2
<1>4. destroyed' = destroyed \/ (refcnt[o] = k /\ destroyed' = destroyed \cup {o})
  BY DEF Release
<1>5. destroyed' \subseteq Objects
  BY <1>4 DEF Types
<1>6. ASSUME NEW q \in destroyed' PROVE refcnt'[q] = 0
  <2>1. CASE q \in destroyed
    <3>1. refcnt[q] = 0 /\ q \in Objects
      BY <2>1 DEF Types, Counts
    <3>2. q = o => k = 0
      BY <3>1
    <3> QED BY <3>1, <3>2, <1>3
  <2>2. CASE q \notin destroyed
    <3>1. q = o /\ refcnt[o] = k
      BY <2>2, <1>4
    <3> QED BY <3>1, <1>1, <1>3
  <2> QED BY <2>1, <2>2
<1> QED BY <1>3, <1>5, <1>6

\* An alarm leaves the list and its method is called (advance and flush).
LEMMA FireStep == ASSUME IInv, frames # <<>>, Top.entry = NoAlarm, NEW a \in InList,
     frames' = [frames EXCEPT ![Len(frames)].entry = a],
     entries' \in Seq(Alarm), Sorted(entries'), Distinct(entries'),
     ToSet(entries') = ToSet(entries) \ {a},
     fired' = fired \cup {a.n},
     UNCHANGED <<target, added, held, refcnt, destroyed, dangling, foreign>>,
     time' \in Nat, \A e \in ToSet(entries') : e.time >= time',
     \A i \in 1 .. Len(frames) : frames[i].kind = "advance" => time' <= target,
     ~foreign => \A i \in 1 .. Len(frames) :
                   frames[i].kind = "flush" => frames[i].object = a.object
   PROVE IInv'
<1>1. /\ entries \in Seq(Alarm) /\ Distinct(entries)
      /\ frames \in Seq(Frame) /\ Running = Hands(frames)
      /\ InList \subseteq Alarm /\ Running \subseteq Alarm
      /\ IsFiniteSet(InList) /\ IsFiniteSet(Running)
      /\ InList \cap Running = {}
  BY Facts
<1>2. a \in Alarm /\ a \notin Running /\ a # NoAlarm
  BY <1>1, AlarmFields
<1>3. SameBut(frames', frames, a)
  BY <1>1, <1>2, TopSet
<1>4. frames' \in Seq(Frame) /\ Len(frames') = Len(frames)
  BY <1>3 DEF SameBut
<1>5. Hands(frames') = Hands(frames) \cup {a} /\ Apart(frames')
  BY <1>1, <1>2, <1>3, TopFires DEF Top, Last, IInv, Waiting
<1>6. Running' = Running \cup {a}
  <2>1. Running' = Hands(frames')
    BY <1>4, OnStack DEF Running, Hands
  <2> QED BY <2>1, <1>5, <1>1
<1>7. InList' = InList \ {a}
  BY DEF InList
<1>8. a.n \in 1 .. added /\ a.n \notin fired
  BY <1>2, AlarmFields, Facts DEF IInv, Waiting
<1>9. Types'
  <2>1. fired' \subseteq 1 .. added'
    BY <1>8 DEF IInv, Types
  <2> QED BY <2>1, <1>4 DEF IInv, Types
<1>10. \A e \in InList : e.n = a.n => e = a
  BY <1>1, InSeq DEF InList, Distinct
<1>11. Waiting'
  <2>1. \A e \in InList' : e.time >= time' /\ e.n <= added' /\ e.n \notin fired'
    BY <1>7, <1>10 DEF IInv, Waiting, InList
  <2>2. \A e \in Running' : e.n \in fired'
    BY <1>6 DEF IInv, Waiting
  <2> QED BY <2>1, <2>2, <1>5 DEF Waiting
<1>12. Counts'
  <2>1. ASSUME NEW o \in Objects PROVE refcnt'[o] = Refs(o)'
    <3>1. /\ IsFiniteSet(InList')
          /\ Cardinality(Owned(InList, o)) = Cardinality(Owned(InList', o))
                                              + (IF a.object = o THEN 1 ELSE 0)
      BY <1>1, <1>7, OwnedDrop
    <3>2. Cardinality(Owned(Running \cup {a}, o)) = Cardinality(Owned(Running, o))
                                            + (IF a.object = o THEN 1 ELSE 0)
      BY <1>1, <1>2, OwnedAdd
    <3>3. /\ Cardinality(Owned(InList', o)) \in Nat
          /\ Cardinality(Owned(Running, o)) \in Nat
      BY <3>1, <1>1, OwnedCount
    <3>4. refcnt[o] = (IF o \in held THEN 1 ELSE 0) + Cardinality(Owned(InList, o))
                        + Cardinality(Owned(Running, o))
      BY DEF IInv, Counts, Refs
    <3>5. Refs(o)' = (IF o \in held THEN 1 ELSE 0) + Cardinality(Owned(InList', o))
                        + Cardinality(Owned(Running \cup {a}, o))
      BY <1>6, <1>7 DEF Refs
    <3> QED BY <3>1, <3>2, <3>3, <3>4, <3>5
  <2> QED BY <2>1 DEF IInv, Counts
<1>13. Outermost'
  BY <1>3, <1>4 DEF IInv, Outermost, SameBut
<1>14. Pointers'
  <2> SUFFICES ASSUME ~foreign, NEW i \in 1 .. Len(frames), frames'[i].kind = "flush"
               PROVE  /\ \A j \in 1 .. Len(frames) : frames'[j].kind = "flush" =>
                              frames'[j].object = frames'[i].object
                      /\ frames'[i].p # Head0 => \E e \in InList' :
                              e.n = frames'[i].p /\ e.object # frames'[i].object
    BY <1>4 DEF Pointers
  <2>1. \A j \in 1 .. Len(frames) : frames'[j].kind = "flush" =>
          /\ frames[j].kind = "flush"
          /\ frames'[j].object = frames[j].object /\ frames'[j].p = frames[j].p
    BY <1>3 DEF SameBut
  <2>2. frames[i].object = a.object
    BY <2>1
  <2> QED BY <2>1, <2>2, <1>7 DEF IInv, Pointers
<1>15. NoDangling'
  BY DEF IInv, NoDangling
<1> QED BY <1>9, <1>11, <1>12, <1>13, <1>14, <1>15 DEF IInv


\* fts_timebase_add_call.
LEMMA AddStep == ASSUME IInv, NEW o \in Objects, NEW d \in Delays,
                        fts_timebase_add_call(o, d)
                 PROVE  IInv'
<1> DEFINE a == [n |-> added + 1, time |-> When(d), object |-> o]
<1>1. /\ entries \in Seq(Alarm) /\ Sorted(entries) /\ Distinct(entries)
      /\ IsFiniteSet(InList) /\ IsFiniteSet(Running)
      /\ InList \subseteq Alarm /\ Running \subseteq Alarm
      /\ time \in Nat /\ added \in Nat
  BY Facts
<1>2. When(d) \in Nat /\ When(d) >= time
  BY <1>1, TimebaseAssumption DEF When
<1>3. added < MaxAlarms /\ added' = added + 1 /\ o \notin destroyed
      /\ UNCHANGED <<time, target, frames, fired, held, dangling, foreign, destroyed>>
      /\ refcnt' = [refcnt EXCEPT ![o] = @ + 1]
      /\ entries' = timebase_insert_entry(a)
  BY DEF fts_timebase_add_call, Refer
<1>4. /\ a \in Alarm /\ a.n = added + 1 /\ a.time >= time /\ a.object = o
  BY <1>1, <1>2, <1>3, TimebaseAssumption DEF Alarm
<1> HIDE DEF a
<1>5. \A i \in 1 .. Len(entries) : entries[i].n < a.n
  <2>1. \A i \in 1 .. Len(entries) : entries[i] \in InList /\ entries[i] \in Alarm
    BY <1>1, InSeq DEF InList
  <2> QED BY <2>1, <1>1, <1>4, AlarmFields DEF IInv, Waiting
<1>6. /\ entries' \in Seq(Alarm) /\ Sorted(entries') /\ Distinct(entries')
      /\ ToSet(entries') = ToSet(entries) \cup {a}
  BY <1>1, <1>3, <1>4, <1>5, InsertList
<1>7. InList' = InList \cup {a} /\ Running' = Running
  BY <1>3, <1>6 DEF InList, Running
<1>8. a.n \notin fired /\ a \notin InList
  <2>1. a.n \notin fired
    BY <1>1, <1>4 DEF IInv, Types
  <2>2. \A e \in InList : e.n # a.n
    BY <1>1, <1>4, AlarmFields DEF IInv, Waiting
  <2> QED BY <2>1, <2>2
<1>9. Types'
  <2>1. refcnt' \in [Objects -> Nat]
    BY <1>3 DEF IInv, Types
  <2>2. added' \in 0 .. MaxAlarms /\ fired' \subseteq 1 .. added'
    BY <1>1, <1>3, TimebaseAssumption DEF IInv, Types
  <2> QED BY <2>1, <2>2, <1>3, <1>6 DEF IInv, Types
<1>10. Waiting'
  <2>1. \A e \in InList' : e.time >= time' /\ e.n <= added' /\ e.n \notin fired'
    <3>1. \A e \in InList : e.n \in Nat /\ e.n <= added
      BY <1>1, AlarmFields DEF IInv, Waiting
    <3> QED BY <3>1, <1>1, <1>3, <1>4, <1>7, <1>8 DEF IInv, Waiting
  <2> QED BY <2>1, <1>3, <1>6, <1>7 DEF IInv, Waiting
<1>11. Counts'
  <2>1. ASSUME NEW q \in Objects PROVE refcnt'[q] = Refs(q)'
    <3>1. Cardinality(Owned(InList \cup {a}, q)) = Cardinality(Owned(InList, q))
                                            + (IF a.object = q THEN 1 ELSE 0)
      BY <1>1, <1>8, OwnedAdd, Zenon
    <3>2. /\ Cardinality(Owned(InList, q)) \in Nat
          /\ Cardinality(Owned(Running, q)) \in Nat
      BY <1>1, OwnedCount
    <3>3. refcnt[q] = (IF q \in held THEN 1 ELSE 0) + Cardinality(Owned(InList, q))
                        + Cardinality(Owned(Running, q))
      BY DEF IInv, Counts, Refs
    <3>4. Refs(q)' = (IF q \in held THEN 1 ELSE 0) + Cardinality(Owned(InList \cup {a}, q))
                        + Cardinality(Owned(Running, q))
      BY <1>3, <1>7 DEF Refs
    <3>5. refcnt'[q] = refcnt[q] + (IF a.object = q THEN 1 ELSE 0)
      BY <1>3, <1>4 DEF IInv, Types
    <3> QED BY <3>1, <3>2, <3>3, <3>4, <3>5
  <2>2. ASSUME NEW q \in destroyed' PROVE refcnt'[q] = 0
    <3>1. q # o /\ q \in Objects /\ refcnt[q] = 0
      BY <1>3 DEF IInv, Types, Counts
    <3> QED BY <3>1, <1>3 DEF IInv, Types
  <2> QED BY <2>1, <2>2 DEF Counts
<1>12. Outermost' /\ NoDangling'
  BY <1>3 DEF IInv, Outermost, NoDangling
<1>13. Pointers'
  BY <1>3, <1>7 DEF IInv, Pointers
<1> QED BY <1>9, <1>10, <1>11, <1>12, <1>13 DEF IInv

\* What Foreign records (a flush of another object is in progress).
LEMMA ForeignFacts == ASSUME NEW o, Foreign(o), frames \in Seq(Frame)
   PROVE /\ foreign' \in BOOLEAN
         /\ foreign' <=> \/ foreign
                         \/ \E i \in 1 .. Len(frames) :
                              frames[i].kind = "flush" /\ frames[i].object # o
<1>1. /\ foreign' \in BOOLEAN
      /\ foreign' <=> \/ foreign
                      \/ \E i \in DOMAIN frames :
                              frames[i].kind = "flush" /\ frames[i].object # o
  BY Zenon DEF Foreign
<1>2. DOMAIN frames = 1 .. Len(frames)
  BY OnStack
<1> QED BY <1>1, <1>2, Zenon

\* fts_timebase_remove_object.
LEMMA RemoveStep == ASSUME IInv, NEW o \in Objects, fts_timebase_remove_object(o) PROVE IInv'
<1> DEFINE R == {e \in ToSet(entries) : e.object = o}
           k == Cardinality(Of(o))
<1>1. /\ entries \in Seq(Alarm) /\ Sorted(entries) /\ Distinct(entries)
      /\ frames \in Seq(Frame)
      /\ IsFiniteSet(InList) /\ IsFiniteSet(Running)
      /\ InList \subseteq Alarm /\ Running \subseteq Alarm
  BY Facts
<1>2. /\ UNCHANGED <<time, target, frames, added, fired, held, dangling>>
      /\ entries' = Without(entries, R) /\ Release(o, k) /\ Foreign(o)
  BY DEF fts_timebase_remove_object
<1>3. R = Owned(InList, o)
  BY DEF Owned, InList
<1>4. k = Cardinality(Owned(InList, o))
  BY <1>1, OfCount
<1> HIDE DEF k, R
<1>5. /\ entries' \in Seq(Alarm) /\ Sorted(entries') /\ Distinct(entries')
      /\ ToSet(entries') = ToSet(entries) \ R
  BY <1>1, <1>2, WithoutList
<1>6. InList' = InList \ Owned(InList, o) /\ Running' = Running
  BY <1>2, <1>3, <1>5 DEF InList, Running
<1>7. /\ foreign' \in BOOLEAN
      /\ foreign' <=> \/ foreign
                      \/ \E i \in 1 .. Len(frames) :
                              frames[i].kind = "flush" /\ frames[i].object # o
  BY <1>1, <1>2, ForeignFacts
<1>8. \A q \in Objects :
        /\ refcnt[q] = (IF q \in held THEN 1 ELSE 0) + Cardinality(Owned(InList, q))
                        + Cardinality(Owned(Running, q))
        /\ Cardinality(Owned(InList, q)) \in Nat /\ Cardinality(Owned(Running, q)) \in Nat
  BY <1>1, OwnedCount DEF IInv, Counts, Refs
<1>9. k \in Nat /\ k <= refcnt[o]
  BY <1>4, <1>8
<1>10. /\ refcnt' \in [Objects -> Nat]
       /\ refcnt'[o] = refcnt[o] - k
       /\ \A q \in Objects : q # o => refcnt'[q] = refcnt[q]
       /\ destroyed' \subseteq Objects
       /\ \A q \in destroyed' : refcnt'[q] = 0
  BY <1>2, <1>9, ReleaseFacts DEF IInv
<1>11. Types'
  BY <1>2, <1>5, <1>7, <1>10 DEF IInv, Types
<1>12. Waiting'
  BY <1>2, <1>5, <1>6 DEF IInv, Waiting
<1>13. Counts'
  <2>1. ASSUME NEW q \in Objects PROVE refcnt'[q] = Refs(q)'
    <3>1. Cardinality(Owned(InList \ Owned(InList, o), q))
            = IF q = o THEN 0 ELSE Cardinality(Owned(InList, q))
      <4> DEFINE B == InList \ Owned(InList, o)
      <4>1. IsFiniteSet(InList) /\ B = InList \ Owned(InList, o)
        BY <1>1
      <4> HIDE DEF B
      <4>2. Cardinality(Owned(B, q)) = IF q = o THEN 0 ELSE Cardinality(Owned(InList, q))
        BY ONLY <4>1, OwnedOut, SMT
      <4> QED BY <4>2 DEF B
    <3>2. Refs(q)' = (IF q \in held THEN 1 ELSE 0)
                       + Cardinality(Owned(InList \ Owned(InList, o), q))
                       + Cardinality(Owned(Running, q))
      BY <1>2, <1>6 DEF Refs
    <3> QED BY <3>1, <3>2, <1>4, <1>8, <1>10
  <2> QED BY <2>1, <1>10 DEF Counts
<1>14. Outermost'
  BY <1>2 DEF IInv, Outermost
<1>15. Pointers'
  <2> SUFFICES ASSUME ~foreign', NEW i \in 1 .. Len(frames), frames[i].kind = "flush"
               PROVE  /\ \A j \in 1 .. Len(frames) : frames[j].kind = "flush" =>
                              frames[j].object = frames[i].object
                      /\ frames[i].p # Head0 => \E e \in InList' :
                              e.n = frames[i].p /\ e.object # frames[i].object
    BY <1>2 DEF Pointers
  <2>1. ~foreign /\ frames[i].object = o
    BY <1>7
  <2> QED BY <2>1, <1>6 DEF IInv, Pointers, Owned
<1>16. NoDangling'
  BY <1>2, <1>7 DEF IInv, NoDangling
<1> QED BY <1>11, <1>12, <1>13, <1>14, <1>15, <1>16 DEF IInv

\* The patch deletes an object.
LEMMA DeleteStep == ASSUME IInv, NEW o \in Objects, DeleteObject(o) PROVE IInv'
<1>1. /\ IsFiniteSet(InList) /\ IsFiniteSet(Running)
  BY Facts
<1>2. /\ UNCHANGED <<time, target, entries, frames, added, fired, dangling, foreign>>
      /\ o \in held /\ held' = held \ {o} /\ Release(o, 1)
  BY DEF DeleteObject
<1>3. InList' = InList /\ Running' = Running
  BY <1>2 DEF InList, Running
<1>4. \A q \in Objects :
        /\ refcnt[q] = (IF q \in held THEN 1 ELSE 0) + Cardinality(Owned(InList, q))
                        + Cardinality(Owned(Running, q))
        /\ Cardinality(Owned(InList, q)) \in Nat /\ Cardinality(Owned(Running, q)) \in Nat
  BY <1>1, OwnedCount DEF IInv, Counts, Refs
<1>5. 1 <= refcnt[o]
  BY <1>2, <1>4
<1>6. /\ refcnt' \in [Objects -> Nat]
      /\ refcnt'[o] = refcnt[o] - 1
      /\ \A q \in Objects : q # o => refcnt'[q] = refcnt[q]
      /\ destroyed' \subseteq Objects
      /\ \A q \in destroyed' : refcnt'[q] = 0
  BY <1>2, <1>5, ReleaseFacts DEF IInv
<1>7. Types'
  BY <1>2, <1>6 DEF IInv, Types
<1>8. Waiting' /\ Outermost' /\ Pointers' /\ NoDangling'
  BY <1>2, <1>3 DEF IInv, Waiting, Outermost, Pointers, NoDangling
<1>9. Counts'
  <2>1. ASSUME NEW q \in Objects PROVE refcnt'[q] = Refs(q)'
    <3>1. Refs(q)' = (IF q \in held \ {o} THEN 1 ELSE 0) + Cardinality(Owned(InList, q))
                       + Cardinality(Owned(Running, q))
      BY <1>2, <1>3 DEF Refs
    <3> QED BY <3>1, <1>2, <1>4, <1>6
  <2> QED BY <2>1, <1>6 DEF Counts
<1> QED BY <1>7, <1>8, <1>9 DEF IInv


\* The method of an alarm returns and its entry is freed.
LEMMA MethodEndStep == ASSUME IInv, MethodEnd PROVE IInv'
<1> DEFINE a == Top.entry
           o == a.object
<1>1. /\ frames \in Seq(Frame) /\ Running = Hands(frames)
      /\ IsFiniteSet(InList) /\ IsFiniteSet(Running) /\ Running \subseteq Alarm
  BY Facts
<1>2. /\ UNCHANGED <<time, target, entries, added, fired, held, dangling, foreign>>
      /\ frames # <<>> /\ a # NoAlarm
      /\ frames' = [frames EXCEPT ![Len(frames)].entry = NoAlarm]
      /\ Release(o, 1)
  BY DEF MethodEnd
<1>3. a = frames[Len(frames)].entry /\ Len(frames) \in 1 .. Len(frames)
  BY <1>1, <1>2, OnStack DEF Top, Last
<1> HIDE DEF a
<1>4. a \in Running /\ a \in Alarm /\ o \in Objects
  <2>1. a \in Running
    BY <1>1, <1>2, <1>3 DEF Hands
  <2> QED BY <2>1, <1>1, AlarmFields
<1> HIDE DEF o
<1>5. SameBut(frames', frames, NoAlarm)
  BY <1>1, <1>2, TopSet
<1>6. frames' \in Seq(Frame) /\ Len(frames') = Len(frames)
  BY <1>5 DEF SameBut
<1>7. Hands(frames') = Hands(frames) \ {a} /\ Apart(frames')
  BY <1>1, <1>2, <1>3, <1>5, TopReturns DEF IInv, Waiting
<1>8. Running' = Running \ {a} /\ InList' = InList
  <2>1. Running' = Hands(frames')
    BY <1>6, OnStack DEF Running, Hands
  <2> QED BY <2>1, <1>1, <1>2, <1>7 DEF InList
<1>9. \A q \in Objects :
        /\ refcnt[q] = (IF q \in held THEN 1 ELSE 0) + Cardinality(Owned(InList, q))
                        + Cardinality(Owned(Running, q))
        /\ Cardinality(Owned(InList, q)) \in Nat /\ Cardinality(Owned(Running, q)) \in Nat
  BY <1>1, OwnedCount DEF IInv, Counts, Refs
<1>10. /\ IsFiniteSet(Running')
       /\ \A q \in Objects : Cardinality(Owned(Running, q)) = Cardinality(Owned(Running', q))
                                              + (IF a.object = q THEN 1 ELSE 0)
  <2>1. ASSUME NEW q PROVE /\ IsFiniteSet(Running')
                           /\ Cardinality(Owned(Running, q)) = Cardinality(Owned(Running', q))
                                              + (IF a.object = q THEN 1 ELSE 0)
    BY <1>1, <1>4, <1>8, OwnedDrop
  <2> QED BY <2>1
<1>11. \A q \in Objects : Cardinality(Owned(Running', q)) \in Nat
  BY <1>10, OwnedCount
<1>12. 1 <= refcnt[o] /\ a.object = o
  BY <1>4, <1>9, <1>10, <1>11 DEF o
<1>13. /\ refcnt' \in [Objects -> Nat]
       /\ refcnt'[o] = refcnt[o] - 1
       /\ \A q \in Objects : q # o => refcnt'[q] = refcnt[q]
       /\ destroyed' \subseteq Objects
       /\ \A q \in destroyed' : refcnt'[q] = 0
  BY <1>2, <1>4, <1>12, ReleaseFacts DEF IInv
<1>14. Types'
  BY <1>2, <1>6, <1>13 DEF IInv, Types
<1>15. Waiting'
  BY <1>2, <1>7, <1>8 DEF IInv, Waiting
<1>16. Counts'
  <2>1. ASSUME NEW q \in Objects PROVE refcnt'[q] = Refs(q)'
    <3>1. Refs(q)' = (IF q \in held THEN 1 ELSE 0) + Cardinality(Owned(InList, q))
                       + Cardinality(Owned(Running', q))
      BY <1>2, <1>8 DEF Refs
    <3> QED BY <3>1, <1>9, <1>10, <1>11, <1>12, <1>13
  <2> QED BY <2>1, <1>13 DEF Counts
<1>17. Outermost'
  BY <1>2, <1>5, <1>6 DEF IInv, Outermost, SameBut
<1>18. Pointers'
  <2>1. \A j \in 1 .. Len(frames) : frames'[j].kind = "flush" =>
          /\ frames[j].kind = "flush"
          /\ frames'[j].object = frames[j].object /\ frames'[j].p = frames[j].p
    BY <1>5 DEF SameBut
  <2> QED BY <2>1, <1>2, <1>6, <1>8 DEF IInv, Pointers
<1>19. NoDangling'
  BY <1>2 DEF IInv, NoDangling
<1> QED BY <1>14, <1>15, <1>16, <1>17, <1>18, <1>19 DEF IInv

\* A call of advance or flush begins: it has no alarm in hand yet.
LEMMA CallStep == ASSUME IInv, NEW f \in Frame, f.entry = NoAlarm,
     frames' = Append(frames, f), Len(frames) <= MaxDepth,
     UNCHANGED <<time, entries, added, fired, held, refcnt, destroyed, dangling>>,
     target' \in Nat, foreign' \in BOOLEAN, foreign => foreign',
     f.kind = "advance" => frames = <<>> /\ time <= target',
     f.kind = "flush" => /\ target' = target /\ f.p = Head0
                         /\ ~foreign' => \A i \in 1 .. Len(frames) :
                               frames[i].kind = "flush" => frames[i].object = f.object
   PROVE IInv'
<1>1. /\ frames \in Seq(Frame) /\ Running = Hands(frames)
      /\ Len(frames) \in Nat
  BY Facts, OnStack
<1>2. /\ frames' \in Seq(Frame) /\ Len(frames') = Len(frames) + 1
      /\ frames'[Len(frames) + 1] = f
      /\ \A i \in 1 .. Len(frames) : frames'[i] = frames[i]
  BY <1>1
<1>3. \A i \in 1 .. Len(frames') : i \in 1 .. Len(frames) \/ i = Len(frames) + 1
  BY <1>1, <1>2
<1>4. Len(frames) + 1 \in 1 .. Len(frames') /\ \A i \in 1 .. Len(frames) : i \in 1 .. Len(frames')
  BY <1>1, <1>2
<1>5. Hands(frames') = Hands(frames)
  BY <1>2, <1>3, <1>4 DEF Hands
<1>6. Apart(frames')
  <2> SUFFICES ASSUME NEW i \in 1 .. Len(frames'), NEW j \in 1 .. Len(frames'), i # j,
                      frames'[i].entry # NoAlarm
               PROVE  frames'[i].entry # frames'[j].entry
    BY DEF Apart
  <2>1. i \in 1 .. Len(frames) /\ frames'[i] = frames[i]
    BY <1>2, <1>3
  <2>2. CASE j = Len(frames) + 1
    BY <2>2, <1>2
  <2>3. CASE j \in 1 .. Len(frames)
    BY <2>1, <2>3, <1>2 DEF IInv, Waiting, Apart
  <2> QED BY <2>2, <2>3, <1>3
<1>7. Running' = Running /\ InList' = InList
  <2>1. Running' = Hands(frames')
    BY <1>2, OnStack DEF Running, Hands
  <2> QED BY <2>1, <1>1, <1>5 DEF InList
<1>8. Types'
  BY <1>1, <1>2, TimebaseAssumption DEF IInv, Types
<1>9. Waiting'
  BY <1>6, <1>7 DEF IInv, Waiting
<1>10. Counts'
  <2>1. \A o : Refs(o)' = Refs(o)
    BY <1>7 DEF Refs
  <2> QED BY <2>1 DEF IInv, Counts
<1>11. Outermost'
  <2> SUFFICES ASSUME NEW i \in 1 .. Len(frames'), frames'[i].kind = "advance"
               PROVE  i = 1 /\ time <= target'
    BY DEF Outermost
  <2>1. CASE i = Len(frames) + 1
    <3>1. frames = <<>> /\ time <= target'
      BY <2>1, <1>2
    <3> QED BY <3>1, <2>1
  <2>2. CASE i \in 1 .. Len(frames)
    <3>1. frames # <<>> /\ frames[i].kind = "advance"
      BY <2>2, <1>2
    <3>2. target' = target
      BY <3>1, FrameFields
    <3> QED BY <2>2, <3>1, <3>2 DEF IInv, Outermost
  <2> QED BY <2>1, <2>2, <1>3
<1>12. Pointers'
  <2> SUFFICES ASSUME ~foreign', NEW i \in 1 .. Len(frames'), frames'[i].kind = "flush"
               PROVE  /\ \A j \in 1 .. Len(frames') : frames'[j].kind = "flush" =>
                              frames'[j].object = frames'[i].object
                      /\ frames'[i].p # Head0 => \E e \in InList :
                              e.n = frames'[i].p /\ e.object # frames'[i].object
    BY <1>7 DEF Pointers
  <2>1. ~foreign
    OBVIOUS
  <2>2. ASSUME NEW j \in 1 .. Len(frames'), frames'[j].kind = "flush"
        PROVE  frames'[j].object = frames'[i].object
    <3>1. CASE i \in 1 .. Len(frames) /\ j \in 1 .. Len(frames)
      BY <3>1, <2>1, <2>2, <1>2 DEF IInv, Pointers
    <3>2. CASE i = Len(frames) + 1 \/ j = Len(frames) + 1
      BY <3>2, <2>2, <1>2, <1>3
    <3> QED BY <3>1, <3>2, <1>3
  <2>3. ASSUME frames'[i].p # Head0
        PROVE  \E e \in InList : e.n = frames'[i].p /\ e.object # frames'[i].object
    <3>1. i \in 1 .. Len(frames)
      BY <2>3, <1>2, <1>3
    <3> QED BY <3>1, <2>1, <2>3, <1>2 DEF IInv, Pointers
  <2> QED BY <2>2, <2>3
<1>13. NoDangling'
  BY DEF IInv, NoDangling
<1> QED BY <1>8, <1>9, <1>10, <1>11, <1>12, <1>13 DEF IInv


\* The flush passes an alarm of another object: its pointer moves.
LEMMA PassStep == ASSUME IInv, frames # <<>>, Top.kind = "flush", NEW a \in InList,
     a.object # Top.object,
     frames' = [frames EXCEPT ![Len(frames)].p = a.n],
     UNCHANGED <<time, target, entries, added, fired, held, refcnt, destroyed, dangling,
                 foreign>>
   PROVE IInv'
<1> DEFINE n == Len(frames)
           g == [frames[n] EXCEPT !.p = a.n]
<1>1. /\ frames \in Seq(Frame) /\ Running = Hands(frames) /\ InList \subseteq Alarm
      /\ n \in 1 .. n /\ frames[n] \in Frame /\ Top = frames[n]
  BY Facts, OnStack DEF Top, Last
<1>2. a.n \in 0 .. MaxAlarms
  BY <1>1, AlarmFields, TimebaseAssumption
<1>3. /\ g \in Frame /\ g.kind = frames[n].kind /\ g.entry = frames[n].entry
      /\ g.object = frames[n].object /\ g.p = a.n
  BY <1>1, <1>2, SetPointer
<1>4. frames' = [frames EXCEPT ![n] = g]
  BY <1>1
<1> HIDE DEF g
<1>5. /\ frames' \in Seq(Frame) /\ Len(frames') = n /\ frames'[n] = g
      /\ \A i \in 1 .. n : i # n => frames'[i] = frames[i]
  BY <1>1, <1>3, <1>4
<1>6. \A i \in 1 .. n : /\ frames'[i].entry = frames[i].entry
                        /\ frames'[i].kind = frames[i].kind
                        /\ frames[i].kind = "flush" => frames'[i].object = frames[i].object
  BY <1>3, <1>5
<1>7. Running' = Running /\ InList' = InList
  <2>1. Running' = Hands(frames')
    BY <1>5, OnStack DEF Running, Hands
  <2>2. Hands(frames') = Hands(frames)
    BY <1>5, <1>6 DEF Hands
  <2> QED BY <2>1, <2>2, <1>1 DEF InList
<1>8. Types'
  BY <1>5 DEF IInv, Types
<1>9. Waiting'
  <2>1. Apart(frames')
    BY <1>5, <1>6 DEF IInv, Waiting, Apart
  <2> QED BY <2>1, <1>7 DEF IInv, Waiting
<1>10. Counts'
  <2>1. \A o : Refs(o)' = Refs(o)
    BY <1>7 DEF Refs
  <2> QED BY <2>1 DEF IInv, Counts
<1>11. Outermost' /\ NoDangling'
  BY <1>5, <1>6 DEF IInv, Outermost, NoDangling
<1>12. Pointers'
  <2> SUFFICES ASSUME ~foreign, NEW i \in 1 .. n, frames'[i].kind = "flush"
               PROVE  /\ \A j \in 1 .. n : frames'[j].kind = "flush" =>
                              frames'[j].object = frames'[i].object
                      /\ frames'[i].p # Head0 => \E e \in InList :
                              e.n = frames'[i].p /\ e.object # frames'[i].object
    BY <1>5, <1>7 DEF Pointers
  <2>1. \A j \in 1 .. n : frames'[j].kind = "flush" => frames'[j].object = frames'[i].object
    BY <1>6 DEF IInv, Pointers
  <2>2. CASE i = n
    BY <2>1, <2>2, <1>1, <1>3, <1>5
  <2>3. CASE i # n
    BY <2>1, <2>3, <1>5 DEF IInv, Pointers
  <2> QED BY <2>2, <2>3
<1> QED BY <1>8, <1>9, <1>10, <1>11, <1>12 DEF IInv

\* A call returns: the alarm it had in hand is freed already.
LEMMA ReturnStep == ASSUME IInv, frames # <<>>, Top.entry = NoAlarm,
     frames' = Front(frames),
     UNCHANGED <<target, entries, added, fired, held, refcnt, destroyed, dangling, foreign>>,
     time' \in Nat, \A e \in InList : e.time >= time',
     \A i \in 1 .. Len(frames) - 1 : frames[i].kind = "advance" => time' = time
   PROVE IInv'
<1> DEFINE n == Len(frames)
<1>1. /\ frames \in Seq(Frame) /\ Running = Hands(frames)
      /\ n \in Nat /\ n \in 1 .. n /\ frames[n].entry = NoAlarm
      /\ \A i \in 1 .. n : frames[i] \in Frame
  BY Facts, OnStack DEF Top, Last
<1>2. /\ frames' \in Seq(Frame) /\ Len(frames') = n - 1
      /\ \A i \in 1 .. n - 1 : frames'[i] = frames[i]
  <2> DEFINE s == SubSeq(frames, 1, n - 1)
  <2>1. 1 \in Int /\ n - 1 \in Int /\ \A i \in 1 .. n - 1 : frames[i] \in Frame
    BY <1>1
  <2>2. /\ s \in Seq(Frame) /\ Len(s) = (IF 1 <= n - 1 THEN (n - 1) - 1 + 1 ELSE 0)
        /\ \A i \in 1 .. (n - 1) - 1 + 1 : s[i] = frames[1 + i - 1]
    BY <2>1, SubSeqProperties
  <2>3. frames' = s
    BY DEF Front
  <2> HIDE DEF s
  <2>4. Len(s) = n - 1 /\ \A i \in 1 .. n - 1 : s[i] = frames[i]
    <3>1. n >= 1 /\ (n - 1) - 1 + 1 = n - 1 /\ \A i \in 1 .. n - 1 : 1 + i - 1 = i
      BY <1>1
    <3>2. Len(s) = n - 1
      <4>1. PICK m : m = Len(s)
        OBVIOUS
      <4>2. m = IF 1 <= n - 1 THEN (n - 1) - 1 + 1 ELSE 0
        BY <4>1, <2>2
      <4> HIDE DEF n
      <4>3. m = n - 1
        BY <4>2, <3>1, <1>1
      <4> QED BY <4>1, <4>3
    <3>3. ASSUME NEW i \in 1 .. n - 1 PROVE s[i] = frames[i]
      BY <3>1, <2>2
    <3> QED BY <3>2, <3>3
  <2> QED BY <2>2, <2>3, <2>4
<1>3. \A i \in 1 .. n : i \in 1 .. n - 1 \/ i = n
  BY <1>1
<1>4. \A i \in 1 .. n - 1 : i \in 1 .. n
  BY <1>1
<1>5. Hands(frames') = Hands(frames)
  BY <1>1, <1>2, <1>3, <1>4 DEF Hands
<1>6. Running' = Running /\ InList' = InList
  <2>1. Running' = Hands(frames')
    BY <1>2, OnStack DEF Running, Hands
  <2> QED BY <2>1, <1>1, <1>5 DEF InList
<1>7. Types'
  BY <1>1, <1>2, TimebaseAssumption DEF IInv, Types
<1>8. Waiting'
  <2>1. Apart(frames')
    BY <1>2, <1>4 DEF IInv, Waiting, Apart
  <2> QED BY <2>1, <1>6 DEF IInv, Waiting
<1>9. Counts'
  <2>1. \A o : Refs(o)' = Refs(o)
    BY <1>6 DEF Refs
  <2> QED BY <2>1 DEF IInv, Counts
<1>10. Outermost'
  BY <1>2, <1>4 DEF IInv, Outermost
<1>11. Pointers'
  BY <1>2, <1>4, <1>6 DEF IInv, Pointers
<1>12. NoDangling'
  BY DEF IInv, NoDangling
<1> QED BY <1>7, <1>8, <1>9, <1>10, <1>11, <1>12 DEF IInv

\* A step of fts_timebase_flush_object.
LEMMA FlushStepStep == ASSUME IInv, FlushStep PROVE IInv'
<1> DEFINE lost == Top.p # Head0 /\ \A i \in DOMAIN entries : entries[i].n # Top.p
           place == PlaceOf(Top.p)
           a == entries[place]
<1>1. /\ entries \in Seq(Alarm) /\ Sorted(entries) /\ Distinct(entries)
      /\ Len(entries) \in Nat /\ DOMAIN entries = 1 .. Len(entries)
      /\ \A i \in 1 .. Len(entries) : entries[i] \in InList
      /\ frames \in Seq(Frame) /\ time \in Nat
  BY Facts, InSeq DEF InList
<1>2. /\ UNCHANGED <<time, target, added, held, refcnt, destroyed, foreign>>
      /\ frames # <<>> /\ Top.kind = "flush" /\ Top.entry = NoAlarm
  BY DEF FlushStep
<1>3. Len(frames) \in 1 .. Len(frames) /\ Top = frames[Len(frames)]
  BY <1>1, <1>2, OnStack DEF Top, Last
<1>4. place \in Nat /\ place >= 1
  <2> DEFINE I == {i \in 1 .. Len(entries) : entries[i].n = Top.p}
  <2>1. I # {} => Min(I) \in I
    BY <1>1, FirstPlace
  <2>2. place = IF Top.p = Head0 THEN 1 ELSE 1 + (IF I # {} THEN Min(I) ELSE 0)
    BY DEF PlaceOf, SelectInSeq
  <2>3. I # {} => Min(I) \in Nat
    BY <2>1, <1>1
  <2> HIDE DEF I
  <2> QED BY <2>2, <2>3
<1>5. \/ lost /\ dangling' = TRUE /\ UNCHANGED <<frames, entries, fired>>
      \/ /\ frames' = Front(frames) /\ UNCHANGED <<dangling, entries, fired>>
      \/ /\ place <= Len(entries) /\ a.object = Top.object
         /\ frames' = [frames EXCEPT ![Len(frames)].entry = a]
         /\ entries' = RemoveAt(entries, place)
         /\ fired' = fired \cup {a.n}
         /\ UNCHANGED dangling
      \/ /\ place <= Len(entries) /\ a.object # Top.object
         /\ frames' = [frames EXCEPT ![Len(frames)].p = a.n]
         /\ UNCHANGED <<dangling, entries, fired>>
  BY DEF FlushStep
<1> HIDE DEF place
<1>6. place <= Len(entries) => place \in 1 .. Len(entries) /\ a \in InList
  BY <1>1, <1>4
<1> HIDE DEF a
<1>7. CASE lost /\ dangling' = TRUE /\ UNCHANGED <<frames, entries, fired>>
  <2>1. \A e \in InList : e.n # Top.p
    <3>1. \A e \in InList : \E i \in 1 .. Len(entries) : entries[i] = e
      BY <1>1, InSeq DEF InList
    <3> QED BY <3>1, <1>1, <1>7
  <2>2. foreign
    BY <2>1, <1>2, <1>3, <1>7 DEF IInv, Pointers
  <2>3. Running' = Running /\ InList' = InList
    BY <1>7 DEF Running, InList
  <2>4. \A o : Refs(o)' = Refs(o)
    BY <2>3, <1>2 DEF Refs
  <2>5. dangling' \in BOOLEAN
    BY <1>7
  <2>6. Types'
    BY <2>5, <1>2, <1>7 DEF IInv, Types
  <2>7. Waiting' /\ Outermost' /\ Pointers'
    BY <2>3, <1>2, <1>7 DEF IInv, Waiting, Outermost, Pointers
  <2>8. Counts'
    BY <2>4, <1>2 DEF IInv, Counts
  <2>9. NoDangling'
    BY <2>2, <1>2 DEF NoDangling
  <2> QED BY <2>6, <2>7, <2>8, <2>9 DEF IInv
<1>8. CASE frames' = Front(frames) /\ UNCHANGED <<dangling, entries, fired>>
  <2>1. \A e \in InList : e.time >= time'
    BY <1>2 DEF IInv, Waiting
  <2> QED BY <2>1, <1>1, <1>2, <1>8, ReturnStep
<1>9. CASE /\ place <= Len(entries) /\ a.object = Top.object
           /\ frames' = [frames EXCEPT ![Len(frames)].entry = a]
           /\ entries' = RemoveAt(entries, place)
           /\ fired' = fired \cup {a.n}
           /\ UNCHANGED dangling
  <2>1. /\ entries' \in Seq(Alarm) /\ Sorted(entries') /\ Distinct(entries')
        /\ ToSet(entries') = ToSet(entries) \ {a}
    BY <1>1, <1>6, <1>9, RemoveAtList DEF a
  <2>2. \A e \in ToSet(entries') : e.time >= time'
    BY <2>1, <1>2 DEF IInv, Waiting, InList
  <2>3. \A i \in 1 .. Len(frames) : frames[i].kind = "advance" => time' <= target
    BY <1>2 DEF IInv, Outermost
  <2>4. ~foreign => \A i \in 1 .. Len(frames) :
                      frames[i].kind = "flush" => frames[i].object = a.object
    BY <1>2, <1>3, <1>9 DEF IInv, Pointers
  <2>5. time' \in Nat
    BY <1>1, <1>2
  <2> QED BY <2>1, <2>2, <2>3, <2>4, <2>5, <1>2, <1>6, <1>9, FireStep
<1>10. CASE /\ place <= Len(entries) /\ a.object # Top.object
            /\ frames' = [frames EXCEPT ![Len(frames)].p = a.n]
            /\ UNCHANGED <<dangling, entries, fired>>
  BY <1>10, <1>2, <1>6, PassStep
<1> QED BY <1>5, <1>7, <1>8, <1>9, <1>10


\* A tick and its steps, and the beginning of a flush.
LEMMA TickSteps == ASSUME IInv,
                          \/ AdvanceBegin \/ FireNext \/ AdvanceEnd
                          \/ \E o \in Objects : FlushBegin(o)
                   PROVE  IInv'
<1>1. /\ entries \in Seq(Alarm) /\ Sorted(entries) /\ Distinct(entries)
      /\ Len(entries) \in Nat
      /\ \A i \in 1 .. Len(entries) : entries[i] \in InList /\ entries[i] \in Alarm
      /\ \A e \in InList : \E i \in 1 .. Len(entries) : entries[i] = e
      /\ frames \in Seq(Frame) /\ time \in Nat /\ target \in Nat
  BY Facts, InSeq DEF InList
<1>2. CASE AdvanceBegin
  <2> DEFINE f == [kind |-> "advance", entry |-> NoAlarm]
  <2>1. f \in Frame /\ f.entry = NoAlarm /\ f.kind = "advance"
    BY DEF Frame
  <2>2. /\ UNCHANGED <<time, entries, added, fired, held, refcnt, destroyed, dangling, foreign>>
        /\ frames = <<>> /\ frames' = <<f>> /\ target' = time + Step
    BY <1>2 DEF AdvanceBegin
  <2> HIDE DEF f
  <2>3. frames' = Append(frames, f) /\ Len(frames) <= MaxDepth
    BY <2>2, TimebaseAssumption
  <2>4. target' \in Nat /\ time <= target'
    BY <2>2, <1>1, TimebaseAssumption
  <2>5. foreign' \in BOOLEAN /\ (foreign => foreign')
    BY <2>2 DEF IInv, Types
  <2> QED BY <2>1, <2>2, <2>3, <2>4, <2>5, CallStep
<1>3. CASE \E o \in Objects : FlushBegin(o)
  <2>1. PICK o \in Objects : FlushBegin(o)
    BY <1>3
  <2> DEFINE f == [kind |-> "flush", object |-> o, p |-> Head0, entry |-> NoAlarm]
  <2>2. /\ f \in Frame /\ f.entry = NoAlarm /\ f.kind = "flush" /\ f.p = Head0
        /\ f.object = o
    BY TimebaseAssumption DEF Frame, Head0
  <2>3. /\ UNCHANGED <<time, target, entries, added, fired, held, refcnt, destroyed, dangling>>
        /\ frames' = Append(frames, f) /\ Len(frames) < MaxDepth /\ Foreign(o)
    BY <2>1 DEF FlushBegin
  <2> HIDE DEF f
  <2>4. /\ foreign' \in BOOLEAN
        /\ foreign' <=> \/ foreign
                        \/ \E i \in 1 .. Len(frames) :
                              frames[i].kind = "flush" /\ frames[i].object # o
    BY <1>1, <2>3, ForeignFacts
  <2>5. Len(frames) <= MaxDepth /\ target' \in Nat
    BY <2>3, <1>1, OnStack, TimebaseAssumption
  <2>6. ~foreign' => \A i \in 1 .. Len(frames) :
                        frames[i].kind = "flush" => frames[i].object = f.object
    BY <2>2, <2>4
  <2> QED BY <2>2, <2>3, <2>4, <2>5, <2>6, CallStep
<1>4. ASSUME FireNext \/ AdvanceEnd
      PROVE  /\ frames # <<>> /\ Top.entry = NoAlarm
             /\ Len(frames) = 1 /\ Top = frames[1] /\ frames[1].kind = "advance"
  <2>1. frames # <<>> /\ Top.kind = "advance" /\ Top.entry = NoAlarm
    BY <1>4 DEF FireNext, AdvanceEnd, Advancing
  <2>2. Len(frames) \in 1 .. Len(frames) /\ Top = frames[Len(frames)]
    BY <2>1, <1>1, OnStack DEF Top, Last
  <2> QED BY <2>1, <2>2 DEF IInv, Outermost
<1>5. CASE FireNext
  <2>1. /\ UNCHANGED <<target, added, held, refcnt, destroyed, dangling, foreign>>
        /\ entries # <<>> /\ Head(entries).time < target
        /\ entries' = Tail(entries) /\ time' = Head(entries).time
        /\ fired' = fired \cup {Head(entries).n}
        /\ frames' = [frames EXCEPT ![Len(frames)].entry = Head(entries)]
    BY <1>5 DEF FireNext, Due
  <2> DEFINE a == entries[1]
  <2>2. /\ Head(entries) = a /\ a \in InList /\ a \in Alarm /\ 1 \in 1 .. Len(entries)
        /\ entries' \in Seq(Alarm) /\ Sorted(entries') /\ Distinct(entries')
        /\ ToSet(entries') = ToSet(entries) \ {a}
    BY <1>1, <2>1, TailList
  <2>3. a.time \in Nat
    BY <2>2, AlarmFields
  <2>4. \A i \in 1 .. Len(entries) : entries[i].time >= a.time
    <3>1. \A i \in 1 .. Len(entries) : i = 1 \/ 1 < i
      BY <1>1
    <3>2. \A i \in 1 .. Len(entries) : entries[i].time \in Nat
      BY <1>1, AlarmFields
    <3> QED BY <3>1, <3>2, <2>2, <1>1 DEF Sorted, Before
  <2>5. \A e \in ToSet(entries') : e.time >= time'
    BY <2>1, <2>2, <2>4, <1>1 DEF InList
  <2>6. time' <= target /\ time' \in Nat
    BY <2>1, <2>2, <2>3, <1>1
  <2>7. \A i \in 1 .. Len(frames) : frames[i].kind = "flush" => FALSE
    <3>1. Len(frames) = 1 /\ frames[1].kind = "advance"
      BY <1>4, <1>5
    <3>2. \A i \in 1 .. Len(frames) : i = 1
      BY <3>1
    <3> QED BY <3>1, <3>2
  <2> HIDE DEF a
  <2>8. frames # <<>> /\ Top.entry = NoAlarm
    BY <1>4, <1>5
  <2>9. /\ frames' = [frames EXCEPT ![Len(frames)].entry = a] /\ fired' = fired \cup {a.n}
    BY <2>1, <2>2
  <2> QED BY <2>1, <2>2, <2>5, <2>6, <2>7, <2>8, <2>9, FireStep
<1>6. CASE AdvanceEnd
  <2>1. /\ UNCHANGED <<target, entries, added, fired, held, refcnt, destroyed, dangling, foreign>>
        /\ time' = target /\ frames' = <<>> /\ ~Due
    BY <1>6 DEF AdvanceEnd
  <2>2. frames # <<>> /\ Top.entry = NoAlarm /\ Len(frames) = 1
    BY <1>4, <1>6
  <2>3. frames' = Front(frames)
    BY <2>1, <2>2, SubSeqEmpty DEF Front
  <2>4. \A e \in InList : e.time >= time'
    <3> SUFFICES ASSUME NEW i \in 1 .. Len(entries) PROVE entries[i].time >= target
      BY <1>1, <2>1
    <3>1. \A j \in 1 .. Len(entries) : entries[j].time \in Nat
      BY <1>1, AlarmFields
    <3>2. entries # <<>> /\ Head(entries) = entries[1] /\ 1 \in 1 .. Len(entries)
      BY <1>1
    <3>3. entries[1].time >= target
      BY <3>1, <3>2, <2>1, <1>1 DEF Due
    <3>4. i = 1 \/ 1 < i
      BY <1>1
    <3> QED BY <3>1, <3>2, <3>3, <3>4, <1>1 DEF Sorted, Before
  <2>5. \A i \in 1 .. Len(frames) - 1 : frames[i].kind = "advance" => time' = time
    BY <2>2
  <2>6. time' \in Nat
    BY <2>1, <1>1
  <2> QED BY <2>1, <2>2, <2>3, <2>4, <2>5, <2>6, ReturnStep
<1> QED BY <1>2, <1>3, <1>5, <1>6

\* Every step keeps the invariant.
LEMMA NextIInv == IInv /\ [Next]_vars => IInv'
<1> SUFFICES ASSUME IInv, [Next]_vars PROVE IInv'
  OBVIOUS
<1>1. CASE Operation
  <2>1. PICK o \in Objects : \/ \E d \in Delays : fts_timebase_add_call(o, d)
                             \/ fts_timebase_remove_object(o)
                             \/ FlushBegin(o)
                             \/ DeleteObject(o)
    BY <1>1 DEF Operation
  <2>2. CASE \E d \in Delays : fts_timebase_add_call(o, d)
    BY <2>2, AddStep
  <2>3. CASE fts_timebase_remove_object(o)
    BY <2>3, RemoveStep
  <2>4. CASE FlushBegin(o)
    BY <2>4, TickSteps
  <2>5. CASE DeleteObject(o)
    BY <2>5, DeleteStep
  <2> QED BY <2>1, <2>2, <2>3, <2>4, <2>5
<1>2. CASE FlushStep
  BY <1>2, FlushStepStep
<1>3. CASE AdvanceBegin \/ FireNext \/ AdvanceEnd
  BY <1>3, TickSteps
<1>4. CASE MethodEnd
  BY <1>4, MethodEndStep
<1>5. CASE UNCHANGED vars
  <2>1. /\ UNCHANGED <<time, target, entries, frames, added, fired, held, refcnt, destroyed,
                       dangling, foreign>>
        /\ Running' = Running /\ InList' = InList
    BY <1>5 DEF vars, Running, InList
  <2>2. \A o : Refs(o)' = Refs(o)
    BY <2>1 DEF Refs
  <2>3. Counts'
    BY <2>1, <2>2 DEF IInv, Counts
  <2> QED BY <2>1, <2>3 DEF IInv, Types, Waiting, Outermost, Pointers, NoDangling
<1> QED BY <1>1, <1>2, <1>3, <1>4, <1>5 DEF Next, Loop

\* The invariant of the time base holds.
THEOREM Invariance == Spec => []IInv
BY InitIInv, NextIInv, PTL DEF Spec


-----------------------------------------------------------------------------
(* The properties.                                                          *)

\* The time, the list, the calls in progress and the counts of the time base
\* have their types; in particular no count of fts_object_release is negative.
THEOREM TypeCorrect == Spec => []TypeOK
<1>1. IInv => TypeOK
  <2> SUFFICES ASSUME IInv PROVE TypeOK
    OBVIOUS
  <2>1. Running \subseteq Alarm
    BY Facts
  <2> QED BY <2>1 DEF IInv, Types, TypeOK
<1> QED BY <1>1, Invariance, PTL

\* timebase_insert_entry and the methods that call it in the middle of a tick
\* keep the list in order, and no alarm is in the past.
THEOREM OrderedThm == Spec => []Ordered
<1>1. IInv => Ordered
  <2> SUFFICES ASSUME IInv PROVE Ordered
    OBVIOUS
  <2>1. /\ DOMAIN entries = 1 .. Len(entries)
        /\ \A i \in 1 .. Len(entries) : entries[i] \in InList
        /\ Sorted(entries)
    BY Facts, InSeq DEF InList
  <2> QED BY <2>1 DEF IInv, Waiting, Ordered, Sorted, Before
<1> QED BY <1>1, Invariance, PTL

\* The reference counts are those of the patch, the list and the methods that
\* run, so that no method is called for or runs in a destroyed object.
THEOREM RefsExactThm == Spec => []RefsExact
<1>1. IInv => RefsExact
  <2> SUFFICES ASSUME IInv PROVE RefsExact
    OBVIOUS
  <2>1. /\ entries \in Seq(Alarm) /\ Distinct(entries)
        /\ IsFiniteSet(InList) /\ IsFiniteSet(Running)
        /\ InList \subseteq Alarm /\ Running \subseteq Alarm
    BY Facts
  <2>2. ASSUME NEW o \in Objects
        PROVE  refcnt[o] = (IF o \in held THEN 1 ELSE 0) + Cardinality(Of(o))
                             + Cardinality({e \in Running : e.object = o})
    <3>1. Cardinality(Of(o)) = Cardinality(Owned(InList, o))
      BY <2>1, OfCount
    <3>2. {e \in Running : e.object = o} = Owned(Running, o)
      BY DEF Owned
    <3> QED BY <3>1, <3>2 DEF IInv, Counts, Refs
  <2>3. ASSUME NEW e \in InList \cup Running, e.object \in destroyed PROVE FALSE
    <3> DEFINE o == e.object
    <3>1. o \in Objects /\ refcnt[o] = 0
      BY <2>3 DEF IInv, Types, Counts
    <3> HIDE DEF o
    <3>2. /\ Cardinality(Owned(InList, o)) \in Nat /\ IsFiniteSet(Owned(InList, o))
          /\ Cardinality(Owned(Running, o)) \in Nat /\ IsFiniteSet(Owned(Running, o))
      BY <2>1, OwnedCount
    <3>3. 0 = (IF o \in held THEN 1 ELSE 0) + Cardinality(Owned(InList, o))
                + Cardinality(Owned(Running, o))
      BY <3>1 DEF IInv, Counts, Refs
    <3>4. Cardinality(Owned(InList, o)) = 0 /\ Cardinality(Owned(Running, o)) = 0
      BY <3>2, <3>3
    <3>5. Owned(InList, o) = {} /\ Owned(Running, o) = {}
      BY <3>2, <3>4, FS_EmptySet
    <3> QED BY <3>5, <2>3 DEF Owned, o
  <2> QED BY <2>2, <2>3 DEF RefsExact, InList
<1> QED BY <1>1, Invariance, PTL

\* fts_timebase_flush_object follows no freed entry as long as the methods it
\* calls leave the alarms of other objects alone.
THEOREM NoDanglingThm == Spec => []NoDangling
<1>1. IInv => NoDangling
  BY DEF IInv
<1> QED BY <1>1, Invariance, PTL

\* fts_timebase_advance: time never goes back, and when a tick ends no alarm
\* is left that should have been fired or that was.
THEOREM TickCompleteThm == Spec => TickComplete
<1>1. ASSUME IInv, [Next]_vars
      PROVE  [/\ time' >= time
              /\ frames # <<>> /\ frames' = <<>> /\ Top.kind = "advance" =>
                   \A i \in DOMAIN entries :
                      entries[i].time >= time' /\ entries[i].n \notin fired]_vars
  <2>0. IInv'
    BY <1>1, NextIInv
  <2>1. /\ entries \in Seq(Alarm) /\ DOMAIN entries = 1 .. Len(entries)
        /\ \A i \in 1 .. Len(entries) : entries[i] \in InList
        /\ frames \in Seq(Frame) /\ time \in Nat /\ target \in Nat
        /\ InList \subseteq Alarm
    BY <1>1, Facts, InSeq DEF InList
  <2>2. time' >= time
    <3>1. CASE FireNext
      <4>1. entries # <<>> /\ time' = Head(entries).time
        BY <3>1 DEF FireNext, Due
      <4>2. Head(entries) \in InList
        BY <4>1, <2>1
      <4> QED BY <4>1, <4>2, <1>1 DEF IInv, Waiting
    <3>2. CASE AdvanceEnd
      <4>1. frames # <<>> /\ Top.kind = "advance" /\ time' = target
        BY <3>2 DEF AdvanceEnd, Advancing
      <4>2. Len(frames) \in 1 .. Len(frames) /\ Top = frames[Len(frames)]
        BY <4>1, <2>1, OnStack DEF Top, Last
      <4> QED BY <4>1, <4>2, <1>1, <2>1 DEF IInv, Outermost
    <3>3. CASE ~FireNext /\ ~AdvanceEnd
      <4>1. time' = time
        BY <3>3, <1>1 DEF Next, Operation, Loop, fts_timebase_add_call,
             fts_timebase_remove_object, FlushBegin, DeleteObject, FlushStep, AdvanceBegin,
             MethodEnd, vars
      <4> QED BY <4>1, <2>1
    <3> QED BY <3>1, <3>2, <3>3
  <2>3. ASSUME frames # <<>>, frames' = <<>>, Top.kind = "advance", NEW i \in DOMAIN entries
        PROVE  entries[i].time >= time' /\ entries[i].n \notin fired
    <3>1. entries[i] \in InList
      BY <2>1
    <3>2. entries[i].n \notin fired
      BY <3>1, <1>1 DEF IInv, Waiting
    <3>3. Len(frames) \in 1 .. Len(frames) /\ Top = frames[Len(frames)]
          /\ Len(frames) \in Nat /\ Len(frames') = 0
      BY <2>3, <2>1, OnStack DEF Top, Last
    <3>4. AdvanceEnd
      <4>2. ASSUME MethodEnd \/ FireNext PROVE FALSE
        <5>1. DOMAIN frames' = DOMAIN frames
          BY <4>2 DEF MethodEnd, FireNext
        <5>2. DOMAIN frames = 1 .. Len(frames) /\ DOMAIN frames' = {}
          BY <2>1, <2>3, OnStack
        <5> QED BY <5>1, <5>2, <3>3
      <4>3. ASSUME NEW o, FlushBegin(o) PROVE FALSE
        <5>1. frames' = Append(frames, [kind |-> "flush", object |-> o, p |-> Head0,
                                        entry |-> NoAlarm])
          BY <4>3 DEF FlushBegin
        <5>2. Len(frames') = Len(frames) + 1
          BY <5>1, <2>1
        <5> QED BY <5>2, <3>3
      <4>4. ASSUME frames' = frames PROVE FALSE
        BY <4>4, <2>3
      <4>5. ~AdvanceBegin /\ ~FlushStep
        BY <2>3 DEF AdvanceBegin, FlushStep
      <4>6. \A o \in Objects : ~(\E d \in Delays : fts_timebase_add_call(o, d))
                               /\ ~fts_timebase_remove_object(o) /\ ~DeleteObject(o)
        BY <4>4 DEF fts_timebase_add_call, fts_timebase_remove_object, DeleteObject
      <4>7. ~UNCHANGED vars
        BY <4>4 DEF vars
      <4> QED BY <4>2, <4>3, <4>5, <4>6, <4>7, <1>1 DEF Next, Operation, Loop
    <3>5. InList' = InList
      BY <3>4 DEF AdvanceEnd, InList
    <3>6. entries[i].time >= time'
      BY <3>1, <3>5, <2>0 DEF IInv, Waiting
    <3> QED BY <3>2, <3>6
  <2> QED BY <2>2, <2>3
<1> QED BY <1>1, Invariance, PTL DEF Spec, TickComplete
=============================================================================
