---------------------------- MODULE SchedProofs ----------------------------
(***************************************************************************)
(* The scheduler for any number of objects, descriptors and callbacks: what *)
(* a walk calls, and when the pointer it keeps across a method is safe.     *)
(***************************************************************************)
EXTENDS Sched, Integers, FiniteSetTheorems, SequenceTheorems, TLAPS

-----------------------------------------------------------------------------
(* What the loop of Lists leaves of a list, for every list.                 *)

\* t is what is left of the first n entries of s: h gives the old place of
\* every entry of t, keeps their order, and misses only entries in R.
Places(t, s, R, n, h) ==
   /\ h \in [1 .. Len(t) -> 1 .. n]
   /\ \A j, k \in 1 .. Len(t) : j < k => h[j] < h[k]
   /\ \A k \in 1 .. Len(t) : t[k] = s[h[k]] /\ s[h[k]] \notin R
   /\ \A i \in 1 .. n : s[i] \notin R => \E k \in 1 .. Len(t) : h[k] = i

\* The places up to one that is kept are more than those up to an earlier one.
LEMMA RankGrows == ASSUME NEW n \in Nat, NEW K \in SUBSET (1 .. n)
   PROVE /\ IsFiniteSet(K) /\ Cardinality(K) \in Nat
         /\ \A i \in K : Cardinality({j \in K : j <= i}) \in 1 .. Cardinality(K)
         /\ \A i, k \in K : i < k =>
               Cardinality({j \in K : j <= i}) < Cardinality({j \in K : j <= k})
<1>1. IsFiniteSet(K) /\ Cardinality(K) \in Nat
  <2>1. IsFiniteSet(1 .. n)
    BY FS_Interval
  <2>2. IsFiniteSet(K)
    BY <2>1, FS_Subset
  <2> QED BY <2>2, FS_CardinalityType
<1>2. ASSUME NEW i \in K
      PROVE  /\ IsFiniteSet({j \in K : j <= i})
             /\ Cardinality({j \in K : j <= i}) \in 1 .. Cardinality(K)
  <2> DEFINE B == {j \in K : j <= i}
  <2>1. B \in SUBSET K /\ B # {}
    OBVIOUS
  <2> HIDE DEF B
  <2>2. IsFiniteSet(B) /\ Cardinality(B) <= Cardinality(K)
    BY <1>1, <2>1, FS_Subset
  <2>3. Cardinality(B) \in Nat /\ Cardinality(B) # 0
    BY <2>1, <2>2, FS_CardinalityType, FS_EmptySet
  <2> QED BY <1>1, <2>2, <2>3 DEF B
<1>3. ASSUME NEW i \in K, NEW k \in K, i < k
      PROVE  Cardinality({j \in K : j <= i}) < Cardinality({j \in K : j <= k})
  <2> DEFINE A == {j \in K : j <= i}
             B == {j \in K : j <= k}
  <2>0. \A j \in K : j \in Int
    OBVIOUS
  <2>a. k <= k /\ ~(k <= i) /\ \A j \in K : j <= i => j <= k
    BY <1>3, <2>0
  <2>1. A \in SUBSET B /\ k \in B /\ k \notin A
    BY <2>a, Zenon
  <2>2. IsFiniteSet(B) /\ Cardinality(A) \in Nat /\ Cardinality(B) \in Nat
    BY <1>2
  <2> HIDE DEF A, B
  <2>3. Cardinality(A) <= Cardinality(B) /\ (Cardinality(B) = Cardinality(A) => B = A)
    BY <2>1, <2>2, FS_Subset
  <2>4. Cardinality(A) < Cardinality(B)
    BY <2>1, <2>2, <2>3
  <2> QED BY <2>4 DEF A, B
<1> QED BY <1>1, <1>2, <1>3

\* So every number up to the number of places kept is the rank of one of them.
LEMMA RankReaches == ASSUME NEW n \in Nat, NEW K \in SUBSET (1 .. n), NEW r \in 1 .. Cardinality(K)
   PROVE \E i \in K : Cardinality({j \in K : j <= i}) = r
<1> DEFINE rank == [i \in K |-> Cardinality({j \in K : j <= i})]
<1>1. /\ IsFiniteSet(K) /\ Cardinality(K) \in Nat
      /\ rank \in [K -> 1 .. Cardinality(K)]
      /\ \A i, k \in K : i < k => rank[i] < rank[k]
  BY RankGrows
<1> HIDE DEF rank
<1>2. \A i, k \in K : rank[i] = rank[k] => i = k
  <2> SUFFICES ASSUME NEW i \in K, NEW k \in K, rank[i] = rank[k], i # k PROVE FALSE
    OBVIOUS
  <2>1. i < k \/ k < i
    OBVIOUS
  <2>2. rank[i] < rank[k] \/ rank[k] < rank[i]
    BY <2>1, <1>1
  <2>3. rank[i] \in 1 .. Cardinality(K) /\ rank[k] \in 1 .. Cardinality(K)
    BY <1>1
  <2> QED BY <2>2, <2>3, <1>1
<1>3. rank \in Injection(K, 1 .. Cardinality(K))
  BY <1>1, <1>2 DEF Injection, IsInjective
<1>4. IsFiniteSet(1 .. Cardinality(K)) /\ Cardinality(1 .. Cardinality(K)) = Cardinality(K)
  BY <1>1, FS_Interval
<1>5. rank \in Surjection(K, 1 .. Cardinality(K))
  BY <1>3, <1>4, FS_Injection
<1>6. PICK i \in K : rank[i] = r
  BY <1>5 DEF Surjection
<1> QED BY <1>6 DEF rank

\* The loop of Lists unlinks exactly the entries it should and keeps the order
\* of the others.
LEMMA WithoutPlaces == ASSUME NEW S, NEW s \in Seq(S), NEW R
   PROVE /\ Without(s, R) \in Seq(S)
         /\ \E h : Places(Without(s, R), s, R, Len(s), h)
<1> DEFINE K == Kept(s, R)
           m == Cardinality(K)
           h == [k \in 1 .. m |-> KeptPlace(s, R, k)]
           t == Without(s, R)
<1>1. Len(s) \in Nat /\ K \in SUBSET (1 .. Len(s)) /\ \A i \in 1 .. Len(s) : s[i] \in S
  BY DEF Kept
<1>2. /\ m \in Nat
      /\ \A i \in K : Cardinality({j \in K : j <= i}) \in 1 .. m
      /\ \A i, k \in K : i < k => Cardinality({j \in K : j <= i}) < Cardinality({j \in K : j <= k})
      /\ \A i \in K : i \in Int
  <2> HIDE DEF K
  <2>1. \A i \in K : i \in Int
    BY <1>1
  <2> QED BY <2>1, <1>1, RankGrows
<1>3. ASSUME NEW k \in 1 .. m
      PROVE  h[k] \in K /\ Cardinality({j \in K : j <= h[k]}) = k
  <2>1. \E i \in K : Cardinality({j \in K : j <= i}) = k
    BY <1>1, RankReaches
  <2>2. h[k] = CHOOSE i \in K : Cardinality({j \in K : j <= i}) = k
    BY DEF KeptPlace
  <2> HIDE DEF h, K
  <2> QED BY <2>1, <2>2
<1>4. t = [k \in 1 .. m |-> s[h[k]]]
  BY DEF Without
<1> DEFINE rank(i) == Cardinality({j \in K : j <= i})
<1>a. /\ \A k \in 1 .. m : h[k] \in K /\ rank(h[k]) = k
      /\ \A i \in K : rank(i) \in 1 .. m /\ i \in Int
      /\ \A i, k \in K : i < k => rank(i) < rank(k)
  BY <1>2, <1>3
<1> HIDE DEF h, t, m, rank
<1>5. \A k \in 1 .. m : h[k] \in 1 .. Len(s) /\ s[h[k]] \notin R
  BY <1>3 DEF Kept
<1>6. h \in [1 .. m -> 1 .. Len(s)]
  <2>1. DOMAIN h = 1 .. m /\ h = [k \in 1 .. m |-> h[k]]
    BY DEF h
  <2> QED BY <2>1, <1>5
<1>7. t \in Seq(S) /\ Len(t) = m /\ \A k \in 1 .. m : t[k] = s[h[k]]
  BY <1>1, <1>2, <1>4, <1>5
<1>8. ASSUME NEW j \in 1 .. m, NEW k \in 1 .. m, j < k PROVE h[j] < h[k]
  <2> HIDE DEF K
  <2>1. /\ h[j] \in K /\ h[k] \in K /\ h[j] \in Int /\ h[k] \in Int
        /\ rank(h[j]) = j /\ rank(h[k]) = k
    BY <1>a
  <2>2. h[j] # h[k] /\ ~(h[k] < h[j])
    BY <2>1, <1>a, <1>8
  <2> QED BY <2>1, <2>2
<1>9. ASSUME NEW i \in 1 .. Len(s), s[i] \notin R PROVE \E k \in 1 .. m : h[k] = i
  <2>1. i \in K
    BY <1>9 DEF Kept
  <2> HIDE DEF K
  <2>2. rank(i) \in 1 .. m
    BY <2>1, <1>a
  <2>3. h[rank(i)] \in K /\ h[rank(i)] \in Int /\ rank(h[rank(i)]) = rank(i)
    BY <2>2, <1>a
  <2>4. ~(h[rank(i)] < i) /\ ~(i < h[rank(i)])
    BY <2>1, <2>2, <2>3, <1>a
  <2>5. h[rank(i)] = i
    BY <2>3, <2>4
  <2> QED BY <2>2, <2>5
<1>10. Places(t, s, R, Len(s), h)
  BY <1>5, <1>6, <1>7, <1>8, <1>9 DEF Places
<1> QED BY <1>7, <1>10 DEF t

-----------------------------------------------------------------------------
(* The inductive invariant.                                                 *)

\* A callback: one that always runs has no descriptor, the others have one.
Cb == [n : 1 .. MaxCallbacks, object : Objects, flags : {"always"}, fd : {NoFd}]
        \cup [n : 1 .. MaxCallbacks, object : Objects, flags : {"read", "write"}, fd : Fds]

Types == /\ callbacks \in Seq(Cb)
         /\ status \in {"ready", "halted"}
         /\ pc \in {"select", "walk", "method", "done"}
         /\ pass \in {"select", "always"}
         /\ callback \in 0 .. MaxCallbacks /\ next \in 0 .. MaxCallbacks
         /\ ready \subseteq {"read", "write"} \X Fds
         /\ added \in 1 .. MaxCallbacks
         /\ dangling \in BOOLEAN /\ others \in BOOLEAN

\* New callbacks go to the head: the list is ordered, the latest first.
Decreasing(l) == \A i, j \in 1 .. Len(l) : i < j => l[i].n > l[j].n
Numbered == /\ Decreasing(callbacks)
            /\ \A i \in 1 .. Len(callbacks) : callbacks[i].n <= added
            /\ registered \subseteq 1 .. added

\* What was added since the walk began lies before everything it began with.
Seen == \A i \in 1 .. Len(callbacks) :
          callbacks[i].n \in registered \/ \A m \in registered : m < callbacks[i].n

\* Where the walk goes on: the pointer kept across the method, if one runs.
Cursor == IF pc = "method" THEN next ELSE callback
Underway == pc \in {"walk", "method"}

\* The walk has served what lies before the cursor, and nothing else.
Course == /\ called \subseteq registered
          /\ Underway => /\ Cursor \in registered \cup {Nil}
                         /\ \A m \in called : m > Cursor
                         /\ \A i \in 1 .. Len(callbacks) :
                              callbacks[i].n \in registered /\ callbacks[i].n > Cursor
                                => (callbacks[i].n \in called <=> Chosen(callbacks[i]))
          /\ pc = "method" => next < callback

\* The cursor points into the list unless a method has removed others.
Alive == Underway /\ ~others => Cursor \in Names \cup {Nil}

IInv == Types /\ Numbered /\ Seen /\ Course /\ Alive /\ RemoveIsSafe


-----------------------------------------------------------------------------
(* The list.                                                                *)

\* The names of a list (callbacks) and of its entries.
LEMMA NamesOf == ASSUME callbacks \in Seq(Cb)
   PROVE /\ Names = {callbacks[i].n : i \in 1 .. Len(callbacks)}
         /\ \A i \in 1 .. Len(callbacks) : callbacks[i] \in Cb
         /\ Len(callbacks) \in Nat
<1>1. DOMAIN callbacks = 1 .. Len(callbacks)
  OBVIOUS
<1> QED BY <1>1 DEF Names

\* A callback has its fields, and its number is a natural number.
LEMMA CbFields == ASSUME NEW c \in Cb
   PROVE /\ c.n \in 1 .. MaxCallbacks /\ c.n \in Nat /\ c.n > 0 /\ c.n <= MaxCallbacks
         /\ c.object \in Objects
         /\ c.flags \in {"read", "write", "always"}
         /\ c.fd \in Fds \cup {NoFd}
         /\ Request(c) # <<"always", NoFd>> => Request(c) \in {"read", "write"} \X Fds
BY SchedAssumption DEF Cb, Request

\* In an ordered list a name has one place (callback_head's list).
LEMMA PlaceIs == ASSUME callbacks \in Seq(Cb), Decreasing(callbacks),
                        NEW i \in 1 .. Len(callbacks)
   PROVE Place(callbacks[i].n) = i /\ Callback(callbacks[i].n) = callbacks[i]
<1> DEFINE P == Place(callbacks[i].n)
<1>1. i \in DOMAIN callbacks
  OBVIOUS
<1>2. P \in DOMAIN callbacks /\ callbacks[P].n = callbacks[i].n
  BY <1>1, Zenon DEF Place
<1> HIDE DEF P
<1>3. P \in 1 .. Len(callbacks) /\ Len(callbacks) \in Nat
  BY <1>2
<1>4. callbacks[P] \in Cb /\ callbacks[i] \in Cb
  BY <1>3
<1>5. ~(P < i) /\ ~(i < P)
  BY <1>2, <1>3, <1>4, CbFields DEF Decreasing
<1>6. P = i
  BY <1>5, <1>3
<1> QED BY <1>6 DEF P, Callback

\* The next callback is the one behind, the greatest name below (callback->next).
LEMMA NextIs == ASSUME callbacks \in Seq(Cb), Decreasing(callbacks),
                       NEW i \in 1 .. Len(callbacks)
   PROVE LET x == NextOf(callbacks[i].n)
         IN  /\ x \in Names \cup {Nil} /\ x \in Nat /\ x < callbacks[i].n
             /\ \A j \in 1 .. Len(callbacks) :
                  callbacks[j].n > x => callbacks[j].n >= callbacks[i].n
<1> DEFINE x == NextOf(callbacks[i].n)
<1>1. x = IF i < Len(callbacks) THEN callbacks[i + 1].n ELSE Nil
  BY PlaceIs, Zenon DEF NextOf
<1> HIDE DEF x
<1>2. /\ \A j \in 1 .. Len(callbacks) : callbacks[j] \in Cb
      /\ Len(callbacks) \in Nat
  BY NamesOf
<1>3. \A j \in 1 .. Len(callbacks) : callbacks[j].n \in Nat /\ callbacks[j].n > 0
  BY <1>2, CbFields
<1>4. x \in Names \cup {Nil} /\ x \in Nat /\ x < callbacks[i].n
  BY <1>1, <1>2, <1>3, NamesOf DEF Decreasing, Nil
<1>5. ASSUME NEW j \in 1 .. Len(callbacks), callbacks[j].n > x
      PROVE  callbacks[j].n >= callbacks[i].n
  <2>1. CASE j <= i
    BY <2>1, <1>2, <1>3 DEF Decreasing
  <2>2. CASE j > i
    <3>1. i < Len(callbacks) /\ i + 1 \in 1 .. Len(callbacks) /\ x = callbacks[i + 1].n
      BY <2>2, <1>1, <1>2
    <3>2. j = i + 1 \/ i + 1 < j
      BY <2>2, <1>2
    <3>3. callbacks[j].n <= callbacks[i + 1].n
      BY <3>1, <3>2, <1>3 DEF Decreasing
    <3> QED BY <3>1, <3>3, <1>5, <1>3
  <2> QED BY <2>1, <2>2, <1>2
<1> QED BY <1>4, <1>5 DEF x

\* The head is the latest callback (callback_head).
LEMMA HeadIs == ASSUME callbacks \in Seq(Cb), Decreasing(callbacks)
   PROVE /\ HeadName \in Names \cup {Nil} /\ HeadName \in 0 .. MaxCallbacks
         /\ \A j \in 1 .. Len(callbacks) : callbacks[j].n <= HeadName
<1>1. /\ \A j \in 1 .. Len(callbacks) : callbacks[j] \in Cb
      /\ Len(callbacks) \in Nat
  BY NamesOf
<1>2. \A j \in 1 .. Len(callbacks) : /\ callbacks[j].n \in Nat
                                     /\ callbacks[j].n <= MaxCallbacks
  BY <1>1, CbFields
<1>3. CASE callbacks = <<>>
  <2>1. HeadName = 0
    BY <1>3 DEF HeadName, Nil
  <2>2. \A j \in 1 .. Len(callbacks) : FALSE
    BY <1>3
  <2> QED BY <2>1, <2>2, SchedAssumption DEF Nil
<1>4. CASE callbacks # <<>>
  <2>1. 1 \in 1 .. Len(callbacks) /\ HeadName = callbacks[1].n
    BY <1>4, <1>1 DEF HeadName
  <2>2. \A j \in 1 .. Len(callbacks) : j = 1 \/ 1 < j
    BY <1>1
  <2>3. \A j \in 1 .. Len(callbacks) : callbacks[j].n <= HeadName
    BY <2>1, <2>2, <1>2 DEF Decreasing
  <2> QED BY <2>1, <2>3, <1>2, NamesOf, SchedAssumption
<1> QED BY <1>3, <1>4

-----------------------------------------------------------------------------
(* Init and the actions.                                                    *)

\* The initial state satisfies the invariant (one callback before the loop).
LEMMA InitIInv == Init => IInv
<1> SUFFICES ASSUME Init PROVE IInv
  OBVIOUS
<1>1. PICK o \in Objects :
        callbacks = <<[n |-> 1, object |-> o, flags |-> "always", fd |-> NoFd]>>
  BY DEF Init
<1> DEFINE c == [n |-> 1, object |-> o, flags |-> "always", fd |-> NoFd]
<1>2. c \in Cb /\ c.n = 1
  BY SchedAssumption DEF Cb
<1> HIDE DEF c
<1>3. callbacks = <<c>>
  BY <1>1 DEF c
<1>4. callbacks \in Seq(Cb) /\ Len(callbacks) = 1 /\ callbacks[1] = c
  BY <1>2, <1>3
<1>5. Types
  <2>1. dangling \in BOOLEAN /\ others \in BOOLEAN /\ ready \subseteq {"read", "write"} \X Fds
    BY Zenon DEF Init
  <2>2. callback \in 0 .. MaxCallbacks /\ next \in 0 .. MaxCallbacks
    BY SchedAssumption DEF Init, Nil
  <2> QED BY <2>1, <2>2, <1>4, SchedAssumption DEF Types, Init
<1>6. Numbered
  BY <1>4, <1>2 DEF Numbered, Decreasing, Init
<1>7. Seen /\ Course /\ Alive /\ RemoveIsSafe
  BY DEF Seen, Course, Alive, RemoveIsSafe, Underway, Init
<1> QED BY <1>5, <1>6, <1>7 DEF IInv


\* A method adds a callback.
LEMMA AddStep == ASSUME IInv, NEW o \in Objects,
                        NEW f \in {"read", "write", "always"}, NEW fd,
                        (f = "always" /\ fd = NoFd) \/ (f # "always" /\ fd \in Fds),
                        fts_sched_add(o, f, fd)
                 PROVE  IInv'
<1> DEFINE c == [n |-> added + 1, object |-> o, flags |-> f, fd |-> fd]
<1>1. c \in Cb /\ c.n = added + 1
  BY SchedAssumption DEF Cb, IInv, Types, fts_sched_add
<1> HIDE DEF c
<1>2. callbacks' = <<c>> \o callbacks
  BY DEF fts_sched_add, Pushed, c
<1>3. /\ callbacks \in Seq(Cb) /\ Len(callbacks) \in Nat
      /\ \A i \in 1 .. Len(callbacks) : callbacks[i] \in Cb
  BY NamesOf DEF IInv, Types
<1>4. /\ callbacks' \in Seq(Cb) /\ Len(callbacks') = Len(callbacks) + 1
      /\ callbacks'[1] = c
      /\ \A i \in 1 .. Len(callbacks') : i > 1 =>
           i - 1 \in 1 .. Len(callbacks) /\ callbacks'[i] = callbacks[i - 1]
      /\ \A i \in 1 .. Len(callbacks) : callbacks'[i + 1] = callbacks[i]
  BY <1>1, <1>2, <1>3
<1>5. /\ added' = added + 1 /\ added < MaxCallbacks /\ added \in Nat
      /\ registered \subseteq 1 .. added
      /\ \A i \in 1 .. Len(callbacks) : callbacks[i].n \in Nat /\ callbacks[i].n <= added
      /\ pc = "method" /\ pc' = "method" /\ Cursor' = Cursor /\ Cursor = next
      /\ next \in Nat
  BY <1>3, CbFields, SchedAssumption
     DEF fts_sched_add, IInv, Types, Numbered, Cursor
<1>6. Types'
  <2>1. UNCHANGED <<status, pc, pass, callback, next, ready, dangling, others>>
    BY DEF fts_sched_add
  <2>2. added' \in 1 .. MaxCallbacks
    BY <1>5, SchedAssumption DEF IInv, Types
  <2> QED BY <2>1, <2>2, <1>4 DEF IInv, Types
<1>7. Numbered'
  <2>1. ASSUME NEW i \in 1 .. Len(callbacks'), NEW j \in 1 .. Len(callbacks'), i < j
        PROVE  callbacks'[i].n > callbacks'[j].n
    <3>1. j > 1 /\ j - 1 \in 1 .. Len(callbacks) /\ callbacks'[j] = callbacks[j - 1]
      BY <2>1, <1>4, <1>3
    <3>2. CASE i = 1
      BY <3>1, <3>2, <1>4, <1>1, <1>5
    <3>3. CASE i > 1
      <4>1. i - 1 \in 1 .. Len(callbacks) /\ callbacks'[i] = callbacks[i - 1] /\ i - 1 < j - 1
        BY <3>3, <2>1, <1>4, <1>3
      <4> QED BY <4>1, <3>1 DEF IInv, Numbered, Decreasing
    <3> QED BY <3>2, <3>3, <1>3
  <2>2. ASSUME NEW i \in 1 .. Len(callbacks') PROVE callbacks'[i].n <= added'
    <3>1. CASE i = 1
      BY <3>1, <1>4, <1>1, <1>5
    <3>2. CASE i > 1
      BY <3>2, <1>4, <1>5
    <3> QED BY <3>1, <3>2, <1>3
  <2>3. registered' \subseteq 1 .. added'
    BY <1>5 DEF fts_sched_add
  <2> QED BY <2>1, <2>2, <2>3 DEF Numbered, Decreasing
<1>8. registered' = registered /\ called' = called
  BY DEF fts_sched_add
<1>9. Seen'
  <2> SUFFICES ASSUME NEW i \in 1 .. Len(callbacks')
               PROVE  \/ callbacks'[i].n \in registered
                      \/ \A m \in registered : m < callbacks'[i].n
    BY <1>8 DEF Seen
  <2>1. CASE i = 1
    BY <2>1, <1>4, <1>1, <1>5
  <2>2. CASE i > 1
    BY <2>2, <1>4 DEF IInv, Seen
  <2> QED BY <2>1, <2>2, <1>3
<1>10. Course'
  <2>1. ASSUME NEW i \in 1 .. Len(callbacks'), callbacks'[i].n \in registered,
               callbacks'[i].n > next
        PROVE  callbacks'[i].n \in called <=> Chosen(callbacks'[i])
    <3>1. i > 1
      BY <2>1, <1>4, <1>1, <1>5, <1>3
    <3>2. i - 1 \in 1 .. Len(callbacks) /\ callbacks'[i] = callbacks[i - 1]
      BY <3>1, <1>4
    <3> QED BY <3>2, <2>1, <1>5 DEF IInv, Course, Underway
  <2>2. pass' = pass /\ ready' = ready /\ next' = next /\ callback' = callback
    BY DEF fts_sched_add
  <2>3. \A x : Chosen(x)' <=> Chosen(x)
    BY <2>2 DEF Chosen, Request
  <2> QED BY <2>1, <2>2, <2>3, <1>5, <1>8 DEF IInv, Course, Underway
<1>11. Alive'
  <2>1. Names \subseteq Names'
    <3> SUFFICES ASSUME NEW i \in 1 .. Len(callbacks)
                 PROVE  callbacks[i].n \in Names'
      BY <1>3, NamesOf
    <3>1. i + 1 \in 1 .. Len(callbacks') /\ callbacks'[i + 1] = callbacks[i]
      BY <1>3, <1>4
    <3>2. DOMAIN callbacks' = 1 .. Len(callbacks')
      BY <1>4
    <3> QED BY <3>1, <3>2 DEF Names
  <2>2. others' = others
    BY DEF fts_sched_add
  <2> QED BY <2>1, <2>2, <1>5 DEF IInv, Alive, Underway
<1>12. RemoveIsSafe'
  BY DEF IInv, RemoveIsSafe, fts_sched_add
<1> QED BY <1>6, <1>7, <1>9, <1>10, <1>11, <1>12 DEF IInv


\* A method removes the callbacks of an object.
LEMMA RemoveStep == ASSUME IInv, NEW o \in Objects, fts_sched_remove(o) PROVE IInv'
<1> DEFINE R == {c \in ToSet(callbacks) : c.object = o}
<1>1. /\ callbacks \in Seq(Cb) /\ Len(callbacks) \in Nat
      /\ \A i \in 1 .. Len(callbacks) : callbacks[i] \in Cb
      /\ DOMAIN callbacks = 1 .. Len(callbacks)
  BY NamesOf DEF IInv, Types
<1>2. callbacks' = Without(callbacks, R)
  BY DEF fts_sched_remove
<1>3. \A i \in 1 .. Len(callbacks) : callbacks[i] \in R <=> callbacks[i].object = o
  BY <1>1 DEF ToSet
<1> HIDE DEF R
<1>4. callbacks' \in Seq(Cb) /\ \E h : Places(callbacks', callbacks, R, Len(callbacks), h)
  BY <1>1, <1>2, WithoutPlaces
<1>5. PICK h : Places(callbacks', callbacks, R, Len(callbacks), h)
  BY <1>4
<1>6. /\ Len(callbacks') \in Nat
      /\ DOMAIN callbacks' = 1 .. Len(callbacks')
      /\ \A k \in 1 .. Len(callbacks') : h[k] \in 1 .. Len(callbacks)
                                         /\ callbacks'[k] = callbacks[h[k]]
      /\ \A j, k \in 1 .. Len(callbacks') : j < k => h[j] < h[k]
      /\ \A i \in 1 .. Len(callbacks) : callbacks[i].object # o =>
           \E k \in 1 .. Len(callbacks') : callbacks'[k] = callbacks[i]
  <2>1. Len(callbacks') \in Nat /\ DOMAIN callbacks' = 1 .. Len(callbacks')
    BY <1>4
  <2>2. \A k \in 1 .. Len(callbacks') : h[k] \in 1 .. Len(callbacks)
                                         /\ callbacks'[k] = callbacks[h[k]]
    BY <1>5 DEF Places
  <2>3. \A j, k \in 1 .. Len(callbacks') : j < k => h[j] < h[k]
    BY <1>5 DEF Places
  <2>4. ASSUME NEW i \in 1 .. Len(callbacks), callbacks[i].object # o
        PROVE  \E k \in 1 .. Len(callbacks') : callbacks'[k] = callbacks[i]
    <3>1. PICK k \in 1 .. Len(callbacks') : h[k] = i
      BY <1>3, <1>5, <2>4 DEF Places
    <3> QED BY <3>1, <2>2
  <2> QED BY <2>1, <2>2, <2>3, <2>4
<1> HIDE <1>5
<1>7. /\ UNCHANGED <<status, pc, pass, callback, next, ready, added, registered, called,
                     dangling>>
      /\ pc = "method"
  BY DEF fts_sched_remove
<1>8. others' <=> \/ others
                  \/ \E i \in DOMAIN callbacks :
                       callbacks[i].object = o /\ callbacks[i].n # callback
  BY Zenon DEF fts_sched_remove
<1>9. others' \in BOOLEAN
  BY Zenon DEF fts_sched_remove
<1>10. Types'
  BY <1>4, <1>7, <1>9 DEF IInv, Types
<1>11. Numbered'
  BY <1>6, <1>7 DEF IInv, Numbered, Decreasing
<1>12. Seen'
  BY <1>6, <1>7 DEF IInv, Seen
<1>13. Cursor = next /\ Cursor' = next /\ Underway /\ Underway'
  BY <1>7 DEF Cursor, Underway
<1>14. Course'
  <2>1. \A x : Chosen(x)' <=> Chosen(x)
    BY <1>7 DEF Chosen, Request
  <2>2. \A k \in 1 .. Len(callbacks') :
          callbacks'[k].n \in registered /\ callbacks'[k].n > next
            => (callbacks'[k].n \in called <=> Chosen(callbacks'[k]))
    BY <1>6, <1>13 DEF IInv, Course
  <2> QED BY <2>1, <2>2, <1>7, <1>13 DEF IInv, Course
<1>15. Alive'
  <2> SUFFICES ASSUME ~others', next # Nil PROVE next \in Names'
    BY <1>13 DEF Alive
  <2>1. next \in Names
    BY <1>8, <1>13 DEF IInv, Alive
  <2>2. PICK i \in 1 .. Len(callbacks) : callbacks[i].n = next
    BY <2>1, <1>1, NamesOf
  <2>3. next < callback /\ next \in Nat /\ callback \in Nat
    BY <1>7, SchedAssumption DEF IInv, Course, Types
  <2>4. callbacks[i].object # o
    BY <2>2, <2>3, <1>8, <1>1
  <2>5. PICK k \in 1 .. Len(callbacks') : callbacks'[k] = callbacks[i]
    BY <2>4, <1>6
  <2> QED BY <2>5, <2>2, <1>6 DEF Names
<1>16. RemoveIsSafe'
  BY <1>7, <1>8 DEF IInv, RemoveIsSafe
<1> QED BY <1>10, <1>11, <1>12, <1>14, <1>15, <1>16 DEF IInv

\* A walk begins: at the head, with nothing called (run_select, run_always).
LEMMA WalkStep == ASSUME IInv, NEW kind \in {"select", "always"}, Walk(kind),
                         UNCHANGED <<callbacks, status, next, added, dangling, others>>,
                         ready' \subseteq {"read", "write"} \X Fds
                  PROVE  IInv'
<1>1. /\ callbacks \in Seq(Cb) /\ Decreasing(callbacks)
      /\ Names = {callbacks[i].n : i \in 1 .. Len(callbacks)}
      /\ \A i \in 1 .. Len(callbacks) : callbacks[i] \in Cb
  BY NamesOf DEF IInv, Types, Numbered
<1>2. /\ HeadName \in Names \cup {Nil} /\ HeadName \in 0 .. MaxCallbacks
      /\ \A j \in 1 .. Len(callbacks) : callbacks[j].n <= HeadName
  BY <1>1, HeadIs
<1>3. \A j \in 1 .. Len(callbacks) : /\ callbacks[j].n \in Nat
                                     /\ callbacks[j].n > 0 /\ callbacks[j].n <= added
  BY <1>1, CbFields DEF IInv, Numbered
<1>4. /\ pc' = "walk" /\ pass' = kind /\ callback' = HeadName
      /\ registered' = Names /\ called' = {}
  BY DEF Walk
<1>5. Types'
  BY <1>2, <1>4 DEF IInv, Types
<1>6. added' \in Nat /\ Names \subseteq 1 .. added'
  BY <1>1, <1>3 DEF IInv, Types
<1>7. Numbered'
  BY <1>4, <1>6 DEF IInv, Numbered
<1>8. Seen'
  BY <1>1, <1>4 DEF Seen
<1>9. Course'
  BY <1>2, <1>3, <1>4 DEF Course, Underway, Cursor
<1>10. Names' = Names
  BY DEF Names
<1>11. Alive' /\ RemoveIsSafe'
  BY <1>2, <1>4, <1>10 DEF IInv, Alive, Underway, Cursor, RemoveIsSafe
<1> QED BY <1>5, <1>7, <1>8, <1>9, <1>11 DEF IInv


\* The walk looks at a callback: it calls its method or passes.
LEMMA VisitStep == ASSUME IInv, Visit PROVE IInv'
<1>1. /\ callbacks \in Seq(Cb) /\ Decreasing(callbacks)
      /\ Names = {callbacks[i].n : i \in 1 .. Len(callbacks)}
      /\ \A i \in 1 .. Len(callbacks) : callbacks[i] \in Cb
  BY NamesOf DEF IInv, Types, Numbered
<1>2. \A j \in 1 .. Len(callbacks) : /\ callbacks[j].n \in Nat
                                     /\ callbacks[j].n > 0
                                     /\ callbacks[j].n \in 0 .. MaxCallbacks
  BY <1>1, CbFields
<1>3. /\ UNCHANGED <<callbacks, status, pass, ready, added, registered, dangling, others>>
      /\ pc = "walk" /\ callback \in Names
  BY DEF Visit, Visiting
<1>4. PICK i \in 1 .. Len(callbacks) : callbacks[i].n = callback
  BY <1>1, <1>3
<1> DEFINE x == NextOf(callback)
<1>5. /\ x \in Names \cup {Nil} /\ x \in Nat /\ x < callback
      /\ \A j \in 1 .. Len(callbacks) : callbacks[j].n > x => callbacks[j].n >= callback
  BY <1>1, <1>4, NextIs
<1>6. Callback(callback) = callbacks[i]
  BY <1>1, <1>4, PlaceIs
<1>7. x \in 0 .. MaxCallbacks
  BY <1>1, <1>2, <1>5, SchedAssumption DEF Nil
<1>8. /\ next' = x
      /\ IF Chosen(callbacks[i])
         THEN pc' = "method" /\ called' = called \cup {callback} /\ callback' = callback
         ELSE pc' = "walk" /\ called' = called /\ callback' = x
  BY <1>3, <1>6 DEF Visit
<1> HIDE DEF x
<1>9. Cursor = callback /\ Underway /\ Underway' /\ Cursor' = x
  BY <1>3, <1>8 DEF Cursor, Underway
<1>10. callback \in registered
  BY <1>9, <1>4, <1>2 DEF IInv, Course, Nil
<1>11. Types'
  BY <1>3, <1>7, <1>8 DEF IInv, Types
<1>12. Numbered' /\ Seen'
  BY <1>3 DEF IInv, Numbered, Seen
<1>13. Course'
  <2>1. called' \subseteq registered'
    BY <1>3, <1>8, <1>10 DEF IInv, Course
  <2>2. x \in registered' \cup {Nil}
    <3> SUFFICES ASSUME x # Nil PROVE x \in registered
      BY <1>3
    <3>1. PICK j \in 1 .. Len(callbacks) : callbacks[j].n = x
      BY <1>1, <1>5
    <3>2. ~(callback < x)
      BY <1>5, <1>4, <1>2
    <3> QED BY <3>1, <3>2, <1>10 DEF IInv, Seen
  <2>3. \A m \in called' : m > x
    <3>1. \A m \in called : m \in Nat /\ m > callback
      BY <1>9 DEF IInv, Course, Numbered, Types
    <3> QED BY <3>1, <1>8, <1>5, <1>4, <1>2
  <2>4. ASSUME NEW j \in 1 .. Len(callbacks), callbacks[j].n \in registered,
               callbacks[j].n > x
        PROVE  callbacks[j].n \in called' <=> Chosen(callbacks[j])
    <3>1. CASE callbacks[j].n = callback
      <4>1. j = i
        BY <3>1, <1>4, <1>1, PlaceIs
      <4>2. callback \notin called
        BY <1>9, <1>4, <1>2 DEF IInv, Course
      <4> QED BY <4>1, <4>2, <1>4, <1>8
    <3>2. CASE callbacks[j].n > callback
      <4>1. callbacks[j].n \in called <=> Chosen(callbacks[j])
        BY <3>2, <2>4, <1>9 DEF IInv, Course
      <4>2. callbacks[j].n # callback
        BY <3>2, <1>2, <1>4
      <4> QED BY <4>1, <4>2, <1>8
    <3> QED BY <3>1, <3>2, <2>4, <1>5, <1>4, <1>2
  <2>5. \A y : Chosen(y)' <=> Chosen(y)
    BY <1>3 DEF Chosen, Request
  <2>6. pc' = "method" => next' < callback'
    BY <1>5, <1>8
  <2>7. callbacks' = callbacks /\ registered' = registered
    BY <1>3
  <2> QED BY <2>1, <2>2, <2>3, <2>4, <2>5, <2>6, <2>7, <1>9 DEF Course
<1>14. Alive'
  BY <1>3, <1>5, <1>9 DEF Alive, Names
<1>15. RemoveIsSafe'
  BY <1>3 DEF IInv, RemoveIsSafe
<1> QED BY <1>11, <1>12, <1>13, <1>14, <1>15 DEF IInv

\* The other steps of the loop, and the halt.
LEMMA OtherSteps == ASSUME IInv,
                           \/ fts_sched_halt \/ SchedStop \/ VisitFreed \/ MethodEnd
                           \/ (WalkEnd /\ pass # "select") \/ UNCHANGED vars
                    PROVE  IInv'
<1>1. /\ UNCHANGED <<callbacks, pass, next, ready, added, registered, called, others>>
      /\ callback' = IF pc = "method" /\ pc' = "walk" THEN next ELSE callback
      /\ pc' = pc \/ pc' \in {"select", "done"} \/ (pc = "method" /\ pc' = "walk")
      /\ status' \in {"ready", "halted"}
      /\ pc' \in {"select", "walk", "method", "done"}
  BY DEF IInv, Types, fts_sched_halt, SchedStop, VisitFreed, MethodEnd, WalkEnd, Visiting, vars
<1>2. dangling' = dangling \/ dangling' = TRUE
  BY DEF fts_sched_halt, SchedStop, VisitFreed, MethodEnd, WalkEnd, vars
<1>3. dangling' => dangling \/ (pc = "walk" /\ callback # Nil /\ callback \notin Names)
  BY DEF fts_sched_halt, SchedStop, VisitFreed, MethodEnd, WalkEnd, vars, Visiting
<1>4. Types'
  <2>1. dangling' \in BOOLEAN
    BY <1>2 DEF IInv, Types
  <2>2. callback' \in 0 .. MaxCallbacks
    BY <1>1 DEF IInv, Types
  <2> QED BY <1>1, <2>1, <2>2 DEF IInv, Types
<1>5. Numbered' /\ Seen'
  BY <1>1 DEF IInv, Numbered, Seen
<1>6. Underway' => Underway /\ Cursor' = Cursor
  BY <1>1 DEF Underway, Cursor
<1>7. pc' = "method" => pc = "method" /\ callback' = callback
  BY <1>1
<1>8. Course'
  <2>1. \A y : Chosen(y)' <=> Chosen(y)
    BY <1>1 DEF Chosen, Request
  <2> QED BY <2>1, <1>1, <1>6, <1>7 DEF IInv, Course
<1>9. Alive'
  BY <1>1, <1>6 DEF IInv, Alive, Names
<1>10. RemoveIsSafe'
  BY <1>1, <1>3 DEF IInv, RemoveIsSafe, Alive, Underway, Cursor
<1> QED BY <1>4, <1>5, <1>8, <1>9, <1>10 DEF IInv


\* What select finds ready is among what it was asked about (compute_fds).
LEMMA WatchedType == ASSUME callbacks \in Seq(Cb)
                     PROVE  Watched \subseteq {"read", "write"} \X Fds
<1>1. \A i \in DOMAIN callbacks : callbacks[i] \in Cb
  BY NamesOf
<1> QED BY <1>1, CbFields DEF Watched

\* Every step keeps the invariant.
LEMMA NextIInv == IInv /\ [Next]_vars => IInv'
<1> SUFFICES ASSUME IInv, [Next]_vars PROVE IInv'
  OBVIOUS
<1>1. CASE Method
  <2>1. PICK o \in Objects : \/ fts_sched_add(o, "always", NoFd)
                             \/ \E fd \in Fds, f \in {"read", "write"} : fts_sched_add(o, f, fd)
                             \/ fts_sched_remove(o)
    BY <1>1 DEF Method
  <2>2. CASE fts_sched_add(o, "always", NoFd)
    BY <2>2, AddStep
  <2>3. CASE \E fd \in Fds, f \in {"read", "write"} : fts_sched_add(o, f, fd)
    <3>1. PICK fd \in Fds, f \in {"read", "write"} : fts_sched_add(o, f, fd)
      BY <2>3
    <3> QED BY <3>1, AddStep
  <2>4. CASE fts_sched_remove(o)
    BY <2>4, RemoveStep
  <2> QED BY <2>1, <2>2, <2>3, <2>4
<1>2. CASE fts_sched_do_select
  <2>1. ready' \subseteq {"read", "write"} \X Fds
    BY <1>2, WatchedType DEF fts_sched_do_select, IInv, Types
  <2>2. /\ Walk("always") \/ Walk("select")
        /\ UNCHANGED <<callbacks, status, next, added, dangling, others>>
    BY <1>2 DEF fts_sched_do_select
  <2> QED BY <2>1, <2>2, WalkStep
<1>3. CASE WalkEnd /\ pass = "select"
  <2>1. /\ Walk("always")
        /\ UNCHANGED <<callbacks, status, next, added, dangling, others, ready>>
    BY <1>3 DEF WalkEnd
  <2>2. ready' \subseteq {"read", "write"} \X Fds
    BY <2>1 DEF IInv, Types
  <2> QED BY <2>1, <2>2, WalkStep
<1>4. CASE Visit
  BY <1>4, VisitStep
<1>5. CASE \/ fts_sched_halt \/ SchedStop \/ VisitFreed \/ MethodEnd
           \/ (WalkEnd /\ pass # "select") \/ UNCHANGED vars
  BY <1>5, OtherSteps
<1> QED BY <1>1, <1>2, <1>3, <1>4, <1>5 DEF Next, Loop

\* The invariant of the scheduler loop holds.
THEOREM Invariance == Spec => []IInv
BY InitIInv, NextIInv, PTL DEF Spec

-----------------------------------------------------------------------------
(* The properties.                                                          *)

\* The list, the cursor of the walk and the descriptors select found have the
\* values the loop of fts_sched_run may give them.
THEOREM TypeCorrect == Spec => []TypeOK
<1>1. IInv => TypeOK
  <2> SUFFICES ASSUME IInv PROVE TypeOK
    OBVIOUS
  <2>1. \A i \in DOMAIN callbacks : callbacks[i] \in Cb
    BY NamesOf DEF IInv, Types
  <2>2. Cb \subseteq [n : 1 .. MaxCallbacks, object : Objects,
                      flags : {"read", "write", "always"}, fd : Fds \cup {NoFd}]
    BY DEF Cb
  <2>3. registered \subseteq 1 .. MaxCallbacks /\ called \subseteq 1 .. MaxCallbacks
    BY SchedAssumption DEF IInv, Types, Numbered, Course
  <2> QED BY <2>1, <2>2, <2>3 DEF IInv, Types, TypeOK
<1> QED BY <1>1, Invariance, PTL

\* The loop of run_select and run_always follows no freed callback as long as
\* methods remove no callback but their own.
THEOREM RemoveIsSafeThm == Spec => []RemoveIsSafe
<1>1. IInv => RemoveIsSafe
  BY DEF IInv
<1> QED BY <1>1, Invariance, PTL

\* A walk calls, of the callbacks it began with and that are still there, those
\* it should and each of them once, whatever the methods add and remove.
THEOREM OnceEachThm == Spec => OnceEach
<1>1. ASSUME IInv, [Next]_vars
      PROVE  [/\ pc = "walk" /\ pc' = "method" => callback \in registered \ called
              /\ WalkEnd => \A n \in registered \cap Names :
                               n \in called <=> Chosen(Callback(n))]_vars
  <2>1. ASSUME pc = "walk", pc' = "method" PROVE callback \in registered \ called
    <3>1. callback \in Names
      BY <1>1, <2>1 DEF Next, Method, fts_sched_add, fts_sched_remove, fts_sched_halt, Loop,
           fts_sched_do_select, SchedStop, Visit, VisitFreed, MethodEnd, WalkEnd, Walk, vars
    <3>2. PICK i \in 1 .. Len(callbacks) : callbacks[i].n = callback /\ callbacks[i] \in Cb
      BY <3>1, <1>1, NamesOf DEF IInv, Types
    <3>3. callback \in Nat /\ callback > 0
      BY <3>2, CbFields
    <3>4. Cursor = callback /\ Underway
      BY <2>1 DEF Cursor, Underway
    <3> QED BY <3>3, <3>4, <1>1 DEF IInv, Course, Nil
  <2>2. ASSUME WalkEnd, NEW n \in registered \cap Names
        PROVE  n \in called <=> Chosen(Callback(n))
    <3>1. PICK i \in 1 .. Len(callbacks) : callbacks[i].n = n /\ callbacks[i] \in Cb
      BY <2>2, <1>1, NamesOf DEF IInv, Types
    <3>2. Callback(n) = callbacks[i]
      BY <3>1, <1>1, PlaceIs DEF IInv, Types, Numbered
    <3>3. Cursor = 0 /\ Underway
      BY <2>2 DEF WalkEnd, Visiting, Cursor, Underway, Nil
    <3>4. callbacks[i].n > 0
      BY <3>1, CbFields
    <3> QED BY <3>1, <3>2, <3>3, <3>4, <2>2, <1>1 DEF IInv, Course
  <2> QED BY <2>1, <2>2
<1> QED BY <1>1, Invariance, PTL DEF Spec, OnceEach
=============================================================================
