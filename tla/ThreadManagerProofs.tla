------------------------- MODULE ThreadManagerProofs -------------------------
(***************************************************************************)
(* Proofs about ThreadManager: for every number of workers and threads and  *)
(* every capacity of the fifos, users that wait until their last request is *)
(* settled never get two threads for a worker and never free a worker that  *)
(* is still in use; and if the fifos and the system have room for every     *)
(* worker, a cancellation reaches the thread it was meant for.              *)
(***************************************************************************)
EXTENDS ThreadManager, FiniteSetTheorems, SequenceTheorems, TLAPS

-----------------------------------------------------------------------------
(* The inductive invariant.                                                 *)

\* Where a request of worker w is: in the handler, in a fifo or in the hands
\* of the manager.
Asking(w)   == client = w /\ todo \in {<<"alive", "create">>, <<"create">>}
Starting(w) == mpc = "start" /\ inhand = w
Rising(w)   == Asking(w) \/ Contains(create_fifo, w) \/ Starting(w)

Closing(w)  == client = w /\ todo \in {<<"dead", "cancel">>, <<"cancel">>}
Killing(w)  == mpc = "kill" /\ inhand = w
Falling(w)  == Closing(w) \/ Contains(cancel_fifo, w) \/ Killing(w)

Freeing(w)  == client = w /\ todo = <<"free">>

\* A handler is about a worker, and the manager holds one while it serves a
\* request, and only then.
InHand == /\ todo # <<>> => client \in Workers
          /\ IF mpc \in {"start", "kill"} THEN inhand \in Workers ELSE inhand = None

\* No worker is in the fifo twice.
Distinct(s) == \A i, j \in 1 .. Len(s) : s[i] = s[j] => i = j

\* A request to create: the file is open, there is no thread yet, and there
\* is one such request only.
RisesOnce(w) == /\ Rising(w) => is_open[w] /\ Live(w) = {}
                /\ ~(Asking(w) /\ Contains(create_fifo, w))
                /\ ~(Asking(w) /\ Starting(w))
                /\ ~(Contains(create_fifo, w) /\ Starting(w))

\* A request to cancel: the file is closed, and there is one request only.
FallsOnce(w) == /\ Falling(w) => ~is_open[w]
                /\ ~(Closing(w) /\ Contains(cancel_fifo, w))
                /\ ~(Closing(w) /\ Killing(w))
                /\ ~(Contains(cancel_fifo, w) /\ Killing(w))

\* A worker that is being freed or was freed is out of use.
Unused(w) == Freeing(w) \/ w \in freed => ~is_open[w] /\ Live(w) = {} /\ ~Falling(w)

\* A worker has one thread.
Single(w) == \A t, u \in Live(w) : t = u

\* What a handler may have left to do in a calm environment.
Plans == {<<>>, <<"alive", "create">>, <<"create">>, <<"dead", "cancel">>, <<"cancel">>,
          <<"free">>}

Orderly == /\ todo \in Plans
           /\ Distinct(create_fifo) /\ Distinct(cancel_fifo)
           /\ \A w \in Workers : RisesOnce(w) /\ FallsOnce(w) /\ Unused(w) /\ Single(w)

IInv == TypeOK /\ InHand /\ (calm => Orderly)

\* The fifos and the system have room for every worker.
Roomy == /\ IsFiniteSet(Workers) /\ IsFiniteSet(Tids)
         /\ Cardinality(Workers) <= Capacity
         /\ Cardinality(Workers) <= Cardinality(Tids)

\* The identifier in a worker is that of its thread as long as it is open or
\* its cancellation is under way, and no thread is doomed before.
Aimed(w) == /\ is_open[w] /\ ~Rising(w) => Live(w) # {}
            /\ Falling(w) => Live(w) # {}
            /\ Live(w) # {} => id[w] \in Live(w)
            /\ \A t \in Live(w) : t \in doomed => ~is_open[w] /\ ~Falling(w)

AllAimed == calm => /\ \A t \in doomed : owner[t] # None
                    /\ \A w \in Workers : Aimed(w)

-----------------------------------------------------------------------------
(* The fifos.                                                               *)

\* A request is put in the fifo, or dropped when there is no room.
LEMMA PutFacts ==
  ASSUME NEW s \in Seq(Workers), Len(s) <= Capacity, client \in Workers
  PROVE  /\ Put(s) \in Seq(Workers) /\ Len(Put(s)) <= Capacity
         /\ \A w : Contains(Put(s), w) => Contains(s, w) \/ w = client
         /\ \A w : Contains(s, w) => Contains(Put(s), w)
         /\ Len(s) < Capacity => Contains(Put(s), client)
         /\ Distinct(s) /\ ~Contains(s, client) => Distinct(Put(s))
<1>1. CASE Len(s) < Capacity
  <2> DEFINE t == Append(s, client)
  <2>1. /\ t \in Seq(Workers) /\ Len(t) = Len(s) + 1 /\ Len(s) \in Nat /\ Capacity \in Nat
        /\ \A i \in 1 .. Len(s) : t[i] = s[i]
        /\ t[Len(s) + 1] = client
    BY AppendProperties, ManagerAssumption
  <2>2. Put(s) = t
    BY <1>1 DEF Put
  <2> HIDE DEF t
  <2>3. \A i \in 1 .. Len(t) : i \in 1 .. Len(s) \/ i = Len(s) + 1
    BY <2>1
  <2>4. \A w : Contains(t, w) => Contains(s, w) \/ w = client
    BY <2>1, <2>3 DEF Contains
  <2>5. \A w : Contains(s, w) => Contains(t, w)
    BY <2>1 DEF Contains
  <2>6. Contains(t, client)
    BY <2>1 DEF Contains
  <2>7. Distinct(s) /\ ~Contains(s, client) => Distinct(t)
    <3> SUFFICES ASSUME Distinct(s), ~Contains(s, client),
                        NEW i \in 1 .. Len(t), NEW j \in 1 .. Len(t), t[i] = t[j]
                 PROVE  i = j
      BY DEF Distinct
    <3>1. \A k \in 1 .. Len(s) : t[k] = s[k] /\ s[k] # client
      BY <2>1 DEF Contains
    <3>2. CASE i \in 1 .. Len(s) /\ j \in 1 .. Len(s)
      BY <3>1, <3>2 DEF Distinct
    <3>3. CASE i = Len(s) + 1 /\ j \in 1 .. Len(s)
      BY <2>1, <3>1, <3>3
    <3>4. CASE i \in 1 .. Len(s) /\ j = Len(s) + 1
      BY <2>1, <3>1, <3>4
    <3> QED BY <2>3, <3>2, <3>3, <3>4
  <2> QED BY <1>1, <2>1, <2>2, <2>4, <2>5, <2>6, <2>7
<1>2. CASE ~(Len(s) < Capacity)
  BY <1>2 DEF Put
<1> QED BY <1>1, <1>2

\* The oldest request is taken out of the fifo.
LEMMA TakeFacts ==
  ASSUME NEW s \in Seq(Workers), s # <<>>
  PROVE  /\ Head(s) \in Workers /\ Tail(s) \in Seq(Workers) /\ Len(Tail(s)) <= Len(s)
         /\ Contains(s, Head(s))
         /\ \A w : Contains(Tail(s), w) => Contains(s, w)
         /\ \A w : Contains(s, w) => w = Head(s) \/ Contains(Tail(s), w)
         /\ Distinct(s) => Distinct(Tail(s)) /\ ~Contains(Tail(s), Head(s))
<1> DEFINE t == Tail(s)
           h == Head(s)
<1>1. /\ h \in Workers /\ h = s[1] /\ t \in Seq(Workers)
      /\ Len(s) \in Nat /\ Len(s) >= 1 /\ Len(t) = Len(s) - 1
      /\ \A i \in 1 .. Len(s) - 1 : t[i] = s[i + 1]
  BY HeadTailProperties, EmptySeq
<1> HIDE DEF t, h
<1>2. Contains(s, h)
  BY <1>1 DEF Contains
<1>3. \A i \in 1 .. Len(t) : i + 1 \in 1 .. Len(s) /\ t[i] = s[i + 1] /\ i \in Nat
  BY <1>1
<1>4. \A w : Contains(t, w) => Contains(s, w)
  BY <1>3 DEF Contains
<1>5. \A i \in 1 .. Len(s) : i = 1 \/ (i - 1 \in 1 .. Len(t) /\ s[i] = t[i - 1])
  BY <1>1
<1>6. \A w : Contains(s, w) => w = h \/ Contains(t, w)
  BY <1>1, <1>5 DEF Contains
<1>7. ASSUME Distinct(s) PROVE Distinct(t) /\ ~Contains(t, h)
  <2>1. ASSUME NEW i \in 1 .. Len(t), NEW j \in 1 .. Len(t), t[i] = t[j] PROVE i = j
    <3>1. i + 1 = j + 1
      BY <1>3, <1>7, <2>1 DEF Distinct
    <3> QED BY <1>3, <3>1
  <2>2. ASSUME NEW i \in 1 .. Len(t), t[i] = h PROVE FALSE
    <3>1. 1 \in 1 .. Len(s) /\ i + 1 \in 1 .. Len(s) /\ s[i + 1] = s[1]
      BY <1>1, <1>3, <2>2
    <3>2. i + 1 = 1
      BY <1>7, <3>1 DEF Distinct
    <3> QED BY <1>3, <3>2
  <2> QED BY <2>1, <2>2 DEF Distinct, Contains
<1> QED BY <1>1, <1>2, <1>4, <1>6, <1>7 DEF t, h

-----------------------------------------------------------------------------
(* Types, in every environment.                                             *)

\* The values of the handler, the manager and the threads keep their types.
LEMMA TypeStep == ASSUME TypeOK, InHand, [Next]_vars PROVE TypeOK' /\ InHand'
<1> USE DEF ftsVars, threadVars
<1>1. CASE UNCHANGED vars
  BY <1>1 DEF vars, TypeOK, InHand
<1>2. ASSUME NEW w \in Workers, Open(w) \/ Close(w) \/ Delete(w)
      PROVE  TypeOK' /\ InHand'
  <2>1. PICK steps : Begin(w, steps)
    BY <1>2 DEF Open, Close, Delete
  <2>2. /\ client' = w /\ requests' = requests + 1
        /\ UNCHANGED <<calm, create_fifo, cancel_fifo, is_dead, id, freed, mpc, inhand,
                       owner, tpc, doomed>>
    BY <2>1 DEF Begin
  <2>3. todo' \in Seq({"alive", "dead", "create", "cancel", "free"})
    <3> DEFINE Steps == {"alive", "dead", "create", "cancel", "free"}
    <3>1. todo' \in {<<"dead", "cancel", "alive", "create">>, <<"alive", "create">>,
                     <<"dead", "cancel">>, <<"dead", "cancel", "free">>, <<"free">>}
      BY <1>2 DEF Open, Close, Delete, Begin
    <3>2. /\ <<"dead", "cancel", "alive", "create">> \in Seq(Steps)
          /\ <<"dead", "cancel", "free">> \in Seq(Steps)
      OBVIOUS
    <3>3. /\ <<"alive", "create">> \in Seq(Steps)
          /\ <<"dead", "cancel">> \in Seq(Steps)
          /\ <<"free">> \in Seq(Steps)
      OBVIOUS
    <3> QED BY ONLY <3>1, <3>2, <3>3, Zenon
  <2>4. is_open' \in [Workers -> BOOLEAN]
    BY <1>2 DEF Open, Close, Delete, TypeOK
  <2>5. TypeOK'
    BY <2>2, <2>3, <2>4 DEF TypeOK
  <2> QED BY <2>2, <2>5 DEF InHand
<1>3. CASE Handler
  <2>1. todo # <<>> /\ todo' = Tail(todo) /\ client \in Workers
    BY <1>3 DEF Handler, MarkAlive, MarkDead, PutCreate, PutCancel, FreeWorker, Step, InHand
  <2>2. todo' \in Seq({"alive", "dead", "create", "cancel", "free"})
    BY <2>1, HeadTailProperties DEF TypeOK
  <2>3. UNCHANGED <<calm, client, requests, mpc, inhand, is_open, id, owner, tpc, doomed>>
    BY <1>3 DEF Handler, MarkAlive, MarkDead, PutCreate, PutCancel, FreeWorker
  <2>4. is_dead' \in [Workers -> BOOLEAN] /\ freed' \subseteq Workers
    BY <1>3, <2>1 DEF Handler, MarkAlive, MarkDead, PutCreate, PutCancel, FreeWorker, TypeOK
  <2>5. create_fifo' \in Seq(Workers) /\ Len(create_fifo') <= Capacity
    BY <1>3, <2>1, PutFacts
       DEF Handler, MarkAlive, MarkDead, PutCreate, PutCancel, FreeWorker, TypeOK
  <2>6. cancel_fifo' \in Seq(Workers) /\ Len(cancel_fifo') <= Capacity
    BY <1>3, <2>1, PutFacts
       DEF Handler, MarkAlive, MarkDead, PutCreate, PutCancel, FreeWorker, TypeOK
  <2>7. TypeOK'
    BY <2>2, <2>3, <2>4, <2>5, <2>6 DEF TypeOK
  <2> QED BY <2>1, <2>3, <2>7 DEF InHand
<1>4. CASE TakeCreate
  <2>1. /\ create_fifo' \in Seq(Workers) /\ Len(create_fifo') <= Capacity
        /\ IF create_fifo # <<>> THEN mpc' = "start" /\ inhand' \in Workers
           ELSE mpc' = "cancel" /\ inhand' = inhand
    <3>1. Capacity \in Nat /\ create_fifo \in Seq(Workers) /\ Len(create_fifo) <= Capacity
      BY ManagerAssumption DEF TypeOK
    <3>2. CASE create_fifo # <<>>
      <4>1. /\ Head(create_fifo) \in Workers /\ Tail(create_fifo) \in Seq(Workers)
            /\ Len(Tail(create_fifo)) <= Len(create_fifo) /\ Len(Tail(create_fifo)) \in Nat
            /\ Len(create_fifo) \in Nat
        BY <3>1, <3>2, TakeFacts, LenProperties
      <4>2. inhand' = Head(create_fifo) /\ create_fifo' = Tail(create_fifo) /\ mpc' = "start"
        BY <1>4, <3>2 DEF TakeCreate
      <4> QED BY <3>1, <3>2, <4>1, <4>2
    <3>3. CASE create_fifo = <<>>
      BY <1>4, <3>1, <3>3 DEF TakeCreate
    <3> QED BY <3>2, <3>3
  <2>2. /\ mpc = "create"
        /\ UNCHANGED <<cancel_fifo, is_dead, id, calm, is_open, freed, todo, client, requests,
                       owner, tpc, doomed>>
    BY <1>4 DEF TakeCreate
  <2> QED BY <2>1, <2>2 DEF TypeOK, InHand
<1>5. CASE TakeCancel
  <2>1. /\ cancel_fifo' \in Seq(Workers) /\ Len(cancel_fifo') <= Capacity
        /\ IF cancel_fifo # <<>> THEN mpc' = "kill" /\ inhand' \in Workers
           ELSE mpc' = "create" /\ inhand' = inhand
    <3>1. Capacity \in Nat /\ cancel_fifo \in Seq(Workers) /\ Len(cancel_fifo) <= Capacity
      BY ManagerAssumption DEF TypeOK
    <3>2. CASE cancel_fifo # <<>>
      <4>1. /\ Head(cancel_fifo) \in Workers /\ Tail(cancel_fifo) \in Seq(Workers)
            /\ Len(Tail(cancel_fifo)) <= Len(cancel_fifo) /\ Len(Tail(cancel_fifo)) \in Nat
            /\ Len(cancel_fifo) \in Nat
        BY <3>1, <3>2, TakeFacts, LenProperties
      <4>2. inhand' = Head(cancel_fifo) /\ cancel_fifo' = Tail(cancel_fifo) /\ mpc' = "kill"
        BY <1>5, <3>2 DEF TakeCancel
      <4> QED BY <3>1, <3>2, <4>1, <4>2
    <3>3. CASE cancel_fifo = <<>>
      BY <1>5, <3>1, <3>3 DEF TakeCancel
    <3> QED BY <3>2, <3>3
  <2>2. /\ mpc = "cancel"
        /\ UNCHANGED <<create_fifo, is_dead, id, calm, is_open, freed, todo, client, requests,
                       owner, tpc, doomed>>
    BY <1>5 DEF TakeCancel
  <2> QED BY <2>1, <2>2 DEF TypeOK, InHand
<1>6. CASE StartThread \/ StartFails
  <2>1. /\ mpc' = "cancel" /\ inhand' = None
        /\ UNCHANGED <<create_fifo, cancel_fifo, is_dead, ftsVars, doomed>>
    BY <1>6 DEF StartThread, StartFails
  <2>2. inhand \in Workers
    BY <1>6 DEF StartThread, StartFails, InHand
  <2>3. /\ id' \in [Workers -> Tids \cup {None}]
        /\ owner' \in [Tids -> Workers \cup {None}]
        /\ tpc' \in [Tids -> {"test", "method", "sleep"}]
    <3>1. CASE StartThread
      <4>1. PICK t \in Tids : /\ id' = [id EXCEPT ![inhand] = t]
                              /\ owner' = [owner EXCEPT ![t] = inhand]
                              /\ tpc' = [tpc EXCEPT ![t] = "test"]
        BY <3>1 DEF StartThread
      <4> QED BY <2>2, <4>1 DEF TypeOK
    <3>2. CASE StartFails
      <4>1. PICK t \in Tids \cup {None} : id' = [id EXCEPT ![inhand] = t]
        BY <3>2 DEF StartFails
      <4>2. id' \in [Workers -> Tids \cup {None}]
        BY <2>2, <4>1 DEF TypeOK
      <4> QED BY <3>2, <4>2 DEF StartFails, TypeOK
    <3> QED BY <1>6, <3>1, <3>2
  <2> QED BY <2>1, <2>3 DEF TypeOK, InHand
<1>7. CASE CancelThread
  <2>1. /\ mpc' = "create" /\ inhand' = None /\ doomed' \subseteq Tids
        /\ UNCHANGED <<create_fifo, cancel_fifo, is_dead, id, ftsVars, owner, tpc>>
    BY <1>7 DEF CancelThread, TypeOK
  <2> QED BY <2>1 DEF TypeOK, InHand
<1>8. ASSUME NEW t \in Tids, Thread(t)
      PROVE  TypeOK' /\ InHand'
  <2>1. UNCHANGED <<create_fifo, cancel_fifo, is_dead, id, ftsVars, mpc, inhand>>
    BY <1>8 DEF Thread, TestDead, MethodDone, WakeUp, Die
  <2>2. /\ owner' \in [Tids -> Workers \cup {None}]
        /\ tpc' \in [Tids -> {"test", "method", "sleep"}] /\ doomed' \subseteq Tids
    BY <1>8 DEF Thread, TestDead, MethodDone, WakeUp, Die, TypeOK
  <2> QED BY <2>1, <2>2 DEF TypeOK, InHand
<1> QED BY <1>1, <1>2, <1>3, <1>4, <1>5, <1>6, <1>7, <1>8 DEF Next, User, Manager

-----------------------------------------------------------------------------
(* Order, in a calm environment: one lemma per action.                      *)

\* The plans differ, and the next step tells which one it is.
LEMMA PlanFacts ==
  /\ <<"alive", "create">> \notin {<<>>, <<"create">>, <<"dead", "cancel">>, <<"cancel">>,
                                   <<"free">>}
  /\ <<"dead", "cancel">> \notin {<<>>, <<"create">>, <<"cancel">>, <<"free">>}
  /\ <<"create">> \notin {<<>>, <<"cancel">>, <<"free">>}
  /\ <<"cancel">> \notin {<<>>, <<"free">>}
  /\ <<"free">> # <<>>
OBVIOUS

\* A step of the handler.
LEMMA StepFacts ==
  ASSUME todo \in Plans
  PROVE  /\ Step("alive") => todo = <<"alive", "create">> /\ todo' = <<"create">>
         /\ Step("create") => todo = <<"create">> /\ todo' = <<>>
         /\ Step("dead") => todo = <<"dead", "cancel">> /\ todo' = <<"cancel">>
         /\ Step("cancel") => todo = <<"cancel">> /\ todo' = <<>>
         /\ Step("free") => todo = <<"free">> /\ todo' = <<>>
<1>1. CASE todo = <<>>
  BY <1>1 DEF Step
<1>2. CASE todo = <<"alive", "create">>
  BY <1>2 DEF Step
<1>3. CASE todo = <<"dead", "cancel">>
  BY <1>3 DEF Step
<1>4. CASE todo = <<"create">>
  BY <1>4 DEF Step
<1>5. CASE todo = <<"cancel">>
  BY <1>5 DEF Step
<1>6. CASE todo = <<"free">>
  BY <1>6 DEF Step
<1> QED BY <1>1, <1>2, <1>3, <1>4, <1>5, <1>6 DEF Plans

\* A user begins a handler: its last request is settled.
LEMMA UserOrderly ==
  ASSUME TypeOK, InHand, calm, Orderly, NEW w \in Workers, Open(w) \/ Close(w) \/ Delete(w)
  PROVE  Orderly'
<1>1. /\ todo = <<>> /\ w \notin freed /\ Settled(w) /\ client' = w
      /\ UNCHANGED <<calm, create_fifo, cancel_fifo, id, freed, mpc, inhand, owner>>
  BY DEF Open, Close, Delete, Begin, threadVars
<1>2. \A v : Live(v)' = Live(v)
  BY <1>1 DEF Live
<1>3. \/ ~is_open[w] /\ is_open'[w] /\ todo' = <<"alive", "create">>
      \/ is_open[w] /\ ~is_open'[w] /\ todo' = <<"dead", "cancel">>
      \/ ~is_open[w] /\ ~is_open'[w] /\ todo' = <<"free">>
  BY DEF Open, Close, Delete, Begin, TypeOK
<1>4. \A v \in Workers \ {w} : is_open'[v] = is_open[v]
  BY DEF Open, Close, Delete, TypeOK
<1>5. todo' \in Plans
  BY <1>3 DEF Plans
<1>6. ASSUME NEW v \in Workers
      PROVE  (RisesOnce(v) /\ FallsOnce(v) /\ Unused(v) /\ Single(v))'
  <2>1. RisesOnce(v) /\ FallsOnce(v) /\ Unused(v) /\ Single(v)
    BY DEF Orderly
  <2>2. /\ ~Asking(v) /\ ~Closing(v) /\ ~Freeing(v)
    BY <1>1, PlanFacts DEF Asking, Closing, Freeing
  <2>3. /\ Starting(v)' <=> Starting(v)
        /\ Killing(v)' <=> Killing(v)
        /\ Contains(create_fifo, v)' <=> Contains(create_fifo, v)
        /\ Contains(cancel_fifo, v)' <=> Contains(cancel_fifo, v)
        /\ (v \in freed)' <=> v \in freed
        /\ Single(v)'
    BY <1>1, <1>2, <2>1 DEF Starting, Killing, Single
  <2>4. CASE v # w
    <3>1. ~Asking(v)' /\ ~Closing(v)' /\ ~Freeing(v)'
      BY <1>1, <2>4 DEF Asking, Closing, Freeing
    <3> QED BY <1>2, <1>4, <2>1, <2>2, <2>3, <2>4, <3>1
            DEF RisesOnce, FallsOnce, Unused, Rising, Falling
  <2>5. CASE v = w
    <3>1. /\ ~Contains(create_fifo, v) /\ ~Contains(cancel_fifo, v)
          /\ ~Starting(v) /\ ~Killing(v) /\ v \notin freed
          /\ ~is_open[v] => Live(v) = {}
      BY <1>1, <2>5 DEF Settled, Starting, Killing
    <3>2. /\ Asking(v)' => is_open'[v] /\ ~is_open[v]
          /\ Closing(v)' => ~is_open'[v]
          /\ Freeing(v)' => ~is_open[v] /\ ~is_open'[v] /\ ~Closing(v)'
      BY <1>3, <2>5, PlanFacts DEF Asking, Closing, Freeing
    <3> QED BY <1>2, <2>3, <3>1, <3>2 DEF RisesOnce, FallsOnce, Unused, Rising, Falling
  <2> QED BY <2>4, <2>5
<1> QED BY <1>1, <1>5, <1>6 DEF Orderly

\* The handler goes on: a request moves into its fifo or is dropped there,
\* and a worker is freed when nothing of it is left.
LEMMA HandlerOrderly ==
  ASSUME TypeOK, InHand, calm, Orderly, Handler
  PROVE  Orderly'
<1>1. /\ todo \in Plans /\ client \in Workers
      /\ UNCHANGED <<calm, client, is_open, mpc, inhand, owner, id>>
  BY DEF Handler, MarkAlive, MarkDead, PutCreate, PutCancel, FreeWorker, Step, InHand,
         Orderly, threadVars
<1>2. \A v : Live(v)' = Live(v)
  BY <1>1 DEF Live
<1>3. ASSUME NEW v \in Workers
      PROVE  /\ RisesOnce(v) /\ FallsOnce(v) /\ Unused(v) /\ Single(v)
             /\ Starting(v)' <=> Starting(v)
             /\ Killing(v)' <=> Killing(v)
             /\ Single(v)'
             /\ is_open'[v] = is_open[v]
  BY <1>1, <1>2 DEF Orderly, Starting, Killing, Single
<1> DEFINE Kept(v) == RisesOnce(v)' /\ FallsOnce(v)' /\ Unused(v)'
<1>4. CASE MarkAlive \/ MarkDead
  <2>1. /\ UNCHANGED <<create_fifo, cancel_fifo, freed>>
        /\ \/ todo = <<"alive", "create">> /\ todo' = <<"create">>
           \/ todo = <<"dead", "cancel">> /\ todo' = <<"cancel">>
    BY <1>1, <1>4, StepFacts DEF MarkAlive, MarkDead
  <2>2. ASSUME NEW v \in Workers PROVE Kept(v)
    <3>1. /\ Asking(v)' <=> Asking(v)
          /\ Closing(v)' <=> Closing(v)
          /\ ~Freeing(v)'
      BY <1>1, <2>1, PlanFacts DEF Asking, Closing, Freeing
    <3> QED BY <1>2, <1>3, <2>1, <3>1 DEF RisesOnce, FallsOnce, Unused, Rising, Falling
  <2> QED BY <1>3, <2>1, <2>2 DEF Orderly, Plans
<1>5. CASE PutCreate
  <2>1. /\ UNCHANGED <<cancel_fifo, freed>> /\ create_fifo' = Put(create_fifo)
        /\ todo = <<"create">> /\ todo' = <<>>
    BY <1>1, <1>5, StepFacts DEF PutCreate
  <2>2. Asking(client)
    BY <2>1 DEF Asking
  <2>3. /\ Distinct(create_fifo')
        /\ \A v : Contains(create_fifo', v) => Contains(create_fifo, v) \/ v = client
    <3>1. create_fifo \in Seq(Workers) /\ Len(create_fifo) <= Capacity
      BY DEF TypeOK
    <3>2. Distinct(create_fifo) /\ ~Contains(create_fifo, client)
      BY <1>1, <1>3, <2>2 DEF Orderly, RisesOnce
    <3> QED BY <1>1, <2>1, <3>1, <3>2, PutFacts
  <2>4. ASSUME NEW v \in Workers PROVE Kept(v)
    <3>1. ~Asking(v)' /\ ~Closing(v)' /\ ~Freeing(v)'
      BY <2>1, PlanFacts DEF Asking, Closing, Freeing
    <3>2. Contains(create_fifo, v)' => Contains(create_fifo, v) \/ Asking(v)
      BY <2>2, <2>3
    <3> QED BY <1>2, <1>3, <2>1, <3>1, <3>2 DEF RisesOnce, FallsOnce, Unused, Rising, Falling
  <2> QED BY <1>3, <2>1, <2>3, <2>4 DEF Orderly, Plans
<1>6. CASE PutCancel
  <2>1. /\ UNCHANGED <<create_fifo, freed>> /\ cancel_fifo' = Put(cancel_fifo)
        /\ todo = <<"cancel">> /\ todo' = <<>>
    BY <1>1, <1>6, StepFacts DEF PutCancel
  <2>2. Closing(client)
    BY <2>1 DEF Closing
  <2>3. /\ Distinct(cancel_fifo')
        /\ \A v : Contains(cancel_fifo', v) => Contains(cancel_fifo, v) \/ v = client
    <3>1. cancel_fifo \in Seq(Workers) /\ Len(cancel_fifo) <= Capacity
      BY DEF TypeOK
    <3>2. Distinct(cancel_fifo) /\ ~Contains(cancel_fifo, client)
      BY <1>1, <1>3, <2>2 DEF Orderly, FallsOnce
    <3> QED BY <1>1, <2>1, <3>1, <3>2, PutFacts
  <2>4. ASSUME NEW v \in Workers PROVE Kept(v)
    <3>1. ~Asking(v)' /\ ~Closing(v)' /\ ~Freeing(v)'
      BY <2>1, PlanFacts DEF Asking, Closing, Freeing
    <3>2. Contains(cancel_fifo, v)' => Contains(cancel_fifo, v) \/ Closing(v)
      BY <2>2, <2>3
    <3> QED BY <1>2, <1>3, <2>1, <3>1, <3>2 DEF RisesOnce, FallsOnce, Unused, Rising, Falling
  <2> QED BY <1>3, <2>1, <2>3, <2>4 DEF Orderly, Plans
<1>7. CASE FreeWorker
  <2>1. /\ UNCHANGED <<create_fifo, cancel_fifo>> /\ freed' = freed \cup {client}
        /\ todo = <<"free">> /\ todo' = <<>>
    BY <1>1, <1>7, StepFacts DEF FreeWorker
  <2>2. ASSUME NEW v \in Workers PROVE Kept(v)
    <3>1. ~Asking(v)' /\ ~Closing(v)' /\ ~Freeing(v)'
      BY <2>1, PlanFacts DEF Asking, Closing, Freeing
    <3>2. v \in freed' => v \in freed \/ Freeing(v)
      BY <2>1 DEF Freeing
    <3> QED BY <1>2, <1>3, <2>1, <3>1, <3>2 DEF RisesOnce, FallsOnce, Unused, Rising, Falling
  <2> QED BY <1>3, <2>1, <2>2 DEF Orderly, Plans
<1> QED BY <1>4, <1>5, <1>6, <1>7 DEF Handler

\* The manager takes a request out of a fifo.
LEMMA TakeOrderly ==
  ASSUME TypeOK, InHand, calm, Orderly, TakeCreate \/ TakeCancel
  PROVE  Orderly'
<1>1. /\ mpc \in {"create", "cancel"} /\ inhand = None
      /\ UNCHANGED <<calm, client, is_open, todo, freed, owner, id>>
  BY DEF TakeCreate, TakeCancel, InHand, ftsVars, threadVars
<1>2. \A v : Live(v)' = Live(v)
  BY <1>1 DEF Live
<1>3. ASSUME NEW v \in Workers
      PROVE  /\ RisesOnce(v) /\ FallsOnce(v) /\ Unused(v) /\ Single(v)
             /\ Asking(v)' <=> Asking(v)
             /\ Closing(v)' <=> Closing(v)
             /\ Freeing(v)' <=> Freeing(v)
             /\ ~Starting(v) /\ ~Killing(v)
             /\ Single(v)'
             /\ is_open'[v] = is_open[v]
  BY <1>1, <1>2 DEF Orderly, Asking, Closing, Freeing, Starting, Killing, Single
<1>4. CASE UNCHANGED <<create_fifo, cancel_fifo, inhand>> /\ mpc' \in {"create", "cancel"}
  <2>1. ASSUME NEW v \in Workers
        PROVE  (RisesOnce(v) /\ FallsOnce(v) /\ Unused(v))'
    <3>1. ~Starting(v)' /\ ~Killing(v)'
      BY <1>4 DEF Starting, Killing
    <3> QED BY <1>1, <1>2, <1>3, <1>4, <3>1 DEF RisesOnce, FallsOnce, Unused, Rising, Falling
  <2> QED BY <1>1, <1>3, <1>4, <2>1 DEF Orderly
<1>5. CASE TakeCreate /\ create_fifo # <<>>
  <2>1. /\ UNCHANGED cancel_fifo
        /\ inhand' = Head(create_fifo) /\ create_fifo' = Tail(create_fifo) /\ mpc' = "start"
    BY <1>5 DEF TakeCreate
  <2>2. create_fifo \in Seq(Workers) /\ Distinct(create_fifo)
    BY DEF TypeOK, Orderly
  <2>3. /\ Distinct(create_fifo') /\ ~Contains(create_fifo', inhand')
        /\ Contains(create_fifo, inhand')
        /\ \A v : Contains(create_fifo', v) => Contains(create_fifo, v)
    BY <1>5, <2>1, <2>2, TakeFacts
  <2>4. ASSUME NEW v \in Workers
        PROVE  (RisesOnce(v) /\ FallsOnce(v) /\ Unused(v))'
    <3>1. /\ Starting(v)' => Contains(create_fifo, v) /\ ~Contains(create_fifo', v)
          /\ ~Killing(v)'
          /\ Contains(create_fifo, v)' => Contains(create_fifo, v)
      BY <2>1, <2>3 DEF Starting, Killing
    <3> QED BY <1>1, <1>2, <1>3, <2>1, <3>1
            DEF RisesOnce, FallsOnce, Unused, Rising, Falling
  <2> QED BY <1>1, <1>3, <2>1, <2>3, <2>4 DEF Orderly
<1>6. CASE TakeCancel /\ cancel_fifo # <<>>
  <2>1. /\ UNCHANGED create_fifo
        /\ inhand' = Head(cancel_fifo) /\ cancel_fifo' = Tail(cancel_fifo) /\ mpc' = "kill"
    BY <1>6 DEF TakeCancel
  <2>2. cancel_fifo \in Seq(Workers) /\ Distinct(cancel_fifo)
    BY DEF TypeOK, Orderly
  <2>3. /\ Distinct(cancel_fifo') /\ ~Contains(cancel_fifo', inhand')
        /\ Contains(cancel_fifo, inhand')
        /\ \A v : Contains(cancel_fifo', v) => Contains(cancel_fifo, v)
    BY <1>6, <2>1, <2>2, TakeFacts
  <2>4. ASSUME NEW v \in Workers
        PROVE  (RisesOnce(v) /\ FallsOnce(v) /\ Unused(v))'
    <3>1. /\ Killing(v)' => Contains(cancel_fifo, v) /\ ~Contains(cancel_fifo', v)
          /\ ~Starting(v)'
          /\ Contains(cancel_fifo, v)' => Contains(cancel_fifo, v)
      BY <2>1, <2>3 DEF Starting, Killing
    <3> QED BY <1>1, <1>2, <1>3, <2>1, <3>1
            DEF RisesOnce, FallsOnce, Unused, Rising, Falling
  <2> QED BY <1>1, <1>3, <2>1, <2>3, <2>4 DEF Orderly
<1> QED BY <1>4, <1>5, <1>6 DEF TakeCreate, TakeCancel

\* pthread_create: the worker had no thread and has one now.
LEMMA StartFacts ==
  ASSUME TypeOK, NEW w \in Workers, NEW t \in Tids, owner[t] = None,
         owner' = [owner EXCEPT ![t] = w]
  PROVE  /\ Live(w)' = Live(w) \cup {t}
         /\ \A v \in Workers \ {w} : Live(v)' = Live(v)
<1>1. owner \in [Tids -> Workers \cup {None}] /\ None \notin Workers
  BY ManagerAssumption DEF TypeOK
<1>2. ASSUME NEW u \in Tids PROVE owner'[u] = IF u = t THEN w ELSE owner[u]
  BY <1>1
<1> QED BY <1>1, <1>2 DEF Live

\* The manager has served a request.
LEMMA ServeOrderly ==
  ASSUME TypeOK, InHand, calm, Orderly, StartThread \/ StartFails \/ CancelThread
  PROVE  Orderly'
<1>1. /\ inhand \in Workers /\ inhand' = None /\ mpc' \in {"create", "cancel"}
      /\ UNCHANGED <<calm, client, is_open, todo, freed, create_fifo, cancel_fifo>>
  BY DEF StartThread, StartFails, CancelThread, InHand, ftsVars
<1>2. ASSUME NEW v \in Workers
      PROVE  /\ RisesOnce(v) /\ FallsOnce(v) /\ Unused(v) /\ Single(v)
             /\ Asking(v)' <=> Asking(v)
             /\ Closing(v)' <=> Closing(v)
             /\ Freeing(v)' <=> Freeing(v)
             /\ ~Starting(v)' /\ ~Killing(v)'
             /\ Contains(create_fifo, v)' <=> Contains(create_fifo, v)
             /\ Contains(cancel_fifo, v)' <=> Contains(cancel_fifo, v)
             /\ is_open'[v] = is_open[v]
  BY <1>1 DEF Orderly, Asking, Closing, Freeing, Starting, Killing
<1>3. CASE StartThread
  <2>1. PICK x \in Workers : x = inhand
    BY <1>1
  <2>2. PICK t \in Tids : owner[t] = None /\ owner' = [owner EXCEPT ![t] = x]
    BY <1>3, <2>1 DEF StartThread
  <2>3. Starting(x)
    BY <1>3, <2>1 DEF StartThread, Starting
  <2>4. /\ Live(x)' = Live(x) \cup {t}
        /\ \A v \in Workers \ {x} : Live(v)' = Live(v)
    BY <2>2, StartFacts
  <2>5. ASSUME NEW v \in Workers
        PROVE  (RisesOnce(v) /\ FallsOnce(v) /\ Unused(v) /\ Single(v))'
    <3>1. CASE v # x
      BY <1>1, <1>2, <2>4, <3>1 DEF RisesOnce, FallsOnce, Unused, Single, Rising, Falling
    <3>2. CASE v = x
      <4>1. ~Asking(v) /\ ~Contains(create_fifo, v) /\ is_open[v] /\ Live(v) = {}
        BY <1>2, <2>3, <3>2 DEF RisesOnce, Rising
      <4>2. Single(v)'
        BY <2>4, <3>2, <4>1 DEF Single
      <4> QED BY <1>1, <1>2, <3>2, <4>1, <4>2
              DEF RisesOnce, FallsOnce, Unused, Rising, Falling
    <3> QED BY <3>1, <3>2
  <2> QED BY <1>1, <2>5 DEF Orderly
<1>4. CASE StartFails \/ CancelThread
  <2>1. \A v : Live(v)' = Live(v)
    BY <1>4 DEF StartFails, CancelThread, threadVars, Live
  <2>2. ASSUME NEW v \in Workers
        PROVE  (RisesOnce(v) /\ FallsOnce(v) /\ Unused(v) /\ Single(v))'
    BY <1>1, <1>2, <2>1 DEF RisesOnce, FallsOnce, Unused, Single, Rising, Falling
  <2> QED BY <1>1, <2>2 DEF Orderly
<1> QED BY <1>3, <1>4

\* A thread ends, or goes on without a change to its owner.
LEMMA DieFacts ==
  ASSUME TypeOK, NEW t \in Tids, Thread(t)
  PROVE  \A v \in Workers : Live(v)' = IF Die(t) THEN Live(v) \ {t} ELSE Live(v)
<1>1. CASE Die(t)
  <2>1. owner' = [owner EXCEPT ![t] = None] /\ None \notin Workers
    BY <1>1, ManagerAssumption DEF Die
  <2>2. ASSUME NEW u \in Tids PROVE owner'[u] = IF u = t THEN None ELSE owner[u]
    BY <2>1 DEF TypeOK
  <2> QED BY <1>1, <2>1, <2>2 DEF Live
<1>2. CASE ~Die(t)
  BY <1>2 DEF Thread, TestDead, MethodDone, WakeUp, Live
<1> QED BY <1>1, <1>2

LEMMA ThreadOrderly ==
  ASSUME TypeOK, InHand, calm, Orderly, NEW t \in Tids, Thread(t)
  PROVE  Orderly'
<1>1. UNCHANGED <<calm, client, is_open, todo, freed, create_fifo, cancel_fifo, mpc, inhand>>
  BY DEF Thread, TestDead, MethodDone, WakeUp, Die, ftsVars
<1>2. \A v \in Workers : Live(v)' \subseteq Live(v)
  BY DieFacts
<1>3. ASSUME NEW v \in Workers
      PROVE  (RisesOnce(v) /\ FallsOnce(v) /\ Unused(v) /\ Single(v))'
  <2>1. RisesOnce(v) /\ FallsOnce(v) /\ Unused(v) /\ Single(v)
    BY DEF Orderly
  <2>2. /\ Asking(v)' <=> Asking(v)
        /\ Closing(v)' <=> Closing(v)
        /\ Freeing(v)' <=> Freeing(v)
        /\ Starting(v)' <=> Starting(v)
        /\ Killing(v)' <=> Killing(v)
    BY <1>1 DEF Asking, Closing, Freeing, Starting, Killing
  <2>3. Single(v)'
    BY <1>2, <2>1 DEF Single
  <2> QED BY <1>1, <1>2, <2>1, <2>2, <2>3 DEF RisesOnce, FallsOnce, Unused, Rising, Falling
<1> QED BY <1>1, <1>3 DEF Orderly

-----------------------------------------------------------------------------
(* The theorems.                                                            *)

LEMMA InitIInv == ASSUME Init PROVE IInv
<1>1. TypeOK /\ InHand
  <2>1. /\ <<>> \in Seq(Workers) /\ Len(<<>>) <= Capacity
        /\ <<>> \in Seq({"alive", "dead", "create", "cancel", "free"})
    BY ManagerAssumption
  <2> QED BY <2>1 DEF Init, TypeOK, InHand
<1>2. \A w : ~Contains(<<>>, w)
  BY DEF Contains
<1>3. \A w \in Workers : Live(w) = {}
  BY ManagerAssumption DEF Init, Live
<1>4. Orderly
  <2>1. todo \in Plans /\ Distinct(create_fifo) /\ Distinct(cancel_fifo)
    BY DEF Init, Plans, Distinct
  <2>2. ASSUME NEW w \in Workers PROVE RisesOnce(w) /\ FallsOnce(w) /\ Unused(w) /\ Single(w)
    <3>1. ~Asking(w) /\ ~Closing(w) /\ ~Freeing(w) /\ ~Starting(w) /\ ~Killing(w)
      BY PlanFacts DEF Init, Asking, Closing, Freeing, Starting, Killing
    <3>2. /\ ~Contains(create_fifo, w) /\ ~Contains(cancel_fifo, w)
          /\ w \notin freed /\ Live(w) = {}
      BY <1>2, <1>3 DEF Init
    <3> QED BY <3>1, <3>2 DEF RisesOnce, FallsOnce, Unused, Single, Rising, Falling
  <2> QED BY <2>1, <2>2 DEF Orderly
<1> QED BY <1>1, <1>4 DEF IInv

\* The environment does not change.
LEMMA CalmKept == ASSUME [Next]_vars PROVE calm' = calm
BY DEF Next, User, Open, Close, Delete, Begin, Handler, MarkAlive, MarkDead, PutCreate,
         PutCancel, FreeWorker, Manager, TakeCreate, StartThread, StartFails, TakeCancel,
         CancelThread, Thread, TestDead, MethodDone, WakeUp, Die, vars, ftsVars

LEMMA NextIInv == ASSUME IInv, [Next]_vars PROVE IInv'
<1>1. TypeOK' /\ InHand'
  BY TypeStep DEF IInv
<1>2. calm' = calm
  BY CalmKept
<1>3. ASSUME calm PROVE Orderly'
  <2>1. TypeOK /\ InHand /\ Orderly
    BY <1>3 DEF IInv
  <2>2. CASE UNCHANGED vars
    BY <2>1, <2>2
       DEF vars, ftsVars, threadVars, Orderly, Distinct, RisesOnce, FallsOnce, Unused, Single,
           Rising, Falling, Asking, Starting, Closing, Killing, Freeing, Live
  <2>3. CASE User
    BY <1>3, <2>1, <2>3, UserOrderly DEF User
  <2>4. CASE Handler
    BY <1>3, <2>1, <2>4, HandlerOrderly
  <2>5. CASE Manager
    BY <1>3, <2>1, <2>5, TakeOrderly, ServeOrderly DEF Manager
  <2>6. CASE \E t \in Tids : Thread(t)
    BY <1>3, <2>1, <2>6, ThreadOrderly
  <2> QED BY <2>2, <2>3, <2>4, <2>5, <2>6 DEF Next
<1> QED BY <1>1, <1>2, <1>3 DEF IInv

LEMMA Inductive == Spec => []IInv
BY InitIInv, NextIInv, PTL DEF Spec

\* The fifos hold workers and never more than their capacity, the manager's
\* request is a worker's, and so on, whatever the users do.
THEOREM TypeCorrect == Spec => []TypeOK
<1>1. IInv => TypeOK
  BY DEF IInv
<1> QED BY <1>1, Inductive, PTL

\* Users that wait for their last request get one thread per worker.
THEOREM OneThreadThm == Spec => []OneThread
<1>1. ASSUME IInv PROVE OneThread
  <2> SUFFICES ASSUME calm, NEW w \in Workers PROVE Cardinality(Live(w)) <= 1
    BY DEF OneThread
  <2>1. Single(w)
    BY <1>1 DEF IInv, Orderly
  <2>2. CASE Live(w) = {}
    <3>1. Cardinality(Live(w)) = 0
      BY <2>2, FS_EmptySet
    <3> QED BY <3>1
  <2>3. CASE Live(w) # {}
    <3>1. PICK t : t \in Live(w)
      BY <2>3
    <3>2. Live(w) = {t}
      BY <2>1, <3>1 DEF Single
    <3>3. Cardinality(Live(w)) = 1
      BY <3>2, FS_Singleton
    <3> QED BY <3>3
  <2> QED BY <2>2, <2>3
<1> QED BY <1>1, Inductive, PTL

-----------------------------------------------------------------------------
(* Cancellation, where the fifos and the system have room for every worker. *)

\* A fifo without repetition and without the worker w is not full.
LEMMA FifoRoom ==
  ASSUME Roomy, NEW s \in Seq(Workers), Distinct(s), NEW w \in Workers, ~Contains(s, w)
  PROVE  Len(s) < Capacity
<1> DEFINE n == Len(s)
           Others == Workers \ {w}
<1>1. n \in Nat /\ s \in [1 .. n -> Workers]
  BY LenProperties
<1>2. \A i \in 1 .. n : s[i] # w
  BY DEF Contains
<1>3. s \in [1 .. n -> Others]
  BY <1>1, <1>2
<1>4. s \in Injection(1 .. n, Others)
  BY <1>3 DEF Injection, IsInjective, Distinct
<1>5. IsFiniteSet(Others) /\ Cardinality(Others) = Cardinality(Workers) - 1
  BY FS_RemoveElement DEF Roomy
<1>6. Cardinality(1 .. n) <= Cardinality(Others)
  BY <1>4, <1>5, FS_Injection
<1>7. Cardinality(1 .. n) = n
  <2>1. Cardinality(1 .. n) = IF 1 > n THEN 0 ELSE n - 1 + 1
    BY <1>1, FS_Interval
  <2> QED BY <1>1, <2>1
<1>8. Cardinality(Workers) \in Nat /\ Capacity \in Nat
  BY FS_CardinalityType, ManagerAssumption DEF Roomy
<1> HIDE DEF n, Others
<1>9. n < Capacity
  BY <1>1, <1>5, <1>6, <1>7, <1>8 DEF Roomy
<1> QED BY <1>9 DEF n

\* As long as a worker has no thread and no worker has two, the system has a
\* thread to give.
LEMMA TidRoom ==
  ASSUME Roomy, TypeOK, \A v \in Workers : Single(v), NEW w \in Workers, Live(w) = {}
  PROVE  \E t \in Tids : owner[t] = None
<1> SUFFICES ASSUME \A t \in Tids : owner[t] # None PROVE FALSE
  OBVIOUS
<1> DEFINE Others == Workers \ {w}
<1>1. owner \in [Tids -> Others]
  BY DEF TypeOK, Live
<1>2. ASSUME NEW t \in Tids, NEW u \in Tids, owner[t] = owner[u] PROVE t = u
  <2>1. owner[t] \in Workers /\ t \in Live(owner[t]) /\ u \in Live(owner[t])
    BY <1>1, <1>2 DEF Live
  <2> QED BY <2>1 DEF Single
<1>3. owner \in Injection(Tids, Others)
  BY <1>1, <1>2 DEF Injection, IsInjective
<1>4. IsFiniteSet(Others) /\ Cardinality(Others) = Cardinality(Workers) - 1
  BY FS_RemoveElement DEF Roomy
<1>5. Cardinality(Tids) <= Cardinality(Others)
  BY <1>3, <1>4, FS_Injection
<1>6. Cardinality(Workers) \in Nat /\ Cardinality(Tids) \in Nat
  BY FS_CardinalityType DEF Roomy
<1> HIDE DEF Others
<1> QED BY <1>4, <1>5, <1>6 DEF Roomy

\* A user begins a handler: its thread is there if its file is open, and gone
\* if it is not.
LEMMA UserAimed ==
  ASSUME IInv, calm, AllAimed, NEW w \in Workers, Open(w) \/ Close(w) \/ Delete(w)
  PROVE  AllAimed'
<1>1. /\ todo = <<>> /\ w \notin freed /\ Settled(w) /\ client' = w
      /\ UNCHANGED <<calm, create_fifo, cancel_fifo, id, freed, mpc, inhand, owner, doomed>>
  BY DEF Open, Close, Delete, Begin, threadVars
<1>2. \A v : Live(v)' = Live(v)
  BY <1>1 DEF Live
<1>3. \/ ~is_open[w] /\ is_open'[w] /\ todo' = <<"alive", "create">>
      \/ is_open[w] /\ ~is_open'[w] /\ todo' = <<"dead", "cancel">>
      \/ ~is_open[w] /\ ~is_open'[w] /\ todo' = <<"free">>
  BY DEF Open, Close, Delete, Begin, TypeOK, IInv
<1>4. \A v \in Workers \ {w} : is_open'[v] = is_open[v]
  BY DEF Open, Close, Delete, TypeOK, IInv
<1>5. ASSUME NEW v \in Workers PROVE Aimed(v)'
  <2>1. Aimed(v)
    BY DEF AllAimed
  <2>2. /\ ~Asking(v) /\ ~Closing(v) /\ ~Freeing(v)
    BY <1>1, PlanFacts DEF Asking, Closing, Freeing
  <2>3. /\ Starting(v)' <=> Starting(v)
        /\ Killing(v)' <=> Killing(v)
        /\ Contains(create_fifo, v)' <=> Contains(create_fifo, v)
        /\ Contains(cancel_fifo, v)' <=> Contains(cancel_fifo, v)
        /\ id'[v] = id[v]
    BY <1>1, <2>1 DEF Starting, Killing, Single
  <2>4. CASE v # w
    <3>1. ~Asking(v)' /\ ~Closing(v)'
      BY <1>1, <2>4 DEF Asking, Closing
    <3> QED BY <1>1, <1>2, <1>4, <2>1, <2>2, <2>3, <2>4, <3>1 DEF Aimed, Rising, Falling
  <2>5. CASE v = w
    <3>1. /\ ~Contains(create_fifo, v) /\ ~Contains(cancel_fifo, v)
          /\ ~Starting(v) /\ ~Killing(v)
          /\ ~is_open[v] => Live(v) = {}
      BY <1>1, <2>5 DEF Settled, Starting, Killing
    <3>2. /\ is_open'[v] => Asking(v)' /\ ~is_open[v]
          /\ Closing(v)' => is_open[v]
      BY <1>1, <1>3, <2>5, PlanFacts DEF Asking, Closing
    <3>3. is_open[v] => Live(v) # {}
      BY <2>1, <2>2, <3>1 DEF Aimed, Rising
    <3> QED BY <1>1, <1>2, <2>1, <2>3, <3>1, <3>2, <3>3 DEF Aimed, Rising, Falling
  <2> QED BY <2>4, <2>5
<1> QED BY <1>1, <1>5 DEF AllAimed

\* The handler goes on: no request to create is dropped.
LEMMA HandlerAimed ==
  ASSUME Roomy, IInv, calm, AllAimed, Handler
  PROVE  AllAimed'
<1>1. /\ todo \in Plans /\ client \in Workers
      /\ UNCHANGED <<calm, client, is_open, mpc, inhand, owner, id, doomed>>
  BY DEF Handler, MarkAlive, MarkDead, PutCreate, PutCancel, FreeWorker, Step, InHand,
         IInv, Orderly, threadVars
<1>2. \A v : Live(v)' = Live(v)
  BY <1>1 DEF Live
<1>3. ASSUME NEW v \in Workers
      PROVE  /\ RisesOnce(v) /\ FallsOnce(v) /\ Aimed(v)
             /\ Starting(v)' <=> Starting(v)
             /\ Killing(v)' <=> Killing(v)
             /\ is_open'[v] = is_open[v] /\ id'[v] = id[v]
  BY <1>1, <1>2 DEF IInv, Orderly, AllAimed, Starting, Killing
<1>4. ASSUME NEW v \in Workers
      PROVE  /\ Rising(v) => Rising(v)'
             /\ Falling(v)' => Falling(v)
  <2>1. CASE MarkAlive \/ MarkDead
    <3>1. /\ UNCHANGED <<create_fifo, cancel_fifo>>
          /\ \/ todo = <<"alive", "create">> /\ todo' = <<"create">>
             \/ todo = <<"dead", "cancel">> /\ todo' = <<"cancel">>
      BY <1>1, <2>1, StepFacts DEF MarkAlive, MarkDead
    <3>2. /\ Asking(v)' <=> Asking(v)
          /\ Closing(v)' <=> Closing(v)
      BY <1>1, <3>1, PlanFacts DEF Asking, Closing
    <3> QED BY <1>3, <3>1, <3>2 DEF Rising, Falling
  <2>2. CASE PutCreate
    <3>1. /\ UNCHANGED cancel_fifo /\ create_fifo' = Put(create_fifo)
          /\ todo = <<"create">> /\ todo' = <<>>
      BY <1>1, <2>2, StepFacts DEF PutCreate
    <3>2. Asking(client)
      BY <3>1 DEF Asking
    <3>3. /\ create_fifo \in Seq(Workers) /\ Len(create_fifo) <= Capacity
          /\ Distinct(create_fifo) /\ ~Contains(create_fifo, client)
      BY <1>1, <1>3, <3>2 DEF IInv, TypeOK, Orderly, RisesOnce
    <3>4. Len(create_fifo) < Capacity
      BY <1>1, <3>3, FifoRoom
    <3>5. /\ Contains(create_fifo', client)
          /\ \A u : Contains(create_fifo, u) => Contains(create_fifo', u)
      BY <1>1, <3>1, <3>3, <3>4, PutFacts
    <3>6. Asking(v) => v = client
      BY DEF Asking
    <3>7. ~Closing(v)'
      BY <3>1, PlanFacts DEF Closing
    <3> QED BY <1>3, <3>1, <3>5, <3>6, <3>7 DEF Rising, Falling
  <2>3. CASE PutCancel
    <3>1. /\ UNCHANGED create_fifo /\ cancel_fifo' = Put(cancel_fifo)
          /\ todo = <<"cancel">> /\ todo' = <<>>
      BY <1>1, <2>3, StepFacts DEF PutCancel
    <3>2. Closing(client) /\ ~Asking(v) /\ ~Closing(v)'
      BY <3>1, PlanFacts DEF Asking, Closing
    <3>3. cancel_fifo \in Seq(Workers) /\ Len(cancel_fifo) <= Capacity
      BY DEF IInv, TypeOK
    <3>4. Contains(cancel_fifo', v) => Contains(cancel_fifo, v) \/ v = client
      BY <1>1, <3>1, <3>3, PutFacts
    <3> QED BY <1>3, <3>1, <3>2, <3>4 DEF Rising, Falling
  <2>4. CASE FreeWorker
    <3>1. UNCHANGED <<create_fifo, cancel_fifo>> /\ todo = <<"free">> /\ todo' = <<>>
      BY <1>1, <2>4, StepFacts DEF FreeWorker
    <3>2. ~Asking(v) /\ ~Closing(v)'
      BY <3>1, PlanFacts DEF Asking, Closing
    <3> QED BY <1>3, <3>1, <3>2 DEF Rising, Falling
  <2> QED BY <2>1, <2>2, <2>3, <2>4 DEF Handler
<1>5. ASSUME NEW v \in Workers PROVE Aimed(v)'
  BY <1>1, <1>2, <1>3, <1>4 DEF Aimed
<1> QED BY <1>1, <1>5 DEF AllAimed

\* The manager takes a request.
LEMMA TakeAimed ==
  ASSUME IInv, calm, AllAimed, TakeCreate \/ TakeCancel
  PROVE  AllAimed'
<1>1. /\ mpc \in {"create", "cancel"}
      /\ UNCHANGED <<calm, client, is_open, todo, freed, owner, id, doomed>>
  BY DEF TakeCreate, TakeCancel, ftsVars, threadVars
<1>2. \A v : Live(v)' = Live(v)
  BY <1>1 DEF Live
<1>3. ASSUME NEW v \in Workers
      PROVE  /\ Aimed(v)
             /\ Asking(v)' <=> Asking(v)
             /\ Closing(v)' <=> Closing(v)
             /\ ~Starting(v) /\ ~Killing(v)
             /\ is_open'[v] = is_open[v] /\ id'[v] = id[v]
  BY <1>1 DEF AllAimed, Asking, Closing, Starting, Killing
<1>4. ASSUME NEW v \in Workers
      PROVE  /\ Rising(v) => Rising(v)'
             /\ Falling(v)' => Falling(v)
  <2>1. CASE UNCHANGED <<create_fifo, cancel_fifo, inhand>> /\ mpc' \in {"create", "cancel"}
    <3>1. ~Starting(v)' /\ ~Killing(v)'
      BY <2>1 DEF Starting, Killing
    <3> QED BY <1>3, <2>1, <3>1 DEF Rising, Falling
  <2>2. CASE TakeCreate /\ create_fifo # <<>>
    <3>1. /\ UNCHANGED cancel_fifo
          /\ inhand' = Head(create_fifo) /\ create_fifo' = Tail(create_fifo) /\ mpc' = "start"
      BY <2>2 DEF TakeCreate
    <3>2. create_fifo \in Seq(Workers)
      BY DEF IInv, TypeOK
    <3>3. Contains(create_fifo, v) => v = inhand' \/ Contains(create_fifo', v)
      BY <2>2, <3>1, <3>2, TakeFacts
    <3>4. Contains(create_fifo, v) => Starting(v)' \/ Contains(create_fifo', v)
      BY <3>1, <3>3 DEF Starting
    <3>5. ~Killing(v)'
      BY <3>1 DEF Killing
    <3> QED BY <1>3, <3>1, <3>4, <3>5 DEF Rising, Falling
  <2>3. CASE TakeCancel /\ cancel_fifo # <<>>
    <3>1. /\ UNCHANGED create_fifo
          /\ inhand' = Head(cancel_fifo) /\ cancel_fifo' = Tail(cancel_fifo) /\ mpc' = "kill"
      BY <2>3 DEF TakeCancel
    <3>2. cancel_fifo \in Seq(Workers)
      BY DEF IInv, TypeOK
    <3>3. /\ Contains(cancel_fifo, inhand')
          /\ Contains(cancel_fifo', v) => Contains(cancel_fifo, v)
      BY <2>3, <3>1, <3>2, TakeFacts
    <3>4. Killing(v)' => Contains(cancel_fifo, v)
      BY <3>3 DEF Killing
    <3> QED BY <1>3, <3>1, <3>3, <3>4 DEF Rising, Falling
  <2> QED BY <2>1, <2>2, <2>3 DEF TakeCreate, TakeCancel
<1>5. ASSUME NEW v \in Workers PROVE Aimed(v)'
  BY <1>1, <1>2, <1>3, <1>4 DEF Aimed
<1> QED BY <1>1, <1>5 DEF AllAimed

\* pthread_cancel is given the identifier of the worker's own thread.
LEMMA CancelFacts ==
  ASSUME IInv, calm, AllAimed, CancelThread
  PROVE  /\ inhand \in Workers /\ Killing(inhand)
         /\ id[inhand] \in Live(inhand)
         /\ doomed' = doomed \cup {id[inhand]}
<1>1. inhand \in Workers /\ mpc = "kill"
  BY DEF IInv, InHand, CancelThread
<1>2. Killing(inhand) /\ Falling(inhand)
  BY <1>1 DEF Killing, Falling
<1>3. Aimed(inhand) /\ Unused(inhand)
  BY <1>1 DEF AllAimed, IInv, Orderly
<1>4. inhand \notin freed /\ id[inhand] \in Live(inhand)
  BY <1>2, <1>3 DEF Aimed, Unused
<1>5. id[inhand] \in Tids /\ owner[id[inhand]] # None
  BY <1>1, <1>4, ManagerAssumption DEF Live
<1>6. PICK t \in IdSeen(inhand) :
        doomed' = doomed \cup {u \in Tids : u = t /\ owner[u] # None}
  BY DEF CancelThread
<1>7. t = id[inhand]
  BY <1>4 DEF IdSeen
<1>8. {u \in Tids : u = t /\ owner[u] # None} = {id[inhand]}
  BY <1>5, <1>7
<1> QED BY <1>1, <1>2, <1>4, <1>6, <1>8

\* The manager serves a request: pthread_create does not fail for want of a
\* thread, and pthread_cancel dooms the thread of a closed file.
LEMMA ServeAimed ==
  ASSUME Roomy, IInv, calm, AllAimed, StartThread \/ StartFails \/ CancelThread
  PROVE  AllAimed'
<1>1. /\ inhand \in Workers /\ inhand' = None /\ mpc' \in {"create", "cancel"}
      /\ UNCHANGED <<calm, client, is_open, todo, freed, create_fifo, cancel_fifo>>
  BY DEF StartThread, StartFails, CancelThread, IInv, InHand, ftsVars
<1>2. ASSUME NEW v \in Workers
      PROVE  /\ RisesOnce(v) /\ FallsOnce(v) /\ Unused(v) /\ Single(v) /\ Aimed(v)
             /\ Asking(v)' <=> Asking(v)
             /\ Closing(v)' <=> Closing(v)
             /\ ~Starting(v)' /\ ~Killing(v)'
             /\ Contains(create_fifo, v)' <=> Contains(create_fifo, v)
             /\ Contains(cancel_fifo, v)' <=> Contains(cancel_fifo, v)
             /\ is_open'[v] = is_open[v]
  BY <1>1 DEF AllAimed, IInv, Orderly, Asking, Closing, Starting, Killing
<1>3. TypeOK
  BY DEF IInv
<1>4. PICK x \in Workers : x = inhand
  BY <1>1
<1>5. ASSUME StartThread \/ StartFails
      PROVE  Starting(x) /\ ~Falling(x) /\ Live(x) = {}
  <2>1. Starting(x)
    BY <1>4, <1>5 DEF StartThread, StartFails, Starting
  <2> QED BY <1>2, <2>1 DEF RisesOnce, FallsOnce, Rising
<1>6. CASE StartThread
  <2>1. PICK t \in Tids : /\ owner[t] = None /\ owner' = [owner EXCEPT ![t] = x]
                          /\ id' = [id EXCEPT ![x] = t]
    BY <1>4, <1>6 DEF StartThread
  <2>2. doomed' = doomed /\ t \notin doomed
    BY <1>6, <2>1 DEF StartThread, AllAimed
  <2>3. /\ Live(x)' = Live(x) \cup {t}
        /\ \A v \in Workers \ {x} : Live(v)' = Live(v)
    BY <1>3, <2>1, StartFacts
  <2>4. id'[x] = t /\ \A v \in Workers \ {x} : id'[v] = id[v]
    BY <1>3, <2>1 DEF TypeOK
  <2>5. ASSUME NEW v \in Workers PROVE Aimed(v)'
    <3>1. CASE v # x
      <4>1. ~Starting(v)
        BY <1>4, <3>1 DEF Starting
      <4> QED BY <1>2, <2>2, <2>3, <2>4, <3>1, <4>1 DEF Aimed, Rising, Falling
    <3>2. CASE v = x
      <4>1. Live(v)' = {t} /\ id'[v] = t
        BY <1>5, <1>6, <2>3, <2>4, <3>2
      <4>2. ~Falling(v)'
        BY <1>2, <1>5, <1>6, <3>2 DEF Falling
      <4> QED BY <2>2, <4>1, <4>2 DEF Aimed
    <3> QED BY <3>1, <3>2
  <2>6. ASSUME NEW u \in doomed' PROVE owner'[u] # None
    <3>1. u \in Tids /\ owner[u] # None /\ x # None
      BY <1>3, <2>2, ManagerAssumption DEF AllAimed, TypeOK
    <3> QED BY <1>3, <2>1, <3>1 DEF TypeOK
  <2> QED BY <2>5, <2>6 DEF AllAimed
<1>7. ~StartFails
  <2> SUFFICES ASSUME StartFails PROVE FALSE
    OBVIOUS
  <2>1. \A t \in Tids : owner[t] # None
    BY DEF StartFails
  <2>2. Live(x) = {} /\ \A v \in Workers : Single(v)
    BY <1>2, <1>5
  <2> QED BY <1>3, <2>1, <2>2, TidRoom
<1>8. CASE CancelThread
  <2>1. /\ Killing(x) /\ id[x] \in Live(x) /\ doomed' = doomed \cup {id[x]}
    BY <1>4, <1>8, CancelFacts
  <2>2. UNCHANGED <<owner, id>>
    BY <1>8 DEF CancelThread
  <2>3. \A v : Live(v)' = Live(v)
    BY <2>2 DEF Live
  <2>4. ASSUME NEW v \in Workers PROVE Aimed(v)'
    <3>1. ~Starting(v)
      BY <1>8 DEF Starting, CancelThread
    <3>2. CASE v # x
      <4>1. id[x] \notin Live(v)
        BY <2>1, <3>2 DEF Live
      <4> QED BY <1>2, <2>1, <2>2, <2>3, <3>1, <4>1 DEF Aimed, Rising, Falling
    <3>3. CASE v = x
      <4>1. ~is_open[v] /\ ~Closing(v) /\ ~Contains(cancel_fifo, v)
        BY <1>2, <2>1, <3>3 DEF FallsOnce, Falling
      <4>2. ~is_open'[v] /\ ~Falling(v)'
        BY <1>2, <4>1 DEF Falling
      <4> QED BY <1>2, <2>2, <2>3, <4>2 DEF Aimed
    <3> QED BY <3>2, <3>3
  <2>5. ASSUME NEW u \in doomed' PROVE owner'[u] # None
    BY <2>1, <2>2, ManagerAssumption DEF AllAimed, Live
  <2> QED BY <2>4, <2>5 DEF AllAimed
<1> QED BY <1>6, <1>7, <1>8

\* A thread ends only when it is doomed, and so its file is closed.
LEMMA ThreadAimed ==
  ASSUME IInv, calm, AllAimed, NEW t \in Tids, Thread(t)
  PROVE  AllAimed'
<1>1. UNCHANGED <<calm, client, is_open, todo, freed, create_fifo, cancel_fifo, mpc, inhand,
                  id>>
  BY DEF Thread, TestDead, MethodDone, WakeUp, Die, ftsVars
<1>2. TypeOK
  BY DEF IInv
<1>3. ASSUME NEW v \in Workers
      PROVE  /\ Rising(v)' <=> Rising(v)
             /\ Falling(v)' <=> Falling(v)
             /\ Single(v) /\ Aimed(v)
  BY <1>1 DEF AllAimed, IInv, Orderly, Rising, Falling, Asking, Starting, Closing, Killing
<1>4. CASE Die(t)
  <2>1. /\ t \in doomed /\ doomed' = doomed \ {t}
        /\ owner' = [owner EXCEPT ![t] = None]
    BY <1>4 DEF Die
  <2>2. ASSUME NEW v \in Workers PROVE Aimed(v)'
    <3>1. Live(v)' = Live(v) \ {t}
      BY <1>2, <1>4, DieFacts
    <3>2. CASE t \in Live(v)
      <4>1. Live(v)' = {} /\ ~is_open[v] /\ ~Falling(v)
        BY <1>3, <2>1, <3>1, <3>2 DEF Aimed, Single
      <4> QED BY <1>1, <1>3, <4>1 DEF Aimed
    <3>3. CASE t \notin Live(v)
      <4>1. Live(v)' = Live(v)
        BY <3>1, <3>3
      <4> QED BY <1>1, <1>3, <2>1, <4>1 DEF Aimed
    <3> QED BY <3>2, <3>3
  <2>3. ASSUME NEW u \in doomed' PROVE owner'[u] # None
    <3>1. u \in Tids /\ u # t /\ owner[u] # None
      BY <1>2, <2>1 DEF AllAimed, TypeOK
    <3> QED BY <1>2, <2>1, <3>1 DEF TypeOK
  <2> QED BY <2>2, <2>3 DEF AllAimed
<1>5. CASE ~Die(t)
  <2>1. UNCHANGED <<owner, doomed>>
    BY <1>5 DEF Thread, TestDead, MethodDone, WakeUp
  <2>2. ASSUME NEW v \in Workers PROVE Aimed(v)'
    <3>1. Live(v)' = Live(v)
      BY <2>1 DEF Live
    <3> QED BY <1>1, <1>3, <2>1, <3>1 DEF Aimed
  <2> QED BY <2>1, <2>2 DEF AllAimed
<1> QED BY <1>4, <1>5

LEMMA InitAimed == ASSUME Init PROVE AllAimed
<1>1. ASSUME NEW w \in Workers PROVE Aimed(w)
  <2>1. Live(w) = {} /\ ~is_open[w]
    BY ManagerAssumption DEF Init, Live
  <2>2. \A v : ~Contains(<<>>, v)
    BY DEF Contains
  <2>3. ~Falling(w)
    BY <2>2, PlanFacts DEF Init, Falling, Closing, Killing
  <2> QED BY <2>1, <2>3 DEF Aimed
<1> QED BY <1>1 DEF Init, AllAimed

LEMMA NextAimed == ASSUME Roomy, IInv, AllAimed, [Next]_vars PROVE AllAimed'
<1>1. calm' = calm
  BY CalmKept
<1>2. ASSUME calm PROVE AllAimed'
  <2>1. CASE UNCHANGED vars
    BY <2>1 DEF vars, ftsVars, threadVars, AllAimed, Aimed, Rising, Falling, Asking, Starting,
                Closing, Killing, Live
  <2>2. CASE User
    BY <1>2, <2>2, UserAimed DEF User
  <2>3. CASE Handler
    BY <1>2, <2>3, HandlerAimed
  <2>4. CASE Manager
    BY <1>2, <2>4, TakeAimed, ServeAimed DEF Manager
  <2>5. CASE \E t \in Tids : Thread(t)
    BY <1>2, <2>5, ThreadAimed
  <2> QED BY <2>1, <2>2, <2>3, <2>4, <2>5 DEF Next
<1> QED BY <1>1, <1>2 DEF AllAimed

\* Where the fifos and the system have room for every worker, users that wait
\* for their last request have their own threads cancelled and no other: the
\* identifier in a worker is never stale when pthread_cancel reads it.
THEOREM CancelsOwnThm == ASSUME Roomy PROVE Spec => CancelsOwn
<1>1. Init => AllAimed
  BY InitAimed
<1>2. IInv /\ AllAimed /\ [Next]_vars => AllAimed'
  BY NextAimed
<1>3. ASSUME IInv, AllAimed, [Next]_vars
      PROVE  [calm => \A t \in doomed' \ doomed : owner[t] = inhand]_vars
  <2> SUFFICES ASSUME calm, Next, NEW t \in doomed' \ doomed PROVE owner[t] = inhand
    BY <1>3
  <2>1. CASE CancelThread
    <3>1. doomed' = doomed \cup {id[inhand]} /\ id[inhand] \in Live(inhand)
      BY <1>3, <2>1, CancelFacts
    <3> QED BY <3>1 DEF Live
  <2>2. CASE ~CancelThread
    <3>1. doomed' \subseteq doomed
      BY <2>2 DEF Next, User, Open, Close, Delete, Begin, Handler, MarkAlive, MarkDead,
                  PutCreate, PutCancel, FreeWorker, Manager, TakeCreate, StartThread,
                  StartFails, TakeCancel, Thread, TestDead, MethodDone, WakeUp, Die, threadVars
    <3> QED BY <3>1
  <2> QED BY <2>1, <2>2
<1> QED BY <1>1, <1>2, <1>3, Inductive, PTL DEF Spec, CancelsOwn
=============================================================================
