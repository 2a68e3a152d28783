--------------------------- MODULE ThreadManager ----------------------------
(***************************************************************************)
(* The thread manager of fts/thread.c and fts/linux.c.  The FTS thread asks *)
(* for worker threads to be created and cancelled through two fifos; the    *)
(* manager thread polls them, one request of each per turn, and calls       *)
(* pthread_create and pthread_cancel; a worker thread calls its method      *)
(* again and again unless is_dead is set.  The users (readsf~, writesf~ of  *)
(* packages/dtd) create on open, cancel on close, do both on a second open, *)
(* and free the worker right after the cancel when they are deleted.        *)
(*                                                                          *)
(* The fifos are sequences of at most Capacity workers: FifoChannel shows   *)
(* that fts_fifo_t is such a channel for one reader and one writer.         *)
(***************************************************************************)
EXTENDS Naturals, Sequences, FiniteSets, SequencesExt

CONSTANTS Workers,      \* the workers (one per readsf~ or writesf~)
          Tids,         \* thread identifiers of the system
          None,         \* no worker, no thread
          Capacity,     \* requests a fifo has room for (39 in the code)
          MaxCalm,      \* bounds on the requests of the users
          MaxHasty

ASSUME ManagerAssumption == /\ None \notin Workers \cup Tids
                            /\ Capacity \in Nat \ {0}
                            /\ {MaxCalm, MaxHasty} \subseteq Nat

VARIABLES calm,      \* the environment, see below
          create_fifo, cancel_fifo,
          is_dead,   \* thread_function->is_dead of every worker
          id,        \* worker->id: the thread made for it last
          is_open,   \* is_open of the worker's user
          freed,     \* workers given back to the allocator
          todo,      \* what the FTS thread still has to do in its handler
          client,    \* the worker that handler is about
          requests,  \* handlers begun so far
          mpc,       \* the manager: where it is in its loop
          inhand,    \* the worker of the request it has taken
          owner,     \* the worker every live thread runs for
          tpc,       \* a thread: "test" of is_dead, "method" or "sleep"
          doomed     \* threads with a cancellation pending

ftsVars == <<calm, is_open, freed, todo, client, requests>>
threadVars == <<owner, tpc, doomed>>
vars == <<create_fifo, cancel_fifo, is_dead, id, ftsVars, mpc, inhand, threadVars>>

\* What a thread may read in a worker: once it is freed, anything.
DeadSeen(w) == IF w \in freed THEN BOOLEAN ELSE {is_dead[w]}
IdSeen(w)   == IF w \in freed THEN Tids \cup {None} ELSE {id[w]}

Live(w) == {t \in Tids : owner[t] = w}

\* worker->id comes from malloc: it holds any value until pthread_create
\* sets it, the identifier of some thread included.
\*
\* In a calm environment pthread_create succeeds and users wait until their
\* last request is settled, which the code leaves to them.
Init == /\ calm \in BOOLEAN
        /\ create_fifo = <<>> /\ cancel_fifo = <<>>
        /\ is_dead = [w \in Workers |-> FALSE]
        /\ id \in [Workers -> Tids \cup {None}]
        /\ is_open = [w \in Workers |-> FALSE]
        /\ freed = {}
        /\ todo = <<>> /\ client = None
        /\ requests = 0
        /\ mpc = "create" /\ inhand = None
        /\ owner = [t \in Tids |-> None]
        /\ tpc = [t \in Tids |-> "sleep"]
        /\ doomed = {}

-----------------------------------------------------------------------------
(* The users, in the FTS thread.  A handler is a list of steps: the two     *)
(* halves of fts_thread_manager_create_thread ("alive", "create") and of    *)
(* fts_thread_manager_cancel_thread ("dead", "cancel"), and the free.       *)

\* Nothing of w's last request is under way.
Settled(w) == /\ ~Contains(create_fifo, w) /\ ~Contains(cancel_fifo, w)
              /\ inhand # w
              /\ ~is_open[w] => Live(w) = {}

Begin(w, steps) == /\ todo = <<>>
                   /\ w \notin freed
                   /\ requests < IF calm THEN MaxCalm ELSE MaxHasty
                   /\ calm => Settled(w)
                   /\ todo' = steps
                   /\ client' = w
                   /\ requests' = requests + 1
                   /\ UNCHANGED <<calm, create_fifo, cancel_fifo, is_dead, id, freed,
                                  mpc, inhand, threadVars>>

\* readsf_open, writesf_open: an open file is closed first.  (An open that
\* finds no valid file ends there: it is a Close.)
Open(w) == /\ ~(calm /\ is_open[w])
           /\ Begin(w, IF is_open[w] THEN <<"dead", "cancel", "alive", "create">>
                                     ELSE <<"alive", "create">>)
           /\ is_open' = [is_open EXCEPT ![w] = TRUE]

\* readsf_close, writesf_close.
Close(w) == /\ is_open[w]
            /\ Begin(w, <<"dead", "cancel">>)
            /\ is_open' = [is_open EXCEPT ![w] = FALSE]

\* readsf_delete, writesf_delete: close, then free the worker.
Delete(w) == /\ ~(calm /\ is_open[w])
             /\ Begin(w, IF is_open[w] THEN <<"dead", "cancel", "free">>
                                       ELSE <<"free">>)
             /\ is_open' = [is_open EXCEPT ![w] = FALSE]

\* Mutant of Put: the level is not tested.
Put_Unchecked(fifo) == Append(fifo, client)

\* A request that finds the fifo full is dropped: the handlers ignore the -1.
Put(fifo) == IF Len(fifo) < Capacity THEN Append(fifo, client) ELSE fifo

Step(name) == todo # <<>> /\ Head(todo) = name /\ todo' = Tail(todo)

\* First half of fts_thread_manager_create_thread / _cancel_thread.
MarkAlive == /\ Step("alive")
             /\ is_dead' = [is_dead EXCEPT ![client] = FALSE]
             /\ UNCHANGED <<create_fifo, cancel_fifo, id, is_open, freed, calm, client,
                            requests, mpc, inhand, threadVars>>

\* Mutant of MarkDead: the worker is not told that it is dead.
MarkDead_Not == /\ Step("dead")
                /\ UNCHANGED <<create_fifo, cancel_fifo, is_dead, id, is_open, freed,
                               calm, client, requests, mpc, inhand, threadVars>>

MarkDead == /\ Step("dead")
            /\ is_dead' = [is_dead EXCEPT ![client] = TRUE]
            /\ UNCHANGED <<create_fifo, cancel_fifo, id, is_open, freed, calm, client,
                           requests, mpc, inhand, threadVars>>

\* Second half: test the level and put the worker in the fifo.
PutCreate == /\ Step("create")
             /\ create_fifo' = Put(create_fifo)
             /\ UNCHANGED <<cancel_fifo, is_dead, id, is_open, freed, calm, client,
                            requests, mpc, inhand, threadVars>>

PutCancel == /\ Step("cancel")
             /\ cancel_fifo' = Put(cancel_fifo)
             /\ UNCHANGED <<create_fifo, is_dead, id, is_open, freed, calm, client,
                            requests, mpc, inhand, threadVars>>

\* delete_reader_thread, delete_writer_thread.
FreeWorker == /\ Step("free")
              /\ freed' = freed \cup {client}
              /\ UNCHANGED <<create_fifo, cancel_fifo, is_dead, id, is_open, calm,
                             client, requests, mpc, inhand, threadVars>>

Handler == MarkAlive \/ MarkDead \/ PutCreate \/ PutCancel \/ FreeWorker

-----------------------------------------------------------------------------
(* thread_manager_main: at most one create and one cancel per turn.         *)

\* Mutant of TakeCreate: the read index is not moved.
TakeCreate_Twice == /\ mpc = "create"
                    /\ IF create_fifo # <<>>
                       THEN inhand' = Head(create_fifo) /\ mpc' = "start"
                       ELSE inhand' = inhand /\ mpc' = "cancel"
                    /\ UNCHANGED <<create_fifo, cancel_fifo, is_dead, id, ftsVars,
                                   threadVars>>

\* Mutant of TakeCreate: without a create request the turn ends.
TakeCreate_Only == /\ mpc = "create" /\ create_fifo # <<>>
                   /\ inhand' = Head(create_fifo)
                   /\ create_fifo' = Tail(create_fifo)
                   /\ mpc' = "start"
                   /\ UNCHANGED <<cancel_fifo, is_dead, id, ftsVars, threadVars>>

TakeCreate == /\ mpc = "create"
              /\ IF create_fifo # <<>>
                 THEN /\ inhand' = Head(create_fifo)
                      /\ create_fifo' = Tail(create_fifo)
                      /\ mpc' = "start"
                 ELSE /\ mpc' = "cancel"
                      /\ UNCHANGED <<inhand, create_fifo>>
              /\ UNCHANGED <<cancel_fifo, is_dead, id, ftsVars, threadVars>>

\* Mutant of StartThread: the identifier is not stored in the worker.
StartThread_NoId == /\ mpc = "start"
                    /\ \E t \in Tids :
                         /\ owner[t] = None
                         /\ owner' = [owner EXCEPT ![t] = inhand]
                         /\ tpc' = [tpc EXCEPT ![t] = "test"]
                    /\ mpc' = "cancel" /\ inhand' = None
                    /\ UNCHANGED <<create_fifo, cancel_fifo, is_dead, id, ftsVars, doomed>>

\* pthread_create and pthread_detach.
StartThread == /\ mpc = "start"
               /\ \E t \in Tids :
                    /\ owner[t] = None
                    /\ id' = [id EXCEPT ![inhand] = t]
                    /\ owner' = [owner EXCEPT ![t] = inhand]
                    /\ tpc' = [tpc EXCEPT ![t] = "test"]
               /\ mpc' = "cancel" /\ inhand' = None
               /\ UNCHANGED <<create_fifo, cancel_fifo, is_dead, ftsVars, doomed>>

\* "cannot start a new thread": the request is dropped, and the identifier may
\* hold anything.
StartFails == /\ mpc = "start"
              /\ ~calm \/ \A t \in Tids : owner[t] # None
              /\ \E t \in Tids \cup {None} : id' = [id EXCEPT ![inhand] = t]
              /\ mpc' = "cancel" /\ inhand' = None
              /\ UNCHANGED <<create_fifo, cancel_fifo, is_dead, ftsVars, threadVars>>

\* Mutant of TakeCancel: the request is taken and forgotten.
TakeCancel_Forget == /\ mpc = "cancel"
                     /\ cancel_fifo' = IF cancel_fifo = <<>> THEN <<>> ELSE Tail(cancel_fifo)
                     /\ mpc' = "create"
                     /\ UNCHANGED <<create_fifo, inhand, is_dead, id, ftsVars, threadVars>>

TakeCancel == /\ mpc = "cancel"
              /\ IF cancel_fifo # <<>>
                 THEN /\ inhand' = Head(cancel_fifo)
                      /\ cancel_fifo' = Tail(cancel_fifo)
                      /\ mpc' = "kill"
                 ELSE /\ mpc' = "create"
                      /\ UNCHANGED <<inhand, cancel_fifo>>
              /\ UNCHANGED <<create_fifo, is_dead, id, ftsVars, threadVars>>

\* pthread_cancel(worker->id); an identifier without a thread is an error
\* that is only posted.
CancelThread == /\ mpc = "kill"
                /\ \E t \in IdSeen(inhand) :
                     doomed' = doomed \cup {u \in Tids : u = t /\ owner[u] # None}
                /\ mpc' = "create" /\ inhand' = None
                /\ UNCHANGED <<create_fifo, cancel_fifo, is_dead, id, ftsVars, owner, tpc>>

Manager == TakeCreate \/ StartThread \/ StartFails \/ TakeCancel \/ CancelThread

-----------------------------------------------------------------------------
(* thread_manager_run_thread.  The method blocks on the disk and the sleep  *)
(* is a cancellation point: a pending cancellation ends the thread there.   *)

TestDead(t) == /\ owner[t] # None /\ tpc[t] = "test"
               /\ \E dead \in DeadSeen(owner[t]) :
                    tpc' = [tpc EXCEPT ![t] = IF dead THEN "sleep" ELSE "method"]
               /\ UNCHANGED <<create_fifo, cancel_fifo, is_dead, id, ftsVars, mpc, inhand,
                              owner, doomed>>

\* The method returns.
MethodDone(t) == /\ owner[t] # None /\ tpc[t] = "method"
                 /\ tpc' = [tpc EXCEPT ![t] = "sleep"]
                 /\ UNCHANGED <<create_fifo, cancel_fifo, is_dead, id, ftsVars, mpc,
                                inhand, owner, doomed>>

WakeUp(t) == /\ owner[t] # None /\ tpc[t] = "sleep" /\ t \notin doomed
             /\ tpc' = [tpc EXCEPT ![t] = "test"]
             /\ UNCHANGED <<create_fifo, cancel_fifo, is_dead, id, ftsVars, mpc, inhand,
                            owner, doomed>>

Die(t) == /\ owner[t] # None /\ tpc[t] \in {"sleep", "method"} /\ t \in doomed
          /\ owner' = [owner EXCEPT ![t] = None]
          /\ tpc' = [tpc EXCEPT ![t] = "sleep"]
          /\ doomed' = doomed \ {t}
          /\ UNCHANGED <<create_fifo, cancel_fifo, is_dead, id, ftsVars, mpc, inhand>>

Thread(t) == TestDead(t) \/ MethodDone(t) \/ WakeUp(t) \/ Die(t)

-----------------------------------------------------------------------------
User == \E w \in Workers : Open(w) \/ Close(w) \/ Delete(w)

Next == User \/ Handler \/ Manager \/ \E t \in Tids : Thread(t)

\* Threads run: the FTS thread ends the handler it is in, the manager and
\* the workers are endless loops with finite sleeps.
Fairness == /\ WF_vars(Handler)
            /\ WF_vars(Manager)
            /\ \A t \in Tids : WF_vars(Thread(t))

Spec == Init /\ [][Next]_vars /\ Fairness

-----------------------------------------------------------------------------
(* Properties.                                                              *)

\* Type invariant.
TypeOK == /\ create_fifo \in Seq(Workers) /\ Len(create_fifo) <= Capacity
          /\ cancel_fifo \in Seq(Workers) /\ Len(cancel_fifo) <= Capacity
          /\ is_dead \in [Workers -> BOOLEAN]
          /\ id \in [Workers -> Tids \cup {None}]
          /\ is_open \in [Workers -> BOOLEAN]
          /\ freed \subseteq Workers
          /\ todo \in Seq({"alive", "dead", "create", "cancel", "free"})
          /\ client \in Workers \cup {None}
          /\ calm \in BOOLEAN /\ requests \in Nat
          /\ mpc \in {"create", "start", "cancel", "kill"}
          /\ inhand \in Workers \cup {None}
          /\ owner \in [Tids -> Workers \cup {None}]
          /\ tpc \in [Tids -> {"test", "method", "sleep"}]
          /\ doomed \subseteq Tids

\* In a calm environment a worker never has two threads: two disk threads
\* would fill the same communication buffers from the same file.
OneThread == calm => \A w \in Workers : Cardinality(Live(w)) <= 1

\* In a calm environment a cancellation only reaches a thread of the worker
\* it was asked for ("Stop this thread"), although the identifier in a worker
\* is stale before its first thread and after its last.
CancelsOwn == [][calm => \A t \in doomed' \ doomed : owner[t] = inhand]_vars

\* A worker that is given back to the allocator is not used any more, neither
\* by a thread of its own nor by the manager ("delete the reader thread").
NeverUsedAfterFree == \A w \in freed : /\ Live(w) = {}
                                       /\ inhand # w
                                       /\ ~Contains(create_fifo, w)
                                       /\ ~Contains(cancel_fifo, w)

\* A worker that is closed for good has no thread left in the end: "Here we
\* stop the worker_thread" in readsf_close.
AlwaysStops == \A w \in Workers :
   (<>[](~is_open[w])) => <>[](w \in freed \/ Live(w) = {})

\* So it is in a calm environment: every cancel finds its thread.  And a
\* worker that stays open gets a thread, which keeps calling the method.
FollowsUser == calm => /\ AlwaysStops
                       /\ \A w \in Workers : (<>[](is_open[w])) =>
                            []<>(\E t \in Live(w) : tpc[t] = "method")

\* Neither fifo is starved by the other: every request is taken in the end,
\* whatever the users do.
RequestsTaken == /\ create_fifo # <<>> ~> create_fifo = <<>>
                 /\ cancel_fifo # <<>> ~> cancel_fifo = <<>>

\* Even where cancellation fails, is_dead keeps a closed worker quiet: in the
\* end no thread of it is inside the method.
QuietAfterClose == \A w \in Workers :
   (<>[](~is_open[w])) =>
      <>[](w \in freed \/ \A t \in Live(w) : tpc[t] # "method")
=============================================================================
