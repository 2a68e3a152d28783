-------------------------------- MODULE Sched --------------------------------
(***************************************************************************)
(* The scheduler loop of fts/sched.c: a linked list of callbacks, walked    *)
(* twice per turn, once for the file descriptors select found ready         *)
(* (run_select) and once for the callbacks that always run (run_always).    *)
(* Both walks keep a pointer to the next callback while a method runs, and  *)
(* the method may add and remove callbacks.  A callback is named by the     *)
(* order in which it was added; it is allocated while it is in the list.    *)
(***************************************************************************)
EXTENDS Naturals, Sequences, FiniteSets, SequencesExt, Lists

CONSTANTS Objects,
          Fds,           \* file descriptors (positive)
          MaxCallbacks   \* bound on the callbacks ever added

ASSUME SchedAssumption == /\ Fds \subseteq Nat \ {0}
                          /\ MaxCallbacks \in Nat \ {0}

VARIABLES callbacks,  \* the list, from callback_head
          status,     \* "ready" or "halted"
          pc,         \* "select", "walk" a list, "method" is running, "done"
          pass,       \* the walk: "select" or "always"
          callback,   \* the callback the walk is at (0: the end of the list)
          next,       \* the callback it goes to afterwards
          ready,      \* what select has found: <<"read" or "write", fd>>
          added,      \* callbacks added so far
          registered, \* callbacks in the list when the walk began
          called,     \* callbacks called in this walk
          dangling,   \* has a freed callback been followed?
          others      \* history: has a method removed a callback other than
                      \* the one it was called for?

vars == <<callbacks, status, pc, pass, callback, next, ready, added, registered,
          called, dangling, others>>

Nil == 0
NoFd == 0   \* the fd of a callback that always runs (-1 in the code)

Names == {callbacks[i].n : i \in DOMAIN callbacks}
Place(n) == CHOOSE i \in DOMAIN callbacks : callbacks[i].n = n
Callback(n) == callbacks[Place(n)]
NextOf(n) == IF Place(n) < Len(callbacks) THEN callbacks[Place(n) + 1].n ELSE Nil
HeadName == IF callbacks = <<>> THEN Nil ELSE Head(callbacks).n

\* At least one object has put itself in the list before the loop starts
\* (the audio manager and the client connection of main.c do).
Init == /\ \E o \in Objects :
             callbacks = <<[n |-> 1, object |-> o, flags |-> "always", fd |-> NoFd]>>
        /\ status = "ready"
        /\ pc = "select" /\ pass = "select"
        /\ callback = Nil /\ next = Nil
        /\ ready = {}
        /\ added = 1
        /\ registered = {} /\ called = {}
        /\ dangling = FALSE /\ others = FALSE

-----------------------------------------------------------------------------
(* fts_sched_add and fts_sched_remove, called by a running method.          *)

Registered(o) == \E i \in DOMAIN callbacks : callbacks[i].object = o

\* Mutant: the callback is put at the end of the list.
Pushed_Last(c) == Append(callbacks, c)

\* A new callback becomes the head of the list.
Pushed(c) == <<c>> \o callbacks

fts_sched_add(o, flags, fd) ==
  /\ pc = "method"
  /\ added < MaxCallbacks
  /\ added' = added + 1
  /\ callbacks' = Pushed([n |-> added + 1, object |-> o, flags |-> flags, fd |-> fd])
  /\ UNCHANGED <<status, pc, pass, callback, next, ready, registered, called, dangling, others>>

\* All callbacks of the object go.
fts_sched_remove(o) ==
  /\ pc = "method"
  /\ Registered(o)
  /\ callbacks' = Without(callbacks, {c \in ToSet(callbacks) : c.object = o})
  /\ others' = (others \/ \E i \in DOMAIN callbacks :
                            callbacks[i].object = o /\ callbacks[i].n # callback)
  /\ UNCHANGED <<status, pc, pass, callback, next, ready, added, registered, called,
                 dangling>>

fts_sched_halt == /\ pc = "method"
                  /\ status' = "halted"
                  /\ UNCHANGED <<callbacks, pc, pass, callback, next, ready, added,
                                 registered, called, dangling, others>>

-----------------------------------------------------------------------------
(* The loop of fts_sched_run.                                               *)

Request(c) == <<c.flags, c.fd>>

\* Mutant of Watched: the callbacks without a descriptor are watched too.
Watched_All == {Request(callbacks[i]) : i \in DOMAIN callbacks}

\* compute_fds: what select is asked about.
Watched == {Request(callbacks[i]) : i \in DOMAIN callbacks} \ {<<"always", NoFd>>}

\* A walk starts at the head of the list.
Walk(kind) == /\ pc' = "walk"
              /\ pass' = kind
              /\ callback' = HeadName
              /\ registered' = Names
              /\ called' = {}

\* Mutant: a turn in which nothing is ready is left before the second walk.
fts_sched_do_select_Skip == /\ pc = "select"
                            /\ status = "ready"
                            /\ ready' \in SUBSET Watched
                            /\ IF ready' = {}
                               THEN UNCHANGED <<pc, pass, callback, registered, called>>
                               ELSE Walk("select")
                            /\ UNCHANGED <<callbacks, status, next, added, dangling, others>>

\* select.  Without a ready descriptor, after an error and
\* with nothing to select on, the first walk is left out.
fts_sched_do_select == /\ pc = "select"
                       /\ status = "ready"
                       /\ ready' \in SUBSET Watched
                       /\ IF ready' = {} THEN Walk("always") ELSE Walk("select")
                       /\ UNCHANGED <<callbacks, status, next, added, dangling, others>>

SchedStop == /\ pc = "select"
             /\ status = "halted"
             /\ pc' = "done"
             /\ UNCHANGED <<callbacks, status, pass, callback, next, ready, added,
                            registered, called, dangling, others>>

\* Does the walk call this callback?
Chosen(c) == IF pass = "select" THEN Request(c) \in ready ELSE c.flags = "always"

Visiting == pc = "walk" /\ ~dangling

\* Mutant of Visit: the next callback is read after the method has run.
Visit_Late == /\ Visiting /\ callback \in Names
              /\ next' = callback
              /\ IF Chosen(Callback(callback))
                 THEN /\ pc' = "method"
                      /\ called' = called \cup {callback}
                      /\ UNCHANGED callback
                 ELSE /\ callback' = NextOf(callback)
                      /\ UNCHANGED <<pc, called>>
              /\ UNCHANGED <<callbacks, status, pass, ready, added, registered, dangling, others>>

\* next is read, then ready_mth is called.  (No class of the repository
\* defines a method for sched_error, so error_mth is always null.)
Visit == /\ Visiting /\ callback \in Names
         /\ next' = NextOf(callback)
         /\ IF Chosen(Callback(callback))
            THEN /\ pc' = "method"
                 /\ called' = called \cup {callback}
                 /\ UNCHANGED callback
            ELSE /\ callback' = NextOf(callback)
                 /\ UNCHANGED <<pc, called>>
         /\ UNCHANGED <<callbacks, status, pass, ready, added, registered, dangling, others>>

\* The callback the walk has reached was freed by the method before.
VisitFreed == /\ Visiting /\ callback # Nil /\ callback \notin Names
              /\ dangling' = TRUE
              /\ UNCHANGED <<callbacks, status, pc, pass, callback, next, ready, added,
                             registered, called, others>>

MethodEnd == /\ pc = "method"
             /\ pc' = "walk"
             /\ callback' = next
             /\ UNCHANGED <<callbacks, status, pass, next, ready, added, registered,
                            called, dangling, others>>

WalkEnd == /\ Visiting /\ callback = Nil
           /\ IF pass = "select"
              THEN Walk("always") /\ UNCHANGED <<status, next, ready, added, dangling, others>>
              ELSE /\ pc' = "select"
                   /\ UNCHANGED <<status, pass, callback, next, ready, added, registered,
                                  called, dangling, others>>
           /\ UNCHANGED callbacks

-----------------------------------------------------------------------------
Method == \E o \in Objects :
            \/ fts_sched_add(o, "always", NoFd)
            \/ \E fd \in Fds, f \in {"read", "write"} : fts_sched_add(o, f, fd)
            \/ fts_sched_remove(o)

Loop == fts_sched_do_select \/ SchedStop \/ Visit \/ VisitFreed \/ MethodEnd \/ WalkEnd

Next == Method \/ fts_sched_halt \/ Loop

\* The loop runs, and a method returns after finitely many operations.
Spec == Init /\ [][Next]_vars /\ WF_vars(Loop) /\ SF_vars(MethodEnd)

-----------------------------------------------------------------------------
(* Properties.                                                              *)

\* Type invariant.
TypeOK == /\ \A i \in DOMAIN callbacks :
               callbacks[i] \in [n : 1 .. MaxCallbacks, object : Objects,
                                 flags : {"read", "write", "always"},
                                 fd : Fds \cup {NoFd}]
          /\ status \in {"ready", "halted"}
          /\ pc \in {"select", "walk", "method", "done"}
          /\ pass \in {"select", "always"}
          /\ {callback, next} \subseteq 0 .. MaxCallbacks
          /\ ready \subseteq {"read", "write"} \X Fds
          /\ added \in 1 .. MaxCallbacks
          /\ registered \subseteq 1 .. MaxCallbacks
          /\ called \subseteq 1 .. MaxCallbacks
          /\ {dangling, others} \subseteq BOOLEAN

\* "the callback method ***can*** call fts_sched_remove, thus removing the
\* entry in the scheduler callback list": the walk never follows a callback
\* that has been freed.
AnyRemoveIsSafe == ~dangling

\* It never does as long as methods remove no callback but their own.
RemoveIsSafe == dangling => others

\* A walk calls every callback it should that is still there, and none twice,
\* whatever the methods add and remove.  It only calls what was in the list
\* when select looked at the descriptors: a callback added by a method of the
\* same walk, maybe with a descriptor number select has seen for another file,
\* waits for the next.
OnceEach == [][/\ pc = "walk" /\ pc' = "method" => callback \in registered \ called
               /\ WalkEnd => \A n \in registered \cap Names :
                               n \in called <=> Chosen(Callback(n))]_vars

\* A callback that stays in the list and always runs is called again and
\* again until the scheduler is halted (or the walk has left the list).
AlwaysServed == \A n \in 1 .. MaxCallbacks :
   <>[](n \in Names /\ Callback(n).flags = "always")
      => ([]<>(pass = "always" /\ n \in called) \/ <>(status = "halted" \/ dangling))
=============================================================================
