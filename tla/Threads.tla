------------------------------- MODULE Threads -------------------------------
(***************************************************************************)
(* The end of a thread: thread_exit hands the thread to the cleaner, a     *)
(* kernel thread that sleeps until there is something to reap.  The ready, *)
(* cleanup and waiter queues are modelled by their links (ThreadQueue),    *)
(* because the exit path is the one that can put a thread that is already  *)
(* in a queue into it again.                                               *)
(*                                                                         *)
(* One queue of waiters stands for those of ports and mutexes: a thread    *)
(* links itself and sleeps, an interrupt handler wakes the first one.      *)
(***************************************************************************)
EXTENDS Naturals, FiniteSets, SequencesExt

CONSTANTS
    User,      \* the user threads
    Cleaner,   \* s_cleaner_thread
    BootOrder, \* the order in which modules_start made them ready
    Idle,      \* thread_idle
    NoThread   \* NULL

ASSUME ThreadsAssumption ==
    /\ BootOrder \in Seq(User) /\ IsInjective(BootOrder) /\ ToSet(BootOrder) = User
    /\ Cleaner \notin User
    /\ Idle \notin User \cup {Cleaner}
    /\ NoThread \notin User \cup {Cleaner, Idle}

Thread == User \cup {Cleaner}

INSTANCE ThreadQueue

VARIABLES
    state,    \* thread->state
    next,     \* thread->sched_next
    ready,    \* s_ready_queue
    cleanup,  \* s_cleanup_queue
    waiters,  \* a queue of waiting threads
    current,  \* cpu->thread_current
    intr,     \* the interrupt flag each thread runs, or will resume, with
    cleaning, \* the cleaner's place: about to "pop", or found nothing, "sleep"
    rushed    \* history: a thread exited while the cleaner was not at rest

vars == <<state, next, ready, cleanup, waiters, current, intr, cleaning, rushed>>

TypeOK ==
    /\ state \in [Thread -> {"CREATED", "SLEEPING", "READY", "RUNNING", "DEAD"}]
    /\ next \in Links
    /\ {ready, cleanup, waiters} \subseteq Queue
    /\ current \in Thread \cup {Idle, NoThread}
    /\ intr \in [Thread -> BOOLEAN]
    /\ cleaning \in {"pop", "sleep"}
    /\ rushed \in BOOLEAN

\* The cleaner was created and never made ready; the boot code has made the
\* main threads ready in order.
Init ==
    /\ state = [t \in Thread |-> IF t = Cleaner THEN "CREATED" ELSE "READY"]
    /\ ready = [first |-> Head(BootOrder), last |-> Last(BootOrder)]
    /\ next \in {n \in Links : /\ n[Cleaner] = NoThread
                               /\ Represents(ready, n, BootOrder)}
    /\ cleanup = EmptyThreadQueue
    /\ waiters = EmptyThreadQueue
    /\ current = NoThread
    /\ intr = [t \in Thread |-> TRUE]
    /\ cleaning = "pop"
    /\ rushed = FALSE

-----------------------------------------------------------------------------
InterruptsOn == current \in Thread => intr[current]

\* sched_next, once the outgoing thread is dealt with: st, rq and links are the
\* states, the ready queue and the links it left.
Dispatch(st, rq, links) ==
    /\ current' = IF IsEmpty(rq) THEN Idle ELSE rq.first
    /\ state' = [t \in Thread |-> IF t = rq.first THEN "RUNNING" ELSE st[t]]
    /\ ready' = Popped(rq, links)
    /\ next' = links

\* The timer interrupt: a running thread goes to the end of the ready queue.
Preempt ==
    /\ InterruptsOn
    /\ IF current \in Thread /\ state[current] = "RUNNING"
       THEN Dispatch([state EXCEPT ![current] = "READY"], Added(ready, current),
                     AddedLinks(ready, next, current))
       ELSE Dispatch(state, ready, next)
    /\ UNCHANGED <<cleanup, waiters, intr, cleaning, rushed>>

\* A user thread links itself into a queue of waiters and calls thread_sleep.
Wait(t) ==
    /\ current = t
    /\ waiters' = Added(waiters, t)
    /\ Dispatch([state EXCEPT ![t] = "SLEEPING"], ready, AddedLinks(waiters, next, t))
    /\ intr' = [intr EXCEPT ![t] = FALSE]
    /\ UNCHANGED <<cleanup, cleaning, rushed>>

\* Mutant: the first waiter is woken but stays in the queue.
NotifyPeek ==
    /\ InterruptsOn
    /\ ~ IsEmpty(waiters)
    /\ LET t == waiters.first
       IN  /\ state' = [state EXCEPT ![t] = "READY"]
           /\ ready' = Added(ready, t)
           /\ next' = AddedLinks(ready, next, t)
    /\ UNCHANGED <<waiters, cleanup, current, intr, cleaning, rushed>>

\* An interrupt handler pops the first waiter and calls thread_wake_up.
Notify ==
    /\ InterruptsOn
    /\ ~ IsEmpty(waiters)
    /\ LET t == waiters.first
       IN  /\ waiters' = Popped(waiters, next)
           /\ state' = [state EXCEPT ![t] = "READY"]
           /\ ready' = Added(ready, t)
           /\ next' = AddedLinks(ready, next, t)
    /\ UNCHANGED <<cleanup, current, intr, cleaning, rushed>>

\* A woken thread finishes its system call.
Return(t) ==
    /\ current = t /\ ~ intr[t]
    /\ intr' = [intr EXCEPT ![t] = TRUE]
    /\ UNCHANGED <<state, next, ready, cleanup, waiters, current, cleaning, rushed>>

\* Mutant: the cleaner is not woken.
ExitQuietly(t) ==
    /\ current = t
    /\ cleanup' = Added(cleanup, t)
    /\ Dispatch([state EXCEPT ![t] = "DEAD"], ready, AddedLinks(cleanup, next, t))
    /\ UNCHANGED <<waiters, intr, cleaning, rushed>>

\* The cleaner has done what it was woken for, or was never woken.
CleanerAtRest == state[Cleaner] \in {"CREATED", "SLEEPING"}

\* thread_exit: queue the thread for cleanup, wake the cleaner whatever it is
\* doing, and leave the CPU.
Exit(t) ==
    /\ current = t
    /\ LET dead == AddedLinks(cleanup, next, t)
       IN  /\ cleanup' = Added(cleanup, t)
           /\ Dispatch([state EXCEPT ![t] = "DEAD", ![Cleaner] = "READY"],
                       Added(ready, Cleaner), AddedLinks(ready, dead, Cleaner))
    /\ rushed' = (rushed \/ ~ CleanerAtRest)
    /\ UNCHANGED <<waiters, intr, cleaning>>

\* thread_cleaner: take the next dead thread; the loop has no more to do for it.
Reap ==
    /\ current = Cleaner /\ cleaning = "pop"
    /\ cleanup' = Popped(cleanup, next)
    /\ cleaning' = IF IsEmpty(cleanup) THEN "sleep" ELSE "pop"
    /\ UNCHANGED <<state, next, ready, waiters, current, intr, rushed>>

\* There was none: thread_sleep.
CleanerSleep ==
    /\ current = Cleaner /\ cleaning = "sleep"
    /\ Dispatch([state EXCEPT ![Cleaner] = "SLEEPING"], ready, next)
    /\ intr' = [intr EXCEPT ![Cleaner] = FALSE]
    /\ cleaning' = "pop"
    /\ UNCHANGED <<cleanup, waiters, rushed>>

-----------------------------------------------------------------------------
Next ==
    \/ Preempt \/ Notify \/ Reap \/ CleanerSleep
    \/ \E t \in User : Wait(t) \/ Return(t) \/ Exit(t)

\* The timer keeps ticking.  A preempted thread resumes at the instruction it
\* had reached, so one that gets the CPU again and again finishes its section:
\* strong fairness for the cleaner.
Fairness ==
    /\ WF_vars(Preempt)
    /\ SF_vars(Reap) /\ SF_vars(CleanerSleep)
    /\ \A t \in User : WF_vars(Return(t))

Spec == Init /\ [][Next]_vars /\ Fairness

-----------------------------------------------------------------------------
(* Properties *)

\* The threads found by following the links of q: the k-th step of the walk.
Steps == Cardinality(Thread) + 1
Walk(q) ==
    LET at[k \in 1 .. Steps] ==
          IF k = 1 THEN q.first
          ELSE IF at[k - 1] = NoThread THEN NoThread ELSE next[at[k - 1]]
    IN  at
Linked(q) == {Walk(q)[k] : k \in 1 .. Steps} \ {NoThread}

\* Each queue's walk ends, at its last thread, and no thread is in two queues, until
\* a thread exits while the cleaner, woken for another, is still at work.
QueuesIntact ==
    ~ rushed =>
      /\ \A q \in {ready, cleanup, waiters} :
           /\ Walk(q)[Steps] = NoThread
           /\ q.last # NoThread => q.last \in Linked(q) /\ next[q.last] = NoThread
           /\ q.last = NoThread => Linked(q) = {}
      /\ Linked(ready) \cap Linked(cleanup) = {}
      /\ Linked(ready) \cap Linked(waiters) = {}
      /\ Linked(cleanup) \cap Linked(waiters) = {}

\* The scheduler can find every thread that is ready to run.
NoThreadLost == \A t \in Thread : state[t] = "READY" => t \in Linked(ready)

\* Until then, every queue holds threads of its kind only, and every thread that can
\* run or be woken again is where the code will look for it.
ThreadsAccounted ==
    ~ rushed =>
      /\ \A t \in Thread : state[t] = "READY" <=> t \in Linked(ready)
      /\ \A t \in Thread : state[t] = "RUNNING" <=> t = current
      /\ \A t \in User : state[t] = "SLEEPING" <=> t \in Linked(waiters)
      /\ \A t \in Linked(cleanup) : state[t] = "DEAD"

\* The cleaner gets to every thread that exited, unless another exits meanwhile.
DeadReaped == \A t \in User : t \in Linked(cleanup) ~> t \notin Linked(cleanup) \/ rushed
=============================================================================
