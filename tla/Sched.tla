-------------------------------- MODULE Sched --------------------------------
(***************************************************************************)
(* The kernel's round-robin scheduler on the one CPU the kernel drives:    *)
(* the ready queue, the thread the CPU runs, and the interrupt flag that   *)
(* decides where the timer may preempt.                                    *)
(*                                                                         *)
(* Every spinlock section runs with interrupts disabled (spinlock_disable) *)
(* and there is one CPU, so a section is one atomic step.  thread_sleep    *)
(* enters the scheduler with interrupts disabled, and sched_yield saves    *)
(* the flags, so a thread that slept runs on with interrupts disabled      *)
(* until it returns to user mode; elsewhere in the kernel and in user mode *)
(* the timer may preempt.                                                  *)
(*                                                                         *)
(* Queues of threads are sequences here.  ThreadQueue.tla models the       *)
(* intrusive links, and ThreadsTerminalProofs.tla shows that they          *)
(* implement sequences as long as a thread is in one queue at a time,      *)
(* which is what Placement, below, asks of the modules that extend this    *)
(* one.                                                                    *)
(***************************************************************************)
EXTENDS Naturals, FiniteSets, SequencesExt

CONSTANTS
    Thread,    \* the user threads
    BootOrder, \* the order in which modules_start made them ready
    Idle,      \* thread_idle
    NoThread   \* NULL: thread_current until the first tick

\* Each module of the boot image gets one main thread, made ready once.
ASSUME BootOrderAssumption ==
    /\ BootOrder \in Seq(Thread)
    /\ IsInjective(BootOrder)
    /\ ToSet(BootOrder) = Thread

ASSUME NotThreadsAssumption ==
    /\ Idle \notin Thread
    /\ NoThread \notin Thread
    /\ Idle # NoThread

VARIABLES
    state,   \* thread->state of each user thread
    ready,   \* s_ready_queue
    current, \* cpu->thread_current
    intr     \* the interrupt flag each thread runs, or will resume, with

schedVars == <<state, ready, current, intr>>

SchedTypeOK ==
    /\ state \in [Thread -> {"READY", "RUNNING", "SLEEPING"}]
    /\ ready \in Seq(Thread)
    /\ current \in Thread \cup {Idle, NoThread}
    /\ intr \in [Thread -> BOOLEAN]

\* The modules are ready and interrupts on; the boot code spins until the
\* first tick, and no thread is current.
SchedInit ==
    /\ state = [t \in Thread |-> "READY"]
    /\ ready = BootOrder
    /\ current = NoThread
    /\ intr = [t \in Thread |-> TRUE]

-----------------------------------------------------------------------------
\* The CPU takes an interrupt: the idle thread and the boot code always do.
InterruptsOn == current \in Thread => intr[current]

\* thread_wake_up of every thread of the sequence ts, in that order.
WakeUp(ts) ==
    /\ state' = [t \in Thread |-> IF t \in ToSet(ts) THEN "READY" ELSE state[t]]
    /\ ready' = ready \o ts

\* sched_next once the outgoing thread is dealt with: st and rq are the
\* states and the ready queue it left.
Dispatch(st, rq) ==
    IF rq = <<>>
    THEN /\ current' = Idle
         /\ state' = st
         /\ ready' = rq
    ELSE /\ current' = Head(rq)
         /\ state' = [st EXCEPT ![Head(rq)] = "RUNNING"]
         /\ ready' = Tail(rq)

\* Mutant: the outgoing thread goes to the front of the queue.
PreemptToFront ==
    /\ InterruptsOn
    /\ IF current \in Thread
       THEN Dispatch([state EXCEPT ![current] = "READY"], <<current>> \o ready)
       ELSE Dispatch(state, ready)
    /\ UNCHANGED intr

\* The timer interrupt: a running thread goes to the end of the ready queue,
\* the idle thread and the boot code are left behind.
Preempt ==
    /\ InterruptsOn
    /\ IF current \in Thread
       THEN Dispatch([state EXCEPT ![current] = "READY"], Append(ready, current))
       ELSE Dispatch(state, ready)
    /\ UNCHANGED intr

\* thread_sleep of the current thread, which has linked itself into a queue of
\* waiters: it will resume with interrupts disabled.
Sleep ==
    /\ Dispatch([state EXCEPT ![current] = "SLEEPING"], ready)
    /\ intr' = [intr EXCEPT ![current] = FALSE]

-----------------------------------------------------------------------------
\* The scheduler's part of "a thread is in one queue at a time".
Placement ==
    /\ IsInjective(ready)
    /\ \A t \in Thread : /\ state[t] = "READY" <=> t \in ToSet(ready)
                         /\ state[t] = "RUNNING" <=> t = current
=============================================================================
