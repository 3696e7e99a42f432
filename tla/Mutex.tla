-------------------------------- MODULE Mutex --------------------------------
(***************************************************************************)
(* The sleeping mutex, which guards the address space of each process and  *)
(* the kernel's.  mutex_unlock takes the first waiter inside the lock's    *)
(* section but wakes it after the section, so for a while a thread is in   *)
(* no queue and only the unlocking thread knows of it.  A woken thread has *)
(* no right to the mutex: it looks again and may have to sleep again.      *)
(***************************************************************************)
EXTENDS Sched

CONSTANTS Mutexes, NoMutex \* the mutexes, and "none"

ASSUME NoMutexAssumption == NoMutex \notin Mutexes

VARIABLES
    locker,  \* m->locker
    waiters, \* m->waiters
    pc,      \* what each thread does: "out", "wait", "in", or about to "wake"
    mutex,   \* the mutex of the mutex_lock or mutex_unlock it is in
    taken    \* the local t of its mutex_unlock

mutexVars == <<locker, waiters, pc, mutex, taken>>
allVars == <<schedVars, mutexVars>>

MutexTypeOK ==
    /\ SchedTypeOK
    /\ locker \in [Mutexes -> Thread \cup {NoThread}]
    /\ waiters \in [Mutexes -> Seq(Thread)]
    /\ pc \in [Thread -> {"out", "wait", "in", "wake"}]
    /\ mutex \in [Thread -> Mutexes \cup {NoMutex}]
    /\ taken \in [Thread -> Thread \cup {NoThread}]

MutexInit ==
    /\ SchedInit
    /\ locker = [m \in Mutexes |-> NoThread]
    /\ waiters = [m \in Mutexes |-> <<>>]
    /\ pc = [t \in Thread |-> "out"]
    /\ mutex = [t \in Thread |-> NoMutex]
    /\ taken = [t \in Thread |-> NoThread]

-----------------------------------------------------------------------------
At(t, place) == current = t /\ pc[t] = place

\* The loop of mutex_lock: take the mutex if nobody has it, else sleep on it.
TakeOrWait(t, m) ==
    IF locker[m] = NoThread
    THEN /\ locker' = [locker EXCEPT ![m] = t]
         /\ pc' = [pc EXCEPT ![t] = "in"]
         /\ UNCHANGED <<schedVars, waiters>>
    ELSE /\ waiters' = [waiters EXCEPT ![m] = Append(@, t)]
         /\ pc' = [pc EXCEPT ![t] = "wait"]
         /\ Sleep
         /\ UNCHANGED locker

\* mutex_lock by a thread that holds none.
Lock(t) ==
    /\ At(t, "out")
    /\ \E m \in Mutexes : mutex' = [mutex EXCEPT ![t] = m] /\ TakeOrWait(t, m)
    /\ UNCHANGED taken

\* Mutant: a woken thread takes the mutex without looking again.
RetryBlindly(t) ==
    /\ At(t, "wait")
    /\ locker' = [locker EXCEPT ![mutex[t]] = t]
    /\ pc' = [pc EXCEPT ![t] = "in"]
    /\ UNCHANGED <<schedVars, waiters, mutex, taken>>

\* mutex_lock, after thread_sleep.
Retry(t) ==
    /\ At(t, "wait")
    /\ TakeOrWait(t, mutex[t])
    /\ UNCHANGED <<mutex, taken>>

\* Mutant: the first waiter is noted but stays in the queue.
UnlockPeek(t) ==
    /\ At(t, "in")
    /\ LET m == mutex[t]
       IN  /\ locker' = [locker EXCEPT ![m] = NoThread]
           /\ IF waiters[m] = <<>>
              THEN /\ pc' = [pc EXCEPT ![t] = "out"]
                   /\ mutex' = [mutex EXCEPT ![t] = NoMutex]
                   /\ UNCHANGED taken
              ELSE /\ pc' = [pc EXCEPT ![t] = "wake"]
                   /\ taken' = [taken EXCEPT ![t] = Head(waiters[m])]
                   /\ UNCHANGED mutex
    /\ UNCHANGED <<schedVars, waiters>>

\* Mutant: the waiters are left alone.
UnlockQuietly(t) ==
    /\ At(t, "in")
    /\ locker' = [locker EXCEPT ![mutex[t]] = NoThread]
    /\ pc' = [pc EXCEPT ![t] = "out"]
    /\ mutex' = [mutex EXCEPT ![t] = NoMutex]
    /\ UNCHANGED <<schedVars, waiters, taken>>

\* mutex_unlock: release the mutex and take the first waiter off the queue ...
Unlock(t) ==
    /\ At(t, "in")
    /\ LET m == mutex[t]
       IN  /\ locker' = [locker EXCEPT ![m] = NoThread]
           /\ IF waiters[m] = <<>>
              THEN /\ pc' = [pc EXCEPT ![t] = "out"]
                   /\ mutex' = [mutex EXCEPT ![t] = NoMutex]
                   /\ UNCHANGED <<waiters, taken>>
              ELSE /\ pc' = [pc EXCEPT ![t] = "wake"]
                   /\ waiters' = [waiters EXCEPT ![m] = Tail(@)]
                   /\ taken' = [taken EXCEPT ![t] = Head(waiters[m])]
                   /\ UNCHANGED mutex
    /\ UNCHANGED schedVars

\* Mutant: the thread taken off the queue is forgotten.
WakeNobody(t) ==
    /\ At(t, "wake")
    /\ pc' = [pc EXCEPT ![t] = "out"]
    /\ mutex' = [mutex EXCEPT ![t] = NoMutex]
    /\ taken' = [taken EXCEPT ![t] = NoThread]
    /\ UNCHANGED <<schedVars, locker, waiters>>

\* ... then wake it, outside the lock.
Wake(t) ==
    /\ At(t, "wake")
    /\ WakeUp(<<taken[t]>>)
    /\ pc' = [pc EXCEPT ![t] = "out"]
    /\ mutex' = [mutex EXCEPT ![t] = NoMutex]
    /\ taken' = [taken EXCEPT ![t] = NoThread]
    /\ UNCHANGED <<current, intr, locker, waiters>>

\* The system call of a thread that slept ends.
Return(t) ==
    /\ At(t, "out") /\ ~ intr[t]
    /\ intr' = [intr EXCEPT ![t] = TRUE]
    /\ UNCHANGED <<state, ready, current, mutexVars>>

-----------------------------------------------------------------------------
Continue(t) == Retry(t) \/ Unlock(t) \/ Wake(t)
MutexNext ==
    \/ Preempt /\ UNCHANGED mutexVars
    \/ \E t \in Thread : Lock(t) \/ Continue(t) \/ Return(t)

\* The timer keeps ticking, and a thread that gets the CPU again and again gets
\* on with its call: what a mutex guards ends, and so does the call.
MutexFairness ==
    /\ WF_allVars(Preempt /\ UNCHANGED mutexVars)
    /\ \A t \in Thread : SF_allVars(Continue(t)) /\ SF_allVars(Return(t))

MutexSpec == MutexInit /\ [][MutexNext]_allVars
FairMutexSpec == MutexSpec /\ MutexFairness

-----------------------------------------------------------------------------
(* Properties *)

\* Only the thread the mutex names as its locker is between lock and unlock.
MutualExclusion ==
    \A t \in Thread, m \in Mutexes : pc[t] = "in" /\ mutex[t] = m <=> locker[m] = t

\* Threads about to be woken by some unlocking thread.
Taken == {taken[u] : u \in {v \in Thread : pc[v] = "wake"}}

\* A sleeping thread is a waiter of its mutex, or the one thread some unlock is
\* about to wake: never both, never neither, and never twice.
MutexPlacement ==
    /\ Placement
    /\ \A m \in Mutexes :
         /\ IsInjective(waiters[m])
         /\ \A t \in ToSet(waiters[m]) :
              state[t] = "SLEEPING" /\ mutex[t] = m /\ t \notin Taken
    /\ \A t \in Taken : state[t] = "SLEEPING" /\ pc[t] = "wait"
    /\ \A t, u \in Thread : pc[t] = "wake" /\ pc[u] = "wake" /\ taken[t] = taken[u] => t = u
    /\ \A t \in Thread : state[t] = "SLEEPING" =>
         pc[t] = "wait" /\ (t \in ToSet(waiters[mutex[t]]) \/ t \in Taken)

\* Nobody sleeps on a free mutex unless somebody is on the way to it: a woken
\* waiter, or an unlocking thread that is about to wake one.
NoLostWakeup ==
    \A m \in Mutexes : locker[m] = NoThread /\ waiters[m] # <<>> =>
      \E t \in Thread : /\ mutex[t] = m
                        /\ \/ pc[t] = "wake"
                           \/ pc[t] = "wait" /\ state[t] # "SLEEPING"

\* A mutex somebody waits for is released and taken again and again, though not
\* always by the same waiter.
HandsOver ==
    \A m \in Mutexes :
      /\ locker[m] = NoThread /\ waiters[m] # <<>> ~> locker[m] # NoThread
      /\ locker[m] # NoThread ~> locker[m] = NoThread
=============================================================================
