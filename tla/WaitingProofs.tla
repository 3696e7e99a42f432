---------------------------- MODULE WaitingProofs ----------------------------
(***************************************************************************)
(* Invariance proofs for the two places where threads sleep in a list of   *)
(* waiters and others wake them: Mutex and Server.                         *)
(*                                                                         *)
(* The inductive invariant of Mutex grows by layers:                       *)
(*   Typed  MutexTypeOK and what the locals of a call hold;                *)
(*   Held   Typed and MutualExclusion;                                     *)
(*   Placed Typed and MutexPlacement, with the fact that an unlock wakes   *)
(*          a waiter of the mutex it unlocked (TakenFromHere).             *)
(* NoLostWakeup is preserved wherever Placed holds.                        *)
(*                                                                         *)
(* That of Server is RegistryInv.  A registration chooses from the list    *)
(* the waiters for its name and leaves the others: between them they are   *)
(* the list, and the orders stay (Split).                                  *)
(***************************************************************************)
EXTENDS Mutex, Server, SchedProofs

-----------------------------------------------------------------------------
(* Mutex. *)

Typed ==
    /\ MutexTypeOK
    /\ \A t \in Thread : /\ pc[t] # "out" => mutex[t] \in Mutexes
                         /\ pc[t] = "wake" => taken[t] \in Thread

LEMMA TakeOrWaitTyped ==
    ASSUME Typed, NEW t \in Thread, current = t, NEW m \in Mutexes, TakeOrWait(t, m)
    PROVE  /\ SchedTypeOK'
           /\ locker' \in [Mutexes -> Thread \cup {NoThread}]
           /\ waiters' \in [Mutexes -> Seq(Thread)]
           /\ \E place \in {"in", "wait"} : pc' = [pc EXCEPT ![t] = place]
<1>1. waiters[m] \in Seq(Thread)
  BY DEF Typed, MutexTypeOK
<1>2. CASE locker[m] = NoThread
  BY <1>2 DEF TakeOrWait, Typed, MutexTypeOK, SchedTypeOK, schedVars
<1>3. CASE locker[m] # NoThread
  <2>1. Append(waiters[m], t) \in Seq(Thread)
    BY <1>1, AppendElements
  <2>2. SchedTypeOK'
    BY <1>3, SleepTyped DEF TakeOrWait, Typed, MutexTypeOK
  <2> QED BY <1>3, <2>1, <2>2 DEF TakeOrWait, Typed, MutexTypeOK
<1> QED BY <1>2, <1>3

LEMMA TypedInit == MutexInit => Typed
<1> SUFFICES ASSUME MutexInit PROVE Typed
  OBVIOUS
<1>1. SchedTypeOK
  BY BootOrderAssumption DEF MutexInit, SchedInit, SchedTypeOK
<1> QED BY <1>1 DEF MutexInit, Typed, MutexTypeOK

LEMMA TypedStep == Typed /\ [MutexNext]_allVars => Typed'
<1> SUFFICES ASSUME Typed, [MutexNext]_allVars PROVE Typed'
  OBVIOUS
<1>t. MutexTypeOK
  BY DEF Typed
<1>1. CASE Preempt /\ UNCHANGED mutexVars
  BY <1>1, PreemptTyped DEF Typed, MutexTypeOK, mutexVars
<1>2. ASSUME NEW t \in Thread, Lock(t) PROVE Typed'
  <2>1. PICK m \in Mutexes : mutex' = [mutex EXCEPT ![t] = m] /\ TakeOrWait(t, m)
    BY <1>2 DEF Lock
  <2>2. current = t /\ taken' = taken
    BY <1>2 DEF Lock, At
  <2>3. /\ SchedTypeOK'
        /\ locker' \in [Mutexes -> Thread \cup {NoThread}]
        /\ waiters' \in [Mutexes -> Seq(Thread)]
        /\ \E place \in {"in", "wait"} : pc' = [pc EXCEPT ![t] = place]
    BY <2>1, <2>2, TakeOrWaitTyped
  <2>4. MutexTypeOK'
    BY <1>t, <2>1, <2>2, <2>3 DEF MutexTypeOK
  <2> QED BY <1>t, <2>1, <2>2, <2>3, <2>4 DEF Typed, MutexTypeOK
<1>3. ASSUME NEW t \in Thread, Retry(t) PROVE Typed'
  <2>1. current = t /\ mutex[t] \in Mutexes /\ TakeOrWait(t, mutex[t])
    BY <1>3 DEF Retry, At, Typed
  <2>2. mutex' = mutex /\ taken' = taken
    BY <1>3 DEF Retry
  <2>3. /\ SchedTypeOK'
        /\ locker' \in [Mutexes -> Thread \cup {NoThread}]
        /\ waiters' \in [Mutexes -> Seq(Thread)]
        /\ \E place \in {"in", "wait"} : pc' = [pc EXCEPT ![t] = place]
    BY <2>1, TakeOrWaitTyped
  <2>4. MutexTypeOK'
    BY <1>t, <2>2, <2>3 DEF MutexTypeOK
  <2> QED BY <1>t, <2>1, <2>2, <2>3, <2>4 DEF Typed, MutexTypeOK
<1>4. ASSUME NEW t \in Thread, Unlock(t) PROVE Typed'
  <2>1. mutex[t] \in Mutexes /\ waiters[mutex[t]] \in Seq(Thread) /\ pc[t] = "in"
    BY <1>t, <1>4 DEF Unlock, At, Typed, MutexTypeOK
  <2>2. CASE waiters[mutex[t]] = <<>>
    <3>1. MutexTypeOK'
      BY <1>t, <1>4, <2>1, <2>2 DEF Unlock, MutexTypeOK, SchedTypeOK, schedVars
    <3> QED BY <1>t, <1>4, <2>2, <3>1 DEF Unlock, Typed, MutexTypeOK
  <2>3. CASE waiters[mutex[t]] # <<>>
    <3>1. Head(waiters[mutex[t]]) \in Thread /\ Tail(waiters[mutex[t]]) \in Seq(Thread)
      BY <2>1, <2>3, PopElements
    <3>2. MutexTypeOK'
      BY <1>t, <1>4, <2>1, <2>3, <3>1 DEF Unlock, MutexTypeOK, SchedTypeOK, schedVars
    <3> QED BY <1>t, <1>4, <2>1, <2>3, <3>1, <3>2 DEF Unlock, Typed, MutexTypeOK
  <2> QED BY <2>2, <2>3
<1>5. ASSUME NEW t \in Thread, Wake(t) PROVE Typed'
  <2>1. <<taken[t]>> \in Seq(Thread)
    BY <1>5 DEF Wake, At, Typed
  <2>2. SchedTypeOK'
    BY <1>t, <1>5, <2>1, WakeUpTyped DEF Wake, MutexTypeOK
  <2>3. MutexTypeOK'
    BY <1>t, <1>5, <2>2 DEF Wake, MutexTypeOK
  <2> QED BY <1>t, <1>5, <2>3 DEF Wake, Typed, MutexTypeOK
<1>6. ASSUME NEW t \in Thread, Return(t) PROVE Typed'
  BY <1>6 DEF Return, Typed, MutexTypeOK, SchedTypeOK, mutexVars
<1>7. CASE UNCHANGED allVars
  BY <1>7 DEF allVars, schedVars, mutexVars, Typed, MutexTypeOK, SchedTypeOK
<1> QED BY <1>1, <1>2, <1>3, <1>4, <1>5, <1>6, <1>7 DEF MutexNext, Continue

-----------------------------------------------------------------------------
Held == Typed /\ MutualExclusion

LEMMA HeldStep == Held /\ [MutexNext]_allVars => Held'
<1> SUFFICES ASSUME Held, [MutexNext]_allVars PROVE MutualExclusion'
  BY TypedStep DEF Held
<1>t. /\ locker \in [Mutexes -> Thread \cup {NoThread}]
      /\ pc \in [Thread -> {"out", "wait", "in", "wake"}]
      /\ mutex \in [Thread -> Mutexes \cup {NoMutex}]
      /\ MutualExclusion
  BY DEF Held, Typed, MutexTypeOK
<1>1. CASE Preempt /\ UNCHANGED mutexVars
  BY <1>t, <1>1 DEF mutexVars, MutualExclusion
\* A thread that held no mutex takes a free one, or none.
<1>2. ASSUME NEW t \in Thread, NEW m \in Mutexes, pc[t] \in {"out", "wait"},
             mutex' = [mutex EXCEPT ![t] = m], TakeOrWait(t, m)
      PROVE  MutualExclusion'
  <2>1. \A n \in Mutexes : locker[n] # t
    BY <1>t, <1>2 DEF MutualExclusion
  <2>2. CASE locker[m] = NoThread
    <3>1. /\ locker' = [locker EXCEPT ![m] = t] /\ pc' = [pc EXCEPT ![t] = "in"]
      BY <1>2, <2>2 DEF TakeOrWait
    <3> QED BY <1>t, <1>2, <2>1, <2>2, <3>1, NotThreadsAssumption DEF MutualExclusion
  <2>3. CASE locker[m] # NoThread
    <3>1. locker' = locker /\ pc' = [pc EXCEPT ![t] = "wait"]
      BY <1>2, <2>3 DEF TakeOrWait
    <3> QED BY <1>t, <1>2, <2>1, <3>1 DEF MutualExclusion
  <2> QED BY <2>2, <2>3
<1>3. ASSUME NEW t \in Thread, Lock(t) PROVE MutualExclusion'
  BY <1>2, <1>3 DEF Lock, At
<1>4. ASSUME NEW t \in Thread, Retry(t) PROVE MutualExclusion'
  <2>1. /\ mutex[t] \in Mutexes /\ pc[t] = "wait" /\ TakeOrWait(t, mutex[t])
        /\ mutex' = [mutex EXCEPT ![t] = mutex[t]]
    BY <1>t, <1>4 DEF Retry, At, Held, Typed
  <2> QED BY <1>2, <2>1
<1>5. ASSUME NEW t \in Thread, Unlock(t) PROVE MutualExclusion'
  <2>1. /\ mutex[t] \in Mutexes /\ pc[t] = "in"
        /\ locker' = [locker EXCEPT ![mutex[t]] = NoThread]
        /\ \E place \in {"out", "wake"} : pc' = [pc EXCEPT ![t] = place]
        /\ \A u \in Thread : u # t => mutex'[u] = mutex[u]
    BY <1>t, <1>5 DEF Unlock, At, Held, Typed
  <2>2. \A n \in Mutexes : locker[n] = t <=> n = mutex[t]
    BY <1>t, <2>1 DEF MutualExclusion
  <2> QED BY <1>t, <2>1, <2>2, NotThreadsAssumption DEF MutualExclusion
<1>6. ASSUME NEW t \in Thread, Wake(t) PROVE MutualExclusion'
  BY <1>t, <1>6 DEF Wake, At, MutualExclusion
<1>7. ASSUME NEW t \in Thread, Return(t) PROVE MutualExclusion'
  BY <1>t, <1>7 DEF Return, mutexVars, MutualExclusion
<1>8. CASE UNCHANGED allVars
  BY <1>t, <1>8 DEF allVars, mutexVars, MutualExclusion
<1> QED BY <1>1, <1>3, <1>4, <1>5, <1>6, <1>7, <1>8 DEF MutexNext, Continue

\* mutex_lock lets one thread at a time between lock and unlock, and it is the one
\* the mutex names.
THEOREM Exclusion == MutexSpec => []MutualExclusion
<1>1. MutexInit => Held
  BY TypedInit, NotThreadsAssumption DEF MutexInit, Held, MutualExclusion
<1>2. Held => MutualExclusion
  BY DEF Held
<1> QED BY <1>1, <1>2, HeldStep, PTL DEF MutexSpec

-----------------------------------------------------------------------------
\* MutexPlacement, pointwise, apart from the scheduler's part of it.
IsTaken(t) == \E u \in Thread : pc[u] = "wake" /\ taken[u] = t

Sleepers ==
    /\ \A m \in Mutexes : IsInjective(waiters[m])
    /\ \A m \in Mutexes : \A t \in ToSet(waiters[m]) :
         state[t] = "SLEEPING" /\ mutex[t] = m /\ ~ IsTaken(t)
    /\ \A u \in Thread : pc[u] = "wake" =>
         state[taken[u]] = "SLEEPING" /\ pc[taken[u]] = "wait"
    /\ \A t, u \in Thread : pc[t] = "wake" /\ pc[u] = "wake" /\ taken[t] = taken[u] => t = u
    /\ \A t \in Thread : state[t] = "SLEEPING" =>
         pc[t] = "wait" /\ (t \in ToSet(waiters[mutex[t]]) \/ IsTaken(t))

\* Who is about to be woken waits for the mutex that was unlocked.
TakenFromHere == \A u \in Thread : pc[u] = "wake" => mutex[taken[u]] = mutex[u]

Placed == Typed /\ Placement /\ Sleepers /\ TakenFromHere

LEMMA PlacedGivesMutexPlacement == Placed => MutexPlacement
<1> SUFFICES ASSUME Placed PROVE MutexPlacement
  OBVIOUS
<1>1. \A t : t \in Taken <=> IsTaken(t)
  BY DEF Taken, IsTaken
<1> QED BY <1>1 DEF Placed, Sleepers, MutexPlacement, IsTaken

LEMMA PlacedInit == MutexInit => Placed
<1> SUFFICES ASSUME MutexInit PROVE Placed
  OBVIOUS
<1>1. Placement
  BY BootOrderAssumption, NotThreadsAssumption DEF MutexInit, SchedInit, Placement
<1>2. Sleepers /\ TakenFromHere
  BY EmptyQueue DEF MutexInit, SchedInit, Sleepers, TakenFromHere
<1> QED BY <1>1, <1>2, TypedInit DEF Placed

\* Steps of the running thread that neither wait nor wake, and the timer's.
LEMMA SleepersFrame ==
    ASSUME Placed, UNCHANGED waiters,
           \A t \in Thread : state'[t] = "SLEEPING" <=> state[t] = "SLEEPING",
           \A t \in Thread : state[t] = "SLEEPING" => pc'[t] = pc[t] /\ mutex'[t] = mutex[t],
           \A t \in Thread : pc'[t] = "wake" <=> pc[t] = "wake",
           \A t \in Thread : pc[t] = "wake" => taken'[t] = taken[t] /\ mutex'[t] = mutex[t]
    PROVE  Sleepers' /\ TakenFromHere'
<1>1. \A m \in Mutexes : ToSet(waiters[m]) \subseteq Thread
  BY QueueElements DEF Placed, Typed, MutexTypeOK
<1>2. \A t \in Thread : IsTaken(t)' <=> IsTaken(t)
  BY DEF IsTaken
<1>3. \A u \in Thread : pc[u] = "wake" => taken[u] \in Thread
  BY DEF Placed, Typed
<1>4. \A t \in Thread : state[t] = "SLEEPING" => mutex[t] \in Mutexes
  BY DEF Placed, Typed, Sleepers
<1>5. Sleepers'
  BY <1>1, <1>2, <1>3, <1>4 DEF Placed, Sleepers
<1>6. TakenFromHere'
  BY <1>3 DEF Placed, Sleepers, TakenFromHere
<1> QED BY <1>5, <1>6

\* A thread that is not asleep takes the mutex or joins its waiters.
LEMMA TakeOrWaitPlaces ==
    ASSUME Placed, NEW t \in Thread, current = t, NEW m \in Mutexes, TakeOrWait(t, m),
           pc[t] \in {"out", "wait"}, mutex' = [mutex EXCEPT ![t] = m], taken' = taken
    PROVE  Placement' /\ Sleepers' /\ TakenFromHere'
<1>1. /\ SchedTypeOK /\ waiters \in [Mutexes -> Seq(Thread)]
      /\ mutex \in [Thread -> Mutexes \cup {NoMutex}]
      /\ pc \in [Thread -> {"out", "wait", "in", "wake"}]
      /\ Placement /\ Sleepers /\ TakenFromHere
  BY DEF Placed, Typed, MutexTypeOK
<1>2. state[t] # "SLEEPING"
  BY <1>1 DEF Placement
<1>3. \A n \in Mutexes : ToSet(waiters[n]) \subseteq Thread /\ t \notin ToSet(waiters[n])
  BY <1>1, <1>2, QueueElements DEF Sleepers
<1>4. \A u \in Thread : pc[u] = "wake" => taken[u] \in Thread \ {t}
  BY <1>1, <1>2 DEF Placed, Typed, Sleepers
<1>5. CASE locker[m] = NoThread
  <2>1. UNCHANGED schedVars /\ waiters' = waiters /\ pc' = [pc EXCEPT ![t] = "in"]
    BY <1>5 DEF TakeOrWait
  <2>2. Placement'
    BY <1>1, <2>1 DEF Placement, schedVars
  <2>3. /\ state' = state
        /\ \A u \in Thread : u # t => pc'[u] = pc[u] /\ mutex'[u] = mutex[u]
        /\ pc'[t] = "in"
    BY <1>1, <2>1 DEF schedVars
  <2> QED BY <1>1, <1>2, <2>1, <2>2, <2>3, SleepersFrame
<1>6. CASE locker[m] # NoThread
  <2>1. /\ waiters' = [waiters EXCEPT ![m] = Append(@, t)]
        /\ pc' = [pc EXCEPT ![t] = "wait"] /\ Sleep
    BY <1>6 DEF TakeOrWait
  <2>2. /\ Placement'
        /\ \A u \in Thread : state'[u] = "SLEEPING" <=> state[u] = "SLEEPING" \/ u = t
    BY <1>1, <2>1, SleepPlaces
  <2>3. /\ IsInjective(Append(waiters[m], t))
        /\ ToSet(Append(waiters[m], t)) = ToSet(waiters[m]) \cup {t}
    BY <1>1, <1>3, AppendElements, AppendNew DEF Sleepers
  <2>4. \A n \in Mutexes :
          /\ IsInjective(waiters'[n])
          /\ ToSet(waiters'[n]) = IF n = m THEN ToSet(waiters[n]) \cup {t} ELSE ToSet(waiters[n])
    <3> SUFFICES ASSUME NEW n \in Mutexes
                 PROVE  /\ IsInjective(waiters'[n])
                        /\ ToSet(waiters'[n]) = IF n = m THEN ToSet(waiters[n]) \cup {t} ELSE ToSet(waiters[n])
      OBVIOUS
    <3>1. CASE n = m
      <4>1. waiters'[n] = Append(waiters[m], t)
        BY <1>1, <2>1, <3>1
      <4> QED BY <2>3, <3>1, <4>1
    <3>2. CASE n # m
      <4>1. waiters'[n] = waiters[n]
        BY <1>1, <2>1, <3>2
      <4> QED BY <1>1, <3>2, <4>1 DEF Sleepers
    <3> QED BY <3>1, <3>2
  <2>5. /\ \A u \in Thread : u # t => pc'[u] = pc[u] /\ mutex'[u] = mutex[u]
        /\ pc'[t] = "wait" /\ mutex'[t] = m
    BY <1>1, <2>1
  <2>6. \A u \in Thread : IsTaken(u)' <=> IsTaken(u)
    BY <2>5 DEF IsTaken
  <2>7. ~ IsTaken(t)
    BY <1>4 DEF IsTaken
  <2>8. ASSUME NEW n \in Mutexes, NEW u \in ToSet(waiters'[n])
        PROVE  state'[u] = "SLEEPING" /\ mutex'[u] = n /\ ~ IsTaken(u)'
    <3>1. CASE u = t
      BY <1>3, <2>2, <2>4, <2>5, <2>6, <2>7, <2>8, <3>1
    <3>2. CASE u # t
      <4>1. u \in ToSet(waiters[n]) /\ u \in Thread
        BY <1>3, <2>4, <2>8, <3>2
      <4> QED BY <1>1, <2>2, <2>5, <2>6, <3>2, <4>1 DEF Sleepers
    <3> QED BY <3>1, <3>2
  <2>9. ASSUME NEW u \in Thread, pc'[u] = "wake"
        PROVE  /\ state'[taken'[u]] = "SLEEPING" /\ pc'[taken'[u]] = "wait"
               /\ mutex'[taken'[u]] = mutex'[u]
    <3>1. pc[u] = "wake" /\ u # t /\ taken[u] \in Thread \ {t}
      BY <1>4, <2>5, <2>9
    <3> QED BY <1>1, <2>2, <2>5, <3>1 DEF Sleepers, TakenFromHere
  <2>10. \A u, v \in Thread : pc'[u] = "wake" /\ pc'[v] = "wake" /\ taken'[u] = taken'[v] => u = v
    BY <1>1, <2>5 DEF Sleepers
  <2>11. ASSUME NEW u \in Thread, state'[u] = "SLEEPING"
         PROVE  pc'[u] = "wait" /\ (u \in ToSet(waiters'[mutex'[u]]) \/ IsTaken(u)')
    <3>1. CASE u = t
      BY <2>4, <2>5, <3>1
    <3>2. CASE u # t
      <4>1. state[u] = "SLEEPING"
        BY <2>2, <2>11, <3>2
      <4>2. pc[u] = "wait" /\ mutex[u] \in Mutexes
        BY <1>1, <4>1 DEF Sleepers, Placed, Typed
      <4>3. u \in ToSet(waiters[mutex[u]]) \/ IsTaken(u)
        BY <1>1, <4>1 DEF Sleepers
      <4>4. ToSet(waiters[mutex[u]]) \subseteq ToSet(waiters'[mutex[u]])
        BY <2>4, <4>2
      <4>5. pc'[u] = pc[u] /\ mutex'[u] = mutex[u] /\ (IsTaken(u)' <=> IsTaken(u))
        BY <2>5, <2>6, <3>2
      <4> HIDE DEF IsTaken
      <4> QED BY <4>2, <4>3, <4>4, <4>5
    <3> QED BY <3>1, <3>2
  <2>12. Sleepers'
    BY <2>4, <2>8, <2>9, <2>10, <2>11 DEF Sleepers
  <2> QED BY <2>2, <2>9, <2>12 DEF TakenFromHere
<1> QED BY <1>5, <1>6

\* An unlock takes the first waiter out of the queue.
LEMMA UnlockPlaces ==
    ASSUME Placed, NEW t \in Thread, Unlock(t)
    PROVE  Placement' /\ Sleepers' /\ TakenFromHere'
<1>1. /\ SchedTypeOK /\ waiters \in [Mutexes -> Seq(Thread)]
      /\ mutex \in [Thread -> Mutexes \cup {NoMutex}]
      /\ pc \in [Thread -> {"out", "wait", "in", "wake"}]
      /\ taken \in [Thread -> Thread \cup {NoThread}]
      /\ Placement /\ Sleepers /\ TakenFromHere
      /\ \A u \in Thread : pc[u] = "wake" => taken[u] \in Thread
  BY DEF Placed, Typed, MutexTypeOK
<1>2. /\ pc[t] = "in" /\ mutex[t] \in Mutexes /\ UNCHANGED schedVars
  BY DEF Unlock, At, Placed, Typed
<1>3. Placement' /\ state' = state /\ state[t] # "SLEEPING"
  BY <1>1, <1>2 DEF Placement, schedVars, Sleepers
<1>m. PICK m \in Mutexes : m = mutex[t]
  BY <1>2
<1>4. CASE waiters[m] = <<>>
  <2>1. /\ waiters' = waiters /\ taken' = taken /\ pc' = [pc EXCEPT ![t] = "out"]
        /\ mutex' = [mutex EXCEPT ![t] = NoMutex]
    BY <1>4, <1>m DEF Unlock
  <2>2. /\ \A u \in Thread : u # t => pc'[u] = pc[u] /\ mutex'[u] = mutex[u]
        /\ pc'[t] = "out"
    BY <1>1, <2>1
  <2> QED BY <1>2, <1>3, <2>1, <2>2, SleepersFrame
<1>5. CASE waiters[m] # <<>>
  <2>h. PICK h \in Thread : h = Head(waiters[m])
    BY <1>1, <1>5, PopElements
  <2>1. /\ waiters' = [waiters EXCEPT ![m] = Tail(@)] /\ mutex' = mutex
        /\ pc' = [pc EXCEPT ![t] = "wake"] /\ taken' = [taken EXCEPT ![t] = h]
    BY <1>5, <1>m, <2>h DEF Unlock
  <2>2. /\ h \in ToSet(waiters[m])
        /\ ToSet(waiters[m]) = ToSet(Tail(waiters[m])) \cup {h}
        /\ IsInjective(Tail(waiters[m])) /\ h \notin ToSet(Tail(waiters[m]))
    BY <1>1, <1>5, <2>h, PopElements, PopOnce DEF Sleepers
  <2>3. /\ state[h] = "SLEEPING" /\ mutex[h] = m /\ ~ IsTaken(h) /\ pc[h] = "wait"
    BY <1>1, <2>2 DEF Sleepers
  <2>4. /\ h # t /\ pc'[t] = "wake" /\ taken'[t] = h
        /\ \A u \in Thread : u # t => pc'[u] = pc[u] /\ taken'[u] = taken[u]
    BY <1>1, <1>3, <2>1, <2>3
  <2>5. \A u \in Thread : IsTaken(u)' <=> IsTaken(u) \/ u = h
    BY <1>2, <2>4 DEF IsTaken
  <2>6. \A n \in Mutexes :
          /\ IsInjective(waiters'[n])
          /\ ToSet(waiters'[n]) = IF n = m THEN ToSet(waiters[n]) \ {h} ELSE ToSet(waiters[n])
          /\ ToSet(waiters[n]) \subseteq Thread
    <3> SUFFICES ASSUME NEW n \in Mutexes
                 PROVE  /\ IsInjective(waiters'[n])
                        /\ ToSet(waiters'[n]) = IF n = m THEN ToSet(waiters[n]) \ {h} ELSE ToSet(waiters[n])
                        /\ ToSet(waiters[n]) \subseteq Thread
      OBVIOUS
    <3>1. ToSet(waiters[n]) \subseteq Thread
      BY <1>1, QueueElements
    <3>2. CASE n = m
      <4>1. waiters'[n] = Tail(waiters[m])
        BY <1>1, <2>1, <3>2
      <4> QED BY <2>2, <3>1, <3>2, <4>1
    <3>3. CASE n # m
      <4>1. waiters'[n] = waiters[n]
        BY <1>1, <2>1, <3>3
      <4> QED BY <1>1, <3>1, <3>3, <4>1 DEF Sleepers
    <3> QED BY <3>2, <3>3
  <2>7. ASSUME NEW n \in Mutexes, NEW u \in ToSet(waiters'[n])
        PROVE  state'[u] = "SLEEPING" /\ mutex'[u] = n /\ ~ IsTaken(u)'
    <3>1. u \in ToSet(waiters[n]) /\ u \in Thread
      BY <2>6, <2>7
    <3>2. state[u] = "SLEEPING" /\ mutex[u] = n /\ ~ IsTaken(u)
      BY <1>1, <3>1 DEF Sleepers
    <3>3. u # h
      BY <2>3, <2>6, <2>7, <3>2
    <3>4. ~ IsTaken(u)'
      BY <2>5, <3>1, <3>2, <3>3
    <3> QED BY <1>3, <2>1, <3>2, <3>4
  <2>8. ASSUME NEW u \in Thread, pc'[u] = "wake"
        PROVE  /\ state'[taken'[u]] = "SLEEPING" /\ pc'[taken'[u]] = "wait"
               /\ mutex'[taken'[u]] = mutex'[u]
    <3>1. CASE u = t
      BY <1>3, <1>m, <2>1, <2>3, <2>4, <3>1
    <3>2. CASE u # t
      <4>1. pc[u] = "wake" /\ taken'[u] = taken[u] /\ taken[u] \in Thread
        BY <1>1, <2>4, <2>8, <3>2
      <4>2. /\ state[taken[u]] = "SLEEPING" /\ pc[taken[u]] = "wait"
            /\ mutex[taken[u]] = mutex[u]
        BY <1>1, <4>1 DEF Sleepers, TakenFromHere
      <4>3. taken[u] # t
        BY <1>3, <4>2
      <4> QED BY <1>3, <2>1, <2>4, <4>1, <4>2, <4>3
    <3> QED BY <3>1, <3>2
  <2>9. \A u, v \in Thread : pc'[u] = "wake" /\ pc'[v] = "wake" /\ taken'[u] = taken'[v] => u = v
    <3>1. \A u \in Thread : u # t /\ pc'[u] = "wake" => pc[u] = "wake" /\ taken'[u] # h
      BY <2>3, <2>4 DEF IsTaken
    <3> QED BY <1>1, <2>4, <3>1 DEF Sleepers
  <2>10. ASSUME NEW u \in Thread, state'[u] = "SLEEPING"
         PROVE  pc'[u] = "wait" /\ (u \in ToSet(waiters'[mutex'[u]]) \/ IsTaken(u)')
    <3>1. /\ pc[u] = "wait" /\ mutex[u] \in Mutexes /\ u # t
          /\ u \in ToSet(waiters[mutex[u]]) \/ IsTaken(u)
      BY <1>1, <1>3, <2>10 DEF Sleepers, Placed, Typed
    <3>2. u \in ToSet(waiters'[mutex[u]]) \/ u = h \/ IsTaken(u)
      BY <2>6, <3>1
    <3>3. pc'[u] = "wait" /\ mutex'[u] = mutex[u]
      BY <2>1, <2>4, <3>1
    <3>4. u = h \/ IsTaken(u) => IsTaken(u)'
      BY <2>5
    <3> QED BY <3>2, <3>3, <3>4
  <2>11. Sleepers'
    BY <2>6, <2>7, <2>8, <2>9, <2>10 DEF Sleepers
  <2> QED BY <1>3, <2>8, <2>11 DEF TakenFromHere
<1> QED BY <1>4, <1>5

\* The wake-up puts the thread that was taken out into the ready queue.
LEMMA WakePlaces ==
    ASSUME Placed, NEW t \in Thread, Wake(t)
    PROVE  Placement' /\ Sleepers' /\ TakenFromHere'
<1>1. /\ SchedTypeOK /\ waiters \in [Mutexes -> Seq(Thread)]
      /\ mutex \in [Thread -> Mutexes \cup {NoMutex}]
      /\ pc \in [Thread -> {"out", "wait", "in", "wake"}]
      /\ taken \in [Thread -> Thread \cup {NoThread}]
      /\ Placement /\ Sleepers /\ TakenFromHere
      /\ \A u \in Thread : pc[u] = "wake" => taken[u] \in Thread
  BY DEF Placed, Typed, MutexTypeOK
<1>2. pc[t] = "wake" /\ current = t
  BY DEF Wake, At
<1>h. PICK h \in Thread : h = taken[t]
  BY <1>1, <1>2
<1>3. state[h] = "SLEEPING" /\ pc[h] = "wait" /\ IsTaken(h) /\ h # t
  BY <1>1, <1>2, <1>h DEF Sleepers, IsTaken
<1>4. /\ pc' = [pc EXCEPT ![t] = "out"] /\ mutex' = [mutex EXCEPT ![t] = NoMutex]
      /\ taken' = [taken EXCEPT ![t] = NoThread] /\ waiters' = waiters
      /\ WakeUp(<<h>>) /\ current' = current
  BY <1>h DEF Wake
<1>5. /\ Placement'
      /\ \A u \in Thread : state'[u] = IF u = h THEN "READY" ELSE state[u]
  BY <1>1, <1>3, <1>4, WakeUpPlaces
<1>6. /\ pc'[t] = "out"
      /\ \A u \in Thread : u # t => /\ pc'[u] = pc[u] /\ taken'[u] = taken[u]
                                    /\ mutex'[u] = mutex[u]
  BY <1>1, <1>4
<1>7. state[t] # "SLEEPING"
  BY <1>1, <1>2 DEF Sleepers
<1>8. \A u \in Thread : u # t /\ pc[u] = "wake" => taken[u] # h
  BY <1>1, <1>2, <1>h DEF Sleepers
<1>9. \A u \in Thread : IsTaken(u)' <=> IsTaken(u) /\ u # h
  BY <1>2, <1>6, <1>8, <1>h DEF IsTaken
<1>10. ASSUME NEW n \in Mutexes, NEW u \in ToSet(waiters'[n])
       PROVE  state'[u] = "SLEEPING" /\ mutex'[u] = n /\ ~ IsTaken(u)'
  <2>1. u \in ToSet(waiters[n]) /\ u \in Thread
    BY <1>1, <1>4, <1>10, QueueElements
  <2>2. state[u] = "SLEEPING" /\ mutex[u] = n /\ ~ IsTaken(u)
    BY <1>1, <2>1 DEF Sleepers
  <2>3. u # h /\ u # t
    BY <1>3, <1>7, <2>2
  <2>4. ~ IsTaken(u)'
    BY <1>9, <2>1, <2>2
  <2> QED BY <1>5, <1>6, <2>1, <2>2, <2>3, <2>4
<1>11. ASSUME NEW u \in Thread, pc'[u] = "wake"
       PROVE  /\ state'[taken'[u]] = "SLEEPING" /\ pc'[taken'[u]] = "wait"
              /\ mutex'[taken'[u]] = mutex'[u]
  <2>1. u # t /\ pc[u] = "wake" /\ taken'[u] = taken[u] /\ taken[u] \in Thread
    BY <1>1, <1>6, <1>11
  <2>2. /\ state[taken[u]] = "SLEEPING" /\ pc[taken[u]] = "wait"
        /\ mutex[taken[u]] = mutex[u]
    BY <1>1, <2>1 DEF Sleepers, TakenFromHere
  <2>3. taken[u] # h /\ taken[u] # t
    BY <1>7, <1>8, <2>1, <2>2
  <2> QED BY <1>5, <1>6, <2>1, <2>2, <2>3
<1>12. \A u, v \in Thread : pc'[u] = "wake" /\ pc'[v] = "wake" /\ taken'[u] = taken'[v] => u = v
  BY <1>1, <1>6 DEF Sleepers
<1>13. ASSUME NEW u \in Thread, state'[u] = "SLEEPING"
       PROVE  pc'[u] = "wait" /\ (u \in ToSet(waiters'[mutex'[u]]) \/ IsTaken(u)')
  <2>1. u # h /\ state[u] = "SLEEPING" /\ u # t
    BY <1>5, <1>7, <1>13
  <2>2. pc[u] = "wait" /\ (u \in ToSet(waiters[mutex[u]]) \/ IsTaken(u))
    BY <1>1, <2>1 DEF Sleepers
  <2>3. IsTaken(u) => IsTaken(u)'
    BY <1>9, <2>1
  <2> QED BY <1>4, <1>6, <2>1, <2>2, <2>3
<1>14. \A n \in Mutexes : IsInjective(waiters'[n])
  BY <1>1, <1>4 DEF Sleepers
<1>15. Sleepers'
  BY <1>10, <1>11, <1>12, <1>13, <1>14 DEF Sleepers
<1> QED BY <1>5, <1>11, <1>15 DEF TakenFromHere

LEMMA PlacedStep == Placed /\ [MutexNext]_allVars => Placed'
<1> SUFFICES ASSUME Placed, [MutexNext]_allVars PROVE Placement' /\ Sleepers' /\ TakenFromHere'
  BY TypedStep DEF Placed
<1>t. /\ SchedTypeOK /\ Placement /\ Typed
      /\ mutex \in [Thread -> Mutexes \cup {NoMutex}]
  BY DEF Placed, Typed, MutexTypeOK
<1>1. CASE Preempt /\ UNCHANGED mutexVars
  BY <1>t, <1>1, PreemptPlaces, SleepersFrame DEF mutexVars
<1>2. ASSUME NEW t \in Thread, Lock(t) PROVE Placement' /\ Sleepers' /\ TakenFromHere'
  BY <1>2, TakeOrWaitPlaces DEF Lock, At
<1>3. ASSUME NEW t \in Thread, Retry(t) PROVE Placement' /\ Sleepers' /\ TakenFromHere'
  <2>1. /\ current = t /\ mutex[t] \in Mutexes /\ pc[t] = "wait" /\ TakeOrWait(t, mutex[t])
        /\ mutex' = [mutex EXCEPT ![t] = mutex[t]] /\ taken' = taken
    BY <1>t, <1>3 DEF Retry, At, Typed
  <2> QED BY <2>1, TakeOrWaitPlaces
<1>4. ASSUME NEW t \in Thread, Return(t) PROVE Placement' /\ Sleepers' /\ TakenFromHere'
  BY <1>t, <1>4, SleepersFrame DEF Return, mutexVars, Placement
<1>5. CASE UNCHANGED allVars
  BY <1>t, <1>5, SleepersFrame DEF allVars, schedVars, mutexVars, Placement
<1> QED BY <1>1, <1>2, <1>3, <1>4, <1>5, UnlockPlaces, WakePlaces DEF MutexNext, Continue

LEMMA PlacedAlways == MutexSpec => []Placed
BY PlacedInit, PlacedStep, PTL DEF MutexSpec

\* A sleeping thread is a waiter of its mutex, once, or the one thread some unlock
\* has taken out and not woken yet.
THEOREM WaitersPlaced == MutexSpec => []MutexPlacement
BY PlacedAlways, PlacedGivesMutexPlacement, PTL

-----------------------------------------------------------------------------
\* Who will see that mutex m is free: an unlocking thread before its wake-up, or a
\* waiter after it.
OnTheWay(t, m) ==
    /\ mutex[t] = m
    /\ \/ pc[t] = "wake"
       \/ pc[t] = "wait" /\ state[t] # "SLEEPING"

LEMMA WakeupStep == Placed /\ NoLostWakeup /\ [MutexNext]_allVars => NoLostWakeup'
<1> SUFFICES ASSUME Placed, NoLostWakeup, [MutexNext]_allVars,
                    NEW m \in Mutexes, locker'[m] = NoThread, waiters'[m] # <<>>
             PROVE  \E t \in Thread : OnTheWay(t, m)'
  BY DEF NoLostWakeup, OnTheWay
<1>t. /\ locker \in [Mutexes -> Thread \cup {NoThread}]
      /\ waiters \in [Mutexes -> Seq(Thread)]
      /\ mutex \in [Thread -> Mutexes \cup {NoMutex}]
      /\ pc \in [Thread -> {"out", "wait", "in", "wake"}]
      /\ SchedTypeOK /\ Placement
  BY DEF Placed, Typed, MutexTypeOK
<1>o. locker[m] = NoThread /\ waiters[m] # <<>> => \E t \in Thread : OnTheWay(t, m)
  BY DEF NoLostWakeup, OnTheWay
<1>1. CASE Preempt /\ UNCHANGED mutexVars
  <2>1. \A t \in Thread : state'[t] = "SLEEPING" <=> state[t] = "SLEEPING"
    BY <1>t, <1>1, PreemptPlaces
  <2> QED BY <1>o, <1>1, <2>1 DEF OnTheWay, mutexVars
\* A thread outside takes another mutex, or is no witness.
<1>2. ASSUME NEW t \in Thread, current = t, NEW n \in Mutexes, TakeOrWait(t, n),
             mutex' = [mutex EXCEPT ![t] = n],
             pc[t] = "out" \/ (pc[t] = "wait" /\ mutex[t] = n)
      PROVE  \E u \in Thread : OnTheWay(u, m)'
  <2>1. n # m /\ locker'[m] = locker[m] /\ waiters'[m] = waiters[m]
    <3>1. CASE locker[n] = NoThread
      BY <1>t, <1>2, <3>1, NotThreadsAssumption DEF TakeOrWait
    <3>2. CASE locker[n] # NoThread
      BY <1>t, <1>2, <3>2 DEF TakeOrWait
    <3> QED BY <3>1, <3>2
  <2>2. PICK u \in Thread : OnTheWay(u, m)
    BY <1>o, <2>1
  <2>3. u # t
    BY <1>2, <2>1, <2>2 DEF OnTheWay
  <2>4. pc'[u] = pc[u] /\ mutex'[u] = mutex[u]
    BY <1>t, <1>2, <2>3 DEF TakeOrWait
  <2>5. state'[u] = "SLEEPING" => state[u] = "SLEEPING"
    <3>1. CASE locker[n] = NoThread
      BY <1>2, <3>1 DEF TakeOrWait, schedVars
    <3>2. CASE locker[n] # NoThread
      <4>1. Sleep
        BY <1>2, <3>2 DEF TakeOrWait
      <4> QED BY <1>t, <1>2, <2>3, <4>1, SleepPlaces
    <3> QED BY <3>1, <3>2
  <2> QED BY <2>2, <2>4, <2>5 DEF OnTheWay
<1>3. ASSUME NEW t \in Thread, Lock(t) PROVE \E u \in Thread : OnTheWay(u, m)'
  BY <1>2, <1>3 DEF Lock, At
<1>4. ASSUME NEW t \in Thread, Retry(t) PROVE \E u \in Thread : OnTheWay(u, m)'
  <2>1. /\ current = t /\ mutex[t] \in Mutexes /\ pc[t] = "wait" /\ TakeOrWait(t, mutex[t])
        /\ mutex' = [mutex EXCEPT ![t] = mutex[t]]
    BY <1>t, <1>4 DEF Retry, At, Placed, Typed
  <2> QED BY <1>2, <2>1
\* The unlocking thread itself is on the way.
<1>5. ASSUME NEW t \in Thread, Unlock(t) PROVE \E u \in Thread : OnTheWay(u, m)'
  <2>1. pc[t] = "in" /\ mutex[t] \in Mutexes /\ state' = state
    BY <1>5 DEF Unlock, At, Placed, Typed, schedVars
  <2>2. CASE mutex[t] = m
    <3>1. waiters[m] # <<>>
      BY <1>5, <2>2 DEF Unlock
    <3>2. pc'[t] = "wake" /\ mutex'[t] = m
      BY <1>t, <1>5, <2>2, <3>1 DEF Unlock
    <3> QED BY <3>2 DEF OnTheWay
  <2>3. CASE mutex[t] # m
    <3>1. locker'[m] = locker[m] /\ waiters'[m] = waiters[m]
      BY <1>t, <1>5, <2>1, <2>3 DEF Unlock
    <3>2. PICK u \in Thread : OnTheWay(u, m)
      BY <1>o, <3>1
    <3>3. u # t
      BY <2>3, <3>2 DEF OnTheWay
    <3>4. pc'[u] = pc[u] /\ mutex'[u] = mutex[u]
      BY <1>t, <1>5, <3>3 DEF Unlock
    <3> QED BY <2>1, <3>2, <3>4 DEF OnTheWay
  <2> QED BY <2>2, <2>3
\* The woken waiter takes the waking thread's place.
<1>6. ASSUME NEW t \in Thread, Wake(t) PROVE \E u \in Thread : OnTheWay(u, m)'
  <2>1. /\ pc[t] = "wake" /\ locker' = locker /\ waiters' = waiters
        /\ pc' = [pc EXCEPT ![t] = "out"] /\ mutex' = [mutex EXCEPT ![t] = NoMutex]
    BY <1>6 DEF Wake, At
  <2>h. PICK h \in Thread : h = taken[t]
    BY <2>1 DEF Placed, Typed
  <2>2. /\ pc[h] = "wait" /\ mutex[h] = mutex[t] /\ h # t
    BY <2>1, <2>h DEF Placed, Sleepers, TakenFromHere
  <2>3. state' = [u \in Thread |-> IF u \in ToSet(<<h>>) THEN "READY" ELSE state[u]]
    BY <1>6, <2>h DEF Wake, WakeUp
  <2>4. /\ state'[h] = "READY"
        /\ \A u \in Thread : state'[u] = "SLEEPING" => state[u] = "SLEEPING"
    BY <2>3 DEF ToSet
  <2>5. PICK u \in Thread : OnTheWay(u, m)
    BY <1>o, <2>1
  <2>6. CASE u = t
    <3>1. mutex'[h] = m /\ pc'[h] = "wait"
      BY <1>t, <2>1, <2>2, <2>5, <2>6 DEF OnTheWay
    <3> QED BY <2>4, <3>1 DEF OnTheWay
  <2>7. CASE u # t
    <3>1. pc'[u] = pc[u] /\ mutex'[u] = mutex[u]
      BY <1>t, <2>1, <2>7
    <3> QED BY <2>4, <2>5, <3>1 DEF OnTheWay
  <2> QED BY <2>6, <2>7
<1>7. ASSUME NEW t \in Thread, Return(t) PROVE \E u \in Thread : OnTheWay(u, m)'
  BY <1>o, <1>7 DEF Return, mutexVars, OnTheWay
<1>8. CASE UNCHANGED allVars
  BY <1>o, <1>8 DEF allVars, schedVars, mutexVars, OnTheWay
<1> QED BY <1>1, <1>3, <1>4, <1>5, <1>6, <1>7, <1>8 DEF MutexNext, Continue

\* Nobody sleeps on a free mutex unless a thread that was woken, or that is about
\* to wake one, is on the way to it.
THEOREM UnlocksWake == MutexSpec => []NoLostWakeup
<1>1. MutexInit => NoLostWakeup
  BY DEF MutexInit, NoLostWakeup
<1> QED BY <1>1, PlacedAlways, WakeupStep, PTL DEF MutexSpec

-----------------------------------------------------------------------------
(* Server. *)

\* Nobody sleeps for a name that has been registered, if the structures hold that
\* name whole.
FittingUnregistered ==
    \A t \in Thread : state[t] = "SLEEPING" /\ Stored[sought[t]] = sought[t] =>
      \A a \in announced : a.name # sought[t]

\* The inductive invariant: beside the two properties, every registration is in the
\* table under what the structure holds of its name, and so is the name of a thread
\* that was woken.
RegistryInv ==
    /\ TypeOK
    /\ ThreadPlacement
    /\ FittingUnregistered
    /\ \A a \in announced : Known(Stored[a.name])
    /\ \A t \in Thread : sought[t] # NoName /\ state[t] # "SLEEPING" => Known(Stored[sought[t]])

\* hashtable_get finds the newest structure with the name.
LEMMA PortTyped ==
    ASSUME TypeOK, NEW n \in Name, Known(n)
    PROVE  PortOf(n) \in Port
<1> DEFINE I == {i \in DOMAIN servers : servers[i].name = n}
<1>1. servers \in Seq([name : Name, port : Port]) /\ DOMAIN servers = 1 .. Len(servers)
  BY DEF TypeOK
<1>2. I \in SUBSET Nat /\ I # {}
  BY <1>1 DEF Known
<1>3. PICK m \in I : \A k \in I : m <= k
  <2> HIDE DEF I
  <2> QED BY <1>2, LeastNatural
<1>4. /\ m \in DOMAIN servers /\ servers[m].name = n
      /\ \A j \in 1 .. m - 1 : servers[j].name # n
  BY <1>1, <1>3
<1> DEFINE First(i) == /\ servers[i].name = n
                       /\ \A j \in 1 .. i - 1 : servers[j].name # n
           c == CHOOSE i \in DOMAIN servers : First(i)
<1>5. c \in DOMAIN servers
  <2>1. First(m)
    BY <1>4
  <2> HIDE DEF First
  <2> QED BY <1>4, <2>1
<1>6. PortOf(n) = servers[c].port
  BY DEF PortOf
<1> HIDE DEF c
<1>7. servers[c] \in [name : Name, port : Port]
  BY <1>1, <1>5, ElementOfSeq
<1> QED BY <1>6, <1>7

-----------------------------------------------------------------------------
(* A registration: who is woken, and who stays. *)

\* The threads of ts waited for name n; the waiters of left, for other names.
Split(n, ts, left) ==
    /\ ts \in Seq(Thread) /\ IsInjective(ts)
    /\ left \in Seq(Waiter) /\ Len(left) <= MaxWaiters
    /\ \A i, j \in DOMAIN left : left[i].waiter = left[j].waiter => i = j
    /\ ToSet(left) = {w \in ToSet(waitlist) : w.name # n}
    /\ \A t : t \in ToSet(ts) <=> \E w \in ToSet(waitlist) : w.name = n /\ w.waiter = t

LEMMA WalkSplits ==
    ASSUME RegistryInv, NEW n \in Name,
           NEW woken, woken = Chosen(waitlist, For(n)),
           NEW left, left = Chosen(waitlist, Waiter \ For(n)),
           NEW ts, ts = [k \in DOMAIN woken |-> woken[k].waiter]
    PROVE  Split(n, ts, left)
<1>1. /\ waitlist \in Seq(Waiter) /\ Len(waitlist) <= MaxWaiters /\ MaxWaiters \in Nat
      /\ \A i, j \in DOMAIN waitlist : waitlist[i].waiter = waitlist[j].waiter => i = j
      /\ ToSet(waitlist) \subseteq Waiter
  BY QueueElements, ServerAssumption DEF RegistryInv, TypeOK, ThreadPlacement
<1>2. /\ woken \in Seq(Waiter) /\ left \in Seq(Waiter) /\ Len(left) <= Len(waitlist)
      /\ ToSet(woken) = ToSet(waitlist) \cap For(n)
      /\ ToSet(left) = ToSet(waitlist) \cap (Waiter \ For(n))
  BY <1>1, ChosenElements
<1>3. Len(left) <= MaxWaiters
  BY <1>1, <1>2, LenProperties
<1>4. \A w \in Waiter : w \in For(n) <=> w.name = n
  BY DEF For, Waiter
<1>5. ToSet(left) = {w \in ToSet(waitlist) : w.name # n}
  BY <1>1, <1>2, <1>4
<1> DEFINE R == {p \in Waiter \X Waiter : p[1].waiter # p[2].waiter}
           Apart(s) == \A i, j \in 1 .. Len(s) : i < j => << s[i], s[j] >> \in R
<1>6. Apart(waitlist)
  BY <1>1
<1>7. ASSUME NEW s \in Seq(Waiter), Apart(s)
      PROVE  \A i, j \in DOMAIN s : s[i].waiter = s[j].waiter => i = j
  <2>1. DOMAIN s = 1 .. Len(s) /\ Len(s) \in Nat
    OBVIOUS
  <2>2. \A i, j \in 1 .. Len(s) : i < j => s[i].waiter # s[j].waiter
    BY <1>7
  <2> QED BY <2>1, <2>2
<1>8. Apart(woken) /\ Apart(left)
  <2> HIDE DEF R
  <2> QED BY <1>1, <1>6, ChosenPairs
<1>9. \A i, j \in DOMAIN left : left[i].waiter = left[j].waiter => i = j
  BY <1>2, <1>7, <1>8
<1>10. \A i, j \in DOMAIN woken : woken[i].waiter = woken[j].waiter => i = j
  BY <1>2, <1>7, <1>8
<1>11. ts \in Seq(Thread) /\ DOMAIN ts = DOMAIN woken
  <2>1. DOMAIN woken = 1 .. Len(woken) /\ Len(woken) \in Nat
    BY <1>2
  <2>2. \A k \in 1 .. Len(woken) : woken[k].waiter \in Thread
    <3>1. ASSUME NEW k \in 1 .. Len(woken) PROVE woken[k] \in Waiter
      BY <1>2, ElementOfSeq
    <3> QED BY <3>1 DEF Waiter
  <2>3. ts \in [1 .. Len(woken) -> Thread]
    BY <2>1, <2>2
  <2> QED BY <2>1, <2>3, SeqDef
<1>12. IsInjective(ts)
  BY <1>10, <1>11 DEF IsInjective
<1>13. ASSUME NEW t
       PROVE  t \in ToSet(ts) <=> \E w \in ToSet(waitlist) : w.name = n /\ w.waiter = t
  <2>1. t \in ToSet(ts) <=> \E w \in ToSet(woken) : w.waiter = t
    BY <1>11 DEF ToSet
  <2>2. \A w : w \in ToSet(woken) <=> w \in ToSet(waitlist) /\ w.name = n
    BY <1>1, <1>2, <1>4
  <2> QED BY <2>1, <2>2
<1> QED BY <1>2, <1>3, <1>5, <1>9, <1>11, <1>12, <1>13 DEF Split

LEMMA EntersKnown ==
    ASSUME RegistryInv, NEW n \in Name, NEW p \in Port,
           servers' = <<[name |-> Stored[n], port |-> p]>> \o servers
    PROVE  /\ servers' \in Seq([name : Name, port : Port])
           /\ Len(servers') = Len(servers) + 1
           /\ Known(Stored[n])'
           /\ \A m : Known(m) => Known(m)'
<1> DEFINE e == [name |-> Stored[n], port |-> p]
<1>1. e \in [name : Name, port : Port] /\ e.name = Stored[n]
  BY ServerAssumption
<1>2. servers \in Seq([name : Name, port : Port])
  BY DEF RegistryInv, TypeOK
<1> HIDE DEF e
<1>3. /\ <<e>> \o servers \in Seq([name : Name, port : Port])
      /\ Len(<<e>> \o servers) = Len(servers) + 1
      /\ (<<e>> \o servers)[1] = e
      /\ \A i \in 1 .. Len(servers) : (<<e>> \o servers)[i + 1] = servers[i]
  BY <1>1, <1>2
<1>4. servers' = <<e>> \o servers
  BY DEF e
<1>5. 1 \in DOMAIN servers' /\ servers'[1].name = Stored[n]
  BY <1>1, <1>2, <1>3, <1>4
<1>6. ASSUME NEW m, Known(m) PROVE Known(m)'
  <2>1. PICK i \in DOMAIN servers : servers[i].name = m
    BY <1>6 DEF Known
  <2>2. i + 1 \in DOMAIN servers' /\ servers'[i + 1] = servers[i]
    BY <1>2, <1>3, <1>4, <2>1
  <2> QED BY <2>1, <2>2 DEF Known
<1> QED BY <1>3, <1>4, <1>5, <1>6 DEF Known

LEMMA RegisterStep ==
    ASSUME RegistryInv, NEW t \in Thread, Register(t)
    PROVE  RegistryInv'
<1>t. TypeOK /\ SchedTypeOK /\ ThreadPlacement /\ Placement
  BY DEF RegistryInv, TypeOK, ThreadPlacement
<1>1. PICK n \in Name, p \in Port : Notify(n, p)
  BY DEF Register
<1>2. PICK woken : woken = Chosen(waitlist, For(n))
  OBVIOUS
<1>3. PICK ts : ts = [k \in DOMAIN woken |-> woken[k].waiter]
  OBVIOUS
<1>4. /\ servers' = <<[name |-> Stored[n], port |-> p]>> \o servers
      /\ waitlist' = Chosen(waitlist, Waiter \ For(n))
      /\ WakeUp(ts)
      /\ announced' = announced \cup {[name |-> n, port |-> p]}
  BY <1>1, <1>2, <1>3, Zenon DEF Notify, Enter
<1>5. Len(servers) < MaxServers /\ UNCHANGED <<current, intr, sought, answer>>
  BY DEF Register
<1>6. /\ ts \in Seq(Thread) /\ IsInjective(ts)
      /\ waitlist' \in Seq(Waiter) /\ Len(waitlist') <= MaxWaiters
      /\ \A i, j \in DOMAIN waitlist' : waitlist'[i].waiter = waitlist'[j].waiter => i = j
      /\ ToSet(waitlist') = {w \in ToSet(waitlist) : w.name # n}
      /\ \A u : u \in ToSet(ts) <=> \E w \in ToSet(waitlist) : w.name = n /\ w.waiter = u
  <2>1. PICK left : left = Chosen(waitlist, Waiter \ For(n))
    OBVIOUS
  <2>2. Split(n, ts, left)
    BY <1>2, <1>3, <2>1, WalkSplits
  <2>3. waitlist' = left
    BY <1>4, <2>1
  <2> QED BY <2>2, <2>3 DEF Split
<1>7. /\ servers' \in Seq([name : Name, port : Port])
      /\ Len(servers') = Len(servers) + 1
      /\ Known(Stored[n])'
      /\ \A m : Known(m) => Known(m)'
  BY <1>4, EntersKnown
\* The waiters, thread by thread.
<1>8. /\ \A w \in ToSet(waitlist) : state[w.waiter] = "SLEEPING" /\ w.waiter \in Thread
      /\ \A u \in Thread : state[u] = "SLEEPING" =>
           /\ sought[u] # NoName
           /\ \E w \in ToSet(waitlist) : w.waiter = u /\ w.name = Stored[sought[u]]
  <2>1. \A i \in DOMAIN waitlist : waitlist[i] \in Waiter
    BY <1>t, ElementOfSeq DEF TypeOK
  <2> QED BY <1>t, <2>1 DEF ThreadPlacement, ToSet, Waiter
<1>9. \A w, x \in ToSet(waitlist) : w.waiter = x.waiter => w = x
  BY <1>t DEF ThreadPlacement, ToSet
<1>10. /\ Placement'
       /\ \A u \in Thread : state'[u] = IF u \in ToSet(ts) THEN "READY" ELSE state[u]
  <2>1. \A u \in ToSet(ts) : state[u] = "SLEEPING"
    BY <1>6, <1>8
  <2> QED BY <1>t, <1>4, <1>5, <1>6, <2>1, WakeUpAllPlaces
<1>11. TypeOK'
  <2>1. SchedTypeOK'
    BY <1>t, <1>4, <1>5, <1>6, WakeUpTyped
  <2>2. Len(servers') <= MaxServers
    BY <1>5, <1>7, <1>t, ServerAssumption DEF TypeOK
  <2>3. announced' \subseteq [name : Name, port : Port]
    BY <1>4, <1>t DEF TypeOK
  <2> QED BY <1>5, <1>6, <1>7, <1>t, <2>1, <2>2, <2>3 DEF TypeOK
<1>12. ThreadPlacement'
  <2>1. ASSUME NEW w \in ToSet(waitlist') PROVE state'[w.waiter] = "SLEEPING"
    <3>1. w \in ToSet(waitlist) /\ w.name # n
      BY <1>6
    <3>2. w.waiter \notin ToSet(ts)
      BY <1>6, <1>9, <3>1
    <3> QED BY <1>8, <1>10, <3>1, <3>2
  <2>2. ASSUME NEW u \in Thread, state'[u] = "SLEEPING"
        PROVE  /\ sought'[u] # NoName
               /\ \E w \in ToSet(waitlist') : w.waiter = u /\ w.name = Stored[sought'[u]]
    <3>1. u \notin ToSet(ts) /\ state[u] = "SLEEPING"
      BY <1>10, <2>2
    <3>2. PICK w \in ToSet(waitlist) : w.waiter = u /\ w.name = Stored[sought[u]]
      BY <1>8, <3>1
    <3>3. w \in ToSet(waitlist')
      BY <1>6, <3>1, <3>2
    <3> QED BY <1>5, <1>8, <3>1, <3>2, <3>3
  <2>3. \A i \in DOMAIN waitlist' : state'[waitlist'[i].waiter] = "SLEEPING"
    BY <2>1 DEF ToSet
  <2>4. \A u \in Thread : state'[u] = "SLEEPING" =>
          /\ sought'[u] # NoName
          /\ \E i \in DOMAIN waitlist' : /\ waitlist'[i].waiter = u
                                         /\ waitlist'[i].name = Stored[sought'[u]]
    BY <2>2 DEF ToSet
  <2> QED BY <1>6, <1>10, <2>3, <2>4 DEF ThreadPlacement
<1>13. FittingUnregistered'
  <2> SUFFICES ASSUME NEW u \in Thread, state'[u] = "SLEEPING", Stored[sought'[u]] = sought'[u],
                      NEW a \in announced'
               PROVE  a.name # sought'[u]
    BY DEF FittingUnregistered
  <2>1. u \notin ToSet(ts) /\ state[u] = "SLEEPING" /\ sought'[u] = sought[u]
    BY <1>5, <1>10
  <2>2. CASE a \in announced
    BY <2>1, <2>2 DEF RegistryInv, FittingUnregistered
  <2>3. CASE a = [name |-> n, port |-> p]
    <3>1. PICK w \in ToSet(waitlist) : w.waiter = u /\ w.name = sought[u]
      BY <1>8, <2>1
    <3>2. w.name # n
      BY <1>6, <2>1, <3>1
    <3> QED BY <2>1, <2>3, <3>1, <3>2
  <2> QED BY <1>4, <2>2, <2>3
<1>14. \A a \in announced' : Known(Stored[a.name])'
  <2>1. ASSUME NEW a \in announced PROVE Known(Stored[a.name])'
    BY <1>7 DEF RegistryInv
  <2> QED BY <1>4, <1>7, <2>1
<1>15. ASSUME NEW u \in Thread, sought'[u] # NoName, state'[u] # "SLEEPING"
       PROVE  Known(Stored[sought[u]])'
  <2>1. CASE u \in ToSet(ts)
    <3>1. PICK w \in ToSet(waitlist) : w.name = n /\ w.waiter = u
      BY <1>6, <2>1
    <3>2. w.name = Stored[sought[u]]
      BY <1>8, <1>9, <3>1
    <3>3. sought[u] \in Name
      BY <1>5, <1>15, <1>t DEF TypeOK
    <3>4. Stored[n] = Stored[sought[u]]
      BY <3>1, <3>2, <3>3, ServerAssumption
    <3> QED BY <1>5, <1>7, <3>4
  <2>2. CASE u \notin ToSet(ts)
    <3>1. state[u] # "SLEEPING" /\ sought[u] # NoName
      BY <1>5, <1>10, <1>15, <2>2
    <3> QED BY <1>5, <1>7, <3>1 DEF RegistryInv
  <2> QED BY <2>1, <2>2
<1> QED BY <1>11, <1>12, <1>13, <1>14, <1>15 DEF RegistryInv

-----------------------------------------------------------------------------
(* A lookup: the answer, or the sleep. *)

LEMMA AnswerStep ==
    ASSUME RegistryInv, NEW t \in Thread, current = t,
           NEW result \in Port \cup {NotFound}, Answer(t, result),
           UNCHANGED <<servers, announced>>
    PROVE  RegistryInv'
<1>1. /\ answer' = [answer EXCEPT ![t] = result]
      /\ sought' = [sought EXCEPT ![t] = NoName]
      /\ intr' = [intr EXCEPT ![t] = TRUE]
      /\ UNCHANGED <<state, ready, current, waitlist>>
  BY DEF Answer
<1>t. TypeOK /\ ThreadPlacement /\ state[t] = "RUNNING"
  BY DEF RegistryInv, ThreadPlacement, Placement
<1>2. TypeOK'
  BY <1>1, <1>t DEF TypeOK, SchedTypeOK
<1>3. \A u \in Thread : sought'[u] = IF u = t THEN NoName ELSE sought[u]
  BY <1>1, <1>t DEF TypeOK
<1>4. ThreadPlacement'
  BY <1>1, <1>3, <1>t DEF ThreadPlacement, Placement
<1>5. FittingUnregistered'
  BY <1>1, <1>3, <1>t DEF RegistryInv, FittingUnregistered
<1> QED BY <1>1, <1>2, <1>3, <1>4, <1>5, <1>t DEF RegistryInv, Known

LEMMA WaitStep ==
    ASSUME RegistryInv, NEW t \in Thread, current = t, NEW n \in Name,
           ~Known(n), Len(waitlist) < MaxWaiters,
           waitlist' = <<[name |-> Stored[n], waiter |-> t]>> \o waitlist,
           sought' = [sought EXCEPT ![t] = n], Sleep,
           UNCHANGED <<answer, servers, announced>>
    PROVE  RegistryInv'
<1> DEFINE e == [name |-> Stored[n], waiter |-> t]
<1>t. TypeOK /\ SchedTypeOK /\ ThreadPlacement /\ Placement /\ state[t] = "RUNNING"
  BY DEF RegistryInv, TypeOK, ThreadPlacement, Placement
<1>1. /\ Placement'
      /\ \A u \in Thread : state'[u] = "SLEEPING" <=> state[u] = "SLEEPING" \/ u = t
  BY <1>t, SleepPlaces
<1>2. SchedTypeOK'
  BY <1>t, SleepTyped
<1>3. \A u \in Thread : sought'[u] = IF u = t THEN n ELSE sought[u]
  BY <1>t DEF TypeOK
<1>4. waitlist \in Seq(Waiter) /\ e \in Waiter /\ e.waiter = t /\ e.name = Stored[n]
  BY <1>t, ServerAssumption DEF TypeOK, Waiter
<1> HIDE DEF e
<1>5. /\ waitlist' \in Seq(Waiter) /\ Len(waitlist') = Len(waitlist) + 1
      /\ waitlist'[1] = e
      /\ \A i \in 2 .. Len(waitlist) + 1 : waitlist'[i] = waitlist[i - 1]
      /\ \A i \in 1 .. Len(waitlist) : waitlist'[i + 1] = waitlist[i]
  <2>1. waitlist' = <<e>> \o waitlist
    BY DEF e
  <2> QED BY <1>4, <2>1
<1>6. /\ DOMAIN waitlist' = 1 .. Len(waitlist) + 1 /\ DOMAIN waitlist = 1 .. Len(waitlist)
      /\ Len(waitlist) \in Nat
  BY <1>4, <1>5
<1>7. \A i \in DOMAIN waitlist : waitlist[i].waiter \in Thread /\ waitlist[i].waiter # t
  <2>1. \A i \in DOMAIN waitlist : waitlist[i] \in Waiter
    BY <1>4, ElementOfSeq
  <2> QED BY <1>t, <2>1 DEF ThreadPlacement, Waiter
<1>8. TypeOK'
  <2>1. Len(waitlist') <= MaxWaiters
    BY <1>5, <1>6, ServerAssumption
  <2> QED BY <1>2, <1>5, <1>t, <2>1 DEF TypeOK
<1>9. ThreadPlacement'
  <2>1. ASSUME NEW i \in DOMAIN waitlist', NEW j \in DOMAIN waitlist',
               waitlist'[i].waiter = waitlist'[j].waiter
        PROVE  i = j
    <3>1. CASE i = 1 /\ j # 1
      BY <1>4, <1>5, <1>6, <1>7, <2>1, <3>1
    <3>2. CASE i # 1 /\ j = 1
      BY <1>4, <1>5, <1>6, <1>7, <2>1, <3>2
    <3>3. CASE i # 1 /\ j # 1
      <4>1. /\ i - 1 \in DOMAIN waitlist /\ j - 1 \in DOMAIN waitlist
            /\ waitlist[i - 1].waiter = waitlist[j - 1].waiter
        BY <1>5, <1>6, <2>1, <3>3
      <4>2. i - 1 = j - 1
        BY <1>t, <4>1 DEF ThreadPlacement
      <4> QED BY <1>6, <4>2
    <3> QED BY <3>1, <3>2, <3>3
  <2>2. ASSUME NEW i \in DOMAIN waitlist' PROVE state'[waitlist'[i].waiter] = "SLEEPING"
    <3>1. CASE i = 1
      BY <1>1, <1>4, <1>5, <3>1
    <3>2. CASE i # 1
      <4>1. i - 1 \in DOMAIN waitlist /\ waitlist'[i] = waitlist[i - 1]
        BY <1>5, <1>6, <3>2
      <4> QED BY <1>1, <1>7, <1>t, <4>1 DEF ThreadPlacement
    <3> QED BY <3>1, <3>2
  <2>3. ASSUME NEW u \in Thread, state'[u] = "SLEEPING"
        PROVE  /\ sought'[u] # NoName
               /\ \E i \in DOMAIN waitlist' : /\ waitlist'[i].waiter = u
                                              /\ waitlist'[i].name = Stored[sought'[u]]
    <3>1. CASE u = t
      <4>1. 1 \in DOMAIN waitlist'
        BY <1>6
      <4> QED BY <1>3, <1>4, <1>5, <3>1, <4>1, ServerAssumption
    <3>2. CASE u # t
      <4>1. state[u] = "SLEEPING"
        BY <1>1, <2>3, <3>2
      <4>2. sought[u] # NoName
        BY <1>t, <4>1 DEF ThreadPlacement
      <4>3. PICK i \in DOMAIN waitlist : /\ waitlist[i].waiter = u
                                         /\ waitlist[i].name = Stored[sought[u]]
        BY <1>t, <4>1 DEF ThreadPlacement
      <4>4. i + 1 \in DOMAIN waitlist' /\ waitlist'[i + 1] = waitlist[i]
        BY <1>5, <1>6, <4>3
      <4> QED BY <1>3, <3>2, <4>2, <4>3, <4>4
    <3> QED BY <3>1, <3>2
  <2> QED BY <1>1, <2>1, <2>2, <2>3 DEF ThreadPlacement
\* Had the name been registered, the table would know it.
<1>10. FittingUnregistered'
  <2> SUFFICES ASSUME NEW u \in Thread, state'[u] = "SLEEPING", Stored[sought'[u]] = sought'[u],
                      NEW a \in announced
               PROVE  a.name # sought'[u]
    BY DEF FittingUnregistered
  <2>1. CASE u = t
    <3>1. Known(Stored[a.name])
      BY DEF RegistryInv
    <3> QED BY <1>3, <2>1, <3>1
  <2>2. CASE u # t
    BY <1>1, <1>3, <2>2 DEF RegistryInv, FittingUnregistered
  <2> QED BY <2>1, <2>2
<1>11. ASSUME NEW u \in Thread, sought'[u] # NoName, state'[u] # "SLEEPING"
       PROVE  Known(Stored[sought[u]])'
  BY <1>1, <1>3, <1>11 DEF RegistryInv, Known
<1>12. \A a \in announced' : Known(Stored[a.name])'
  BY DEF RegistryInv, Known
<1> QED BY <1>8, <1>9, <1>10, <1>11, <1>12 DEF RegistryInv

LEMMA FindOrWaitStep ==
    ASSUME RegistryInv, NEW t \in Thread, current = t, NEW n \in Name, FindOrWait(t, n),
           UNCHANGED <<servers, announced>>
    PROVE  RegistryInv'
<1>1. CASE Known(n)
  <2>1. PortOf(n) \in Port \cup {NotFound} /\ Answer(t, PortOf(n))
    BY <1>1, PortTyped DEF FindOrWait, RegistryInv
  <2> QED BY <2>1, AnswerStep
<1>2. CASE ~Known(n) /\ Len(waitlist) >= MaxWaiters
  <2>1. Answer(t, NotFound)
    BY <1>2 DEF FindOrWait
  <2> QED BY <2>1, AnswerStep
<1>3. CASE ~Known(n) /\ ~(Len(waitlist) >= MaxWaiters)
  <2>1. Len(waitlist) < MaxWaiters
    <3>1. Len(waitlist) \in Nat
      BY LenProperties DEF RegistryInv, TypeOK
    <3> QED BY <1>3, <3>1, ServerAssumption
  <2>2. /\ waitlist' = <<[name |-> Stored[n], waiter |-> t]>> \o waitlist
        /\ sought' = [sought EXCEPT ![t] = n]
        /\ Sleep /\ UNCHANGED answer
    BY <1>3 DEF FindOrWait
  <2> QED BY <1>3, <2>1, <2>2, WaitStep
<1> QED BY <1>1, <1>2, <1>3

-----------------------------------------------------------------------------
LEMMA RegistryInit == Init => RegistryInv
<1> SUFFICES ASSUME Init PROVE RegistryInv
  OBVIOUS
<1>1. SchedTypeOK /\ Placement
  BY BootOrderAssumption, NotThreadsAssumption DEF Init, SchedInit, SchedTypeOK, Placement
<1>2. TypeOK
  BY <1>1, ServerAssumption DEF Init, TypeOK
<1>3. \A t \in Thread : state[t] = "READY" /\ sought[t] = NoName
  BY DEF Init, SchedInit
<1>4. ThreadPlacement
  BY <1>1, <1>3 DEF Init, ThreadPlacement
<1> QED BY <1>2, <1>3, <1>4 DEF Init, RegistryInv, FittingUnregistered

LEMMA RegistryStep == RegistryInv /\ [Next]_vars => RegistryInv'
<1> SUFFICES ASSUME RegistryInv, [Next]_vars PROVE RegistryInv'
  OBVIOUS
<1>1. CASE Preempt /\ UNCHANGED serverVars
  <2>1. SchedTypeOK /\ Placement
    BY DEF RegistryInv, TypeOK, ThreadPlacement
  <2>2. /\ SchedTypeOK' /\ Placement'
        /\ \A t \in Thread : state'[t] = "SLEEPING" <=> state[t] = "SLEEPING"
    BY <1>1, <2>1, PreemptTyped, PreemptPlaces
  <2>3. UNCHANGED <<servers, waitlist, sought, answer, announced>>
    BY <1>1 DEF serverVars
  <2>4. TypeOK'
    BY <2>2, <2>3 DEF RegistryInv, TypeOK
  <2>5. ThreadPlacement'
    <3>1. \A i \in DOMAIN waitlist : waitlist[i].waiter \in Thread
      <4>1. \A i \in DOMAIN waitlist : waitlist[i] \in Waiter
        BY ElementOfSeq DEF RegistryInv, TypeOK
      <4> QED BY <4>1 DEF Waiter
    <3> QED BY <2>2, <2>3, <3>1 DEF RegistryInv, ThreadPlacement
  <2> QED BY <2>2, <2>3, <2>4, <2>5 DEF RegistryInv, FittingUnregistered, Known
<1>2. ASSUME NEW t \in Thread, Register(t) PROVE RegistryInv'
  BY <1>2, RegisterStep
<1>3. ASSUME NEW t \in Thread, Lookup(t) PROVE RegistryInv'
  <2>1. PICK n \in Name : \/ FindOrWait(t, n)
                          \/ Answer(t, IF Known(n) THEN PortOf(n) ELSE NotFound)
    BY <1>3 DEF Lookup
  <2>2. current = t /\ UNCHANGED <<servers, announced>>
    BY <1>3 DEF Lookup
  <2>3. (IF Known(n) THEN PortOf(n) ELSE NotFound) \in Port \cup {NotFound}
    BY PortTyped DEF RegistryInv
  <2> QED BY <2>1, <2>2, <2>3, FindOrWaitStep, AnswerStep
<1>4. ASSUME NEW t \in Thread, Recheck(t) PROVE RegistryInv'
  <2>1. sought[t] \in Name
    BY <1>4 DEF Recheck, RegistryInv, TypeOK
  <2> QED BY <1>4, <2>1, FindOrWaitStep DEF Recheck
<1>5. CASE UNCHANGED vars
  <2>1. UNCHANGED <<state, ready, current, intr, servers, waitlist, sought, answer, announced>>
    BY <1>5 DEF vars, schedVars, serverVars
  <2> QED BY <2>1 DEF RegistryInv, TypeOK, SchedTypeOK, ThreadPlacement, Placement,
                      FittingUnregistered, Known
<1> QED BY <1>1, <1>2, <1>3, <1>4, <1>5 DEF Next

LEMMA RegistryAlways == Spec => []RegistryInv
<1>1. Init => RegistryInv
  BY RegistryInit
<1>2. RegistryInv /\ [Next]_vars => RegistryInv'
  BY RegistryStep
<1> QED BY <1>1, <1>2, PTL DEF Spec

\* A sleeping thread is on the list of waiters once, and a registration wakes only
\* threads that sleep (sys_ipc_server_register walks s_waiters).
THEOREM WaitersListed == Spec => []ThreadPlacement
<1>1. RegistryInv => ThreadPlacement
  BY DEF RegistryInv
<1> QED BY <1>1, RegistryAlways, PTL

\* Whatever the names are: nobody sleeps for a registered name that the structures
\* hold whole.
THEOREM NobodySleepsOnRegistered == Spec => []FittingUnregistered
<1>1. RegistryInv => FittingUnregistered
  BY DEF RegistryInv
<1> QED BY <1>1, RegistryAlways, PTL

\* As long as every name has 31 characters at most, nobody sleeps for a name that
\* has been registered.
THEOREM SleepersWait ==
    ASSUME \A n \in Name : Stored[n] = n
    PROVE  Spec => []SleepersUnregistered
<1>1. RegistryInv => SleepersUnregistered
  <2> SUFFICES ASSUME RegistryInv, NEW t \in Thread, state[t] = "SLEEPING",
                      NEW a \in announced
               PROVE  a.name # sought[t]
    BY DEF SleepersUnregistered
  <2>1. sought[t] \in Name
    BY DEF RegistryInv, TypeOK, ThreadPlacement
  <2> QED BY <2>1 DEF RegistryInv, FittingUnregistered
<1> QED BY <1>1, RegistryAlways, PTL

\* As long as every name has 31 characters at most, the loop of
\* sys_ipc_server_lookup finds the server as soon as it was woken.
THEOREM LoopsOnce ==
    ASSUME \A n \in Name : Stored[n] = n
    PROVE  Spec => []WokenFindTheirs
<1>1. RegistryInv => WokenFindTheirs
  <2> SUFFICES ASSUME RegistryInv, NEW t \in Thread, sought[t] # NoName, state[t] # "SLEEPING"
               PROVE  Known(sought[t])
    BY DEF WokenFindTheirs
  <2>1. sought[t] \in Name
    BY DEF RegistryInv, TypeOK
  <2> QED BY <2>1 DEF RegistryInv
<1> QED BY <1>1, RegistryAlways, PTL
==============================================================================
