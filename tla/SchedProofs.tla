----------------------------- MODULE SchedProofs -----------------------------
(***************************************************************************)
(* What the scheduler's operators do to the placement of the threads: the  *)
(* lemmas the invariance proofs of the modules on top of Sched cite.       *)
(***************************************************************************)
EXTENDS Sched, ListProofs

\* The scheduler's operators keep its variables typed.
LEMMA DispatchTyped ==
    ASSUME NEW st \in [Thread -> {"READY", "RUNNING", "SLEEPING"}],
           NEW rq \in Seq(Thread), Dispatch(st, rq)
    PROVE  /\ state' \in [Thread -> {"READY", "RUNNING", "SLEEPING"}]
           /\ ready' \in Seq(Thread)
           /\ current' \in Thread \cup {Idle, NoThread}
<1>1. CASE rq = <<>>
  BY <1>1 DEF Dispatch
<1>2. CASE rq # <<>>
  BY <1>2, PopElements DEF Dispatch
<1> QED BY <1>1, <1>2

LEMMA PreemptTyped ==
    ASSUME SchedTypeOK, Preempt
    PROVE  SchedTypeOK'
<1>1. CASE current \in Thread
  <2>1. Append(ready, current) \in Seq(Thread)
    BY <1>1, AppendElements DEF SchedTypeOK
  <2>2. [state EXCEPT ![current] = "READY"] \in [Thread -> {"READY", "RUNNING", "SLEEPING"}]
    BY <1>1 DEF SchedTypeOK
  <2> QED BY <1>1, <2>1, <2>2, DispatchTyped DEF SchedTypeOK, Preempt
<1>2. CASE current \notin Thread
  BY <1>2, DispatchTyped DEF SchedTypeOK, Preempt
<1> QED BY <1>1, <1>2

LEMMA SleepTyped ==
    ASSUME SchedTypeOK, current \in Thread, Sleep
    PROVE  SchedTypeOK'
<1>1. [state EXCEPT ![current] = "SLEEPING"] \in [Thread -> {"READY", "RUNNING", "SLEEPING"}]
  BY DEF SchedTypeOK
<1> QED BY <1>1, DispatchTyped DEF SchedTypeOK, Sleep

LEMMA WakeUpTyped ==
    ASSUME SchedTypeOK, NEW ts \in Seq(Thread), WakeUp(ts), UNCHANGED <<current, intr>>
    PROVE  SchedTypeOK'
<1>1. ready \o ts \in Seq(Thread)
  BY ConcatProperties DEF SchedTypeOK
<1> QED BY <1>1 DEF SchedTypeOK, WakeUp

-----------------------------------------------------------------------------
\* sched_next puts each thread in its place when nobody is running and the
\* ready queue holds the READY threads.
LEMMA DispatchPlaces ==
    ASSUME NEW st \in [Thread -> {"READY", "RUNNING", "SLEEPING"}],
           NEW rq \in Seq(Thread), IsInjective(rq),
           \A t \in Thread : st[t] = "READY" <=> t \in ToSet(rq),
           \A t \in Thread : st[t] # "RUNNING",
           Dispatch(st, rq)
    PROVE  /\ Placement'
           /\ \A t \in Thread : state'[t] = "SLEEPING" <=> st[t] = "SLEEPING"
<1>1. CASE rq = <<>>
  BY <1>1, NotThreadsAssumption DEF Dispatch, Placement
<1>2. CASE rq # <<>>
  <2>1. /\ Head(rq) \in Thread /\ Head(rq) \in ToSet(rq)
        /\ ToSet(rq) = ToSet(Tail(rq)) \cup {Head(rq)}
        /\ IsInjective(Tail(rq)) /\ Head(rq) \notin ToSet(Tail(rq))
    BY <1>2, PopElements, PopOnce
  <2>2. /\ current' = Head(rq) /\ ready' = Tail(rq)
        /\ state' = [st EXCEPT ![Head(rq)] = "RUNNING"]
    BY <1>2 DEF Dispatch
  <2>3. \A t \in Thread : state'[t] = IF t = Head(rq) THEN "RUNNING" ELSE st[t]
    BY <2>1, <2>2
  <2> QED BY <2>1, <2>2, <2>3 DEF Placement
<1> QED BY <1>1, <1>2

LEMMA PreemptPlaces ==
    ASSUME SchedTypeOK, Placement, Preempt
    PROVE  /\ Placement'
           /\ \A t \in Thread : state'[t] = "SLEEPING" <=> state[t] = "SLEEPING"
<1>1. CASE current \in Thread
  <2> DEFINE st == [state EXCEPT ![current] = "READY"]
             rq == Append(ready, current)
  <2>1. /\ st \in [Thread -> {"READY", "RUNNING", "SLEEPING"}]
        /\ \A t \in Thread : st[t] = IF t = current THEN "READY" ELSE state[t]
    BY <1>1 DEF SchedTypeOK
  <2>2. current \notin ToSet(ready)
    BY <1>1 DEF Placement
  <2>3. rq \in Seq(Thread) /\ IsInjective(rq) /\ ToSet(rq) = ToSet(ready) \cup {current}
    BY <1>1, <2>2, AppendElements, AppendNew DEF SchedTypeOK, Placement
  <2>4. Dispatch(st, rq)
    BY <1>1 DEF Preempt
  <2>5. /\ \A t \in Thread : st[t] = "READY" <=> t \in ToSet(rq)
        /\ \A t \in Thread : st[t] # "RUNNING"
    BY <2>1, <2>3 DEF Placement
  <2> HIDE DEF st, rq
  <2>6. /\ Placement'
        /\ \A t \in Thread : state'[t] = "SLEEPING" <=> st[t] = "SLEEPING"
    BY <2>1, <2>3, <2>4, <2>5, DispatchPlaces
  <2> QED BY <1>1, <2>1, <2>6 DEF Placement
<1>2. CASE current \notin Thread
  <2>1. \A t \in Thread : state[t] # "RUNNING"
    BY <1>2 DEF Placement
  <2> QED BY <1>2, <2>1, DispatchPlaces DEF Preempt, Placement, SchedTypeOK
<1> QED BY <1>1, <1>2

LEMMA SleepPlaces ==
    ASSUME SchedTypeOK, Placement, current \in Thread, Sleep
    PROVE  /\ Placement'
           /\ \A t \in Thread :
                state'[t] = "SLEEPING" <=> state[t] = "SLEEPING" \/ t = current
<1> DEFINE st == [state EXCEPT ![current] = "SLEEPING"]
<1>1. /\ st \in [Thread -> {"READY", "RUNNING", "SLEEPING"}]
      /\ \A t \in Thread : st[t] = IF t = current THEN "SLEEPING" ELSE state[t]
  BY DEF SchedTypeOK
<1>2. /\ \A t \in Thread : st[t] = "READY" <=> t \in ToSet(ready)
      /\ \A t \in Thread : st[t] # "RUNNING"
  BY <1>1 DEF Placement
<1>3. Dispatch(st, ready) /\ ready \in Seq(Thread) /\ IsInjective(ready)
  BY DEF Sleep, SchedTypeOK, Placement
<1> HIDE DEF st
<1>4. /\ Placement'
      /\ \A t \in Thread : state'[t] = "SLEEPING" <=> st[t] = "SLEEPING"
  BY <1>1, <1>2, <1>3, DispatchPlaces
<1> QED BY <1>1, <1>4

\* Waking one sleeping thread.
LEMMA WakeUpPlaces ==
    ASSUME SchedTypeOK, Placement, NEW h \in Thread, state[h] = "SLEEPING",
           WakeUp(<<h>>), current' = current
    PROVE  /\ Placement'
           /\ \A t \in Thread : state'[t] = IF t = h THEN "READY" ELSE state[t]
<1>1. ToSet(<<h>>) = {h}
  BY DEF ToSet
<1>2. ready' = Append(ready, h)
  BY AppendIsConcat DEF WakeUp, SchedTypeOK
<1>3. h \notin ToSet(ready) /\ h # current
  BY DEF Placement
<1>4. IsInjective(ready') /\ ToSet(ready') = ToSet(ready) \cup {h}
  BY <1>2, <1>3, AppendElements, AppendNew DEF SchedTypeOK, Placement
<1>5. \A t \in Thread : state'[t] = IF t = h THEN "READY" ELSE state[t]
  BY <1>1 DEF WakeUp
<1> QED BY <1>3, <1>4, <1>5 DEF Placement

\* Waking several sleeping threads, each once.
LEMMA WakeUpAllPlaces ==
    ASSUME SchedTypeOK, Placement, NEW ts \in Seq(Thread), IsInjective(ts),
           \A t \in ToSet(ts) : state[t] = "SLEEPING",
           WakeUp(ts), current' = current
    PROVE  /\ Placement'
           /\ \A t \in Thread : state'[t] = IF t \in ToSet(ts) THEN "READY" ELSE state[t]
<1>1. ready \in Seq(Thread) /\ IsInjective(ready) /\ ready' = ready \o ts
  BY DEF WakeUp, SchedTypeOK, Placement
<1>2. \A t \in ToSet(ts) : t \in Thread
  BY QueueElements
<1>3. \A x \in ToSet(ready), y \in ToSet(ts) : x # y
  BY <1>1, <1>2, QueueElements DEF Placement
<1>4. /\ IsInjective(ready')
      /\ \A x : x \in ToSet(ready') <=> x \in ToSet(ready) \/ x \in ToSet(ts)
  BY <1>1, <1>3, ConcatNew
<1>5. \A t \in Thread : state'[t] = IF t \in ToSet(ts) THEN "READY" ELSE state[t]
  BY DEF WakeUp
<1>6. \A t \in Thread : state'[t] = "READY" <=> t \in ToSet(ready')
  BY <1>4, <1>5 DEF Placement
<1>7. \A t \in Thread : state'[t] = "RUNNING" <=> t = current'
  BY <1>2, <1>5 DEF Placement
<1> QED BY <1>4, <1>5, <1>6, <1>7 DEF Placement

LEMMA WakeUpNobody ==
    ASSUME SchedTypeOK, WakeUp(<<>>)
    PROVE  state' = state /\ ready' = ready
<1>1. ready \o <<>> = ready
  BY ConcatEmptySeq DEF SchedTypeOK
<1>2. [t \in Thread |-> IF t \in ToSet(<<>>) THEN "READY" ELSE state[t]] = state
  BY EmptyQueue DEF SchedTypeOK
<1> QED BY <1>1, <1>2 DEF WakeUp
=============================================================================
