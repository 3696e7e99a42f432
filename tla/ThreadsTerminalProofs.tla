------------------------ MODULE ThreadsTerminalProofs -----------------------
(***************************************************************************)
(* Proofs about the queues of Threads and the screen and texts of          *)
(* Terminal, which have no state in common.                                *)
(*                                                                         *)
(* First, the intrusive queue implements a sequence of threads, as long as *)
(* a thread is in one queue at a time and NULL is not a thread: it is why  *)
(* Sched and the modules on top of it may use sequences, for their         *)
(* placement invariants say that the hypotheses of these theorems hold at  *)
(* each call.  Then, that following the links finds that sequence.  Last,  *)
(* that they hold in Threads, where three queues share the links, until a  *)
(* thread exits too early (rushed): Accounted is the inductive invariant.  *)
(*                                                                         *)
(* The screen shows the layout of the texts written to it: a character     *)
(* more, put on the laid-out screen, is the layout of the longer text      *)
(* (PutLaysOut), and nobody but the console and the driver writes to it    *)
(* (ScreenInv).                                                            *)
(*                                                                         *)
(* The driver draws the texts in their order: init and the terminal take   *)
(* turns (Dialogue), so that one text at most is on its way and everything *)
(* drawn, left and unsent together is what should be drawn (Flow); codes   *)
(* are read as they are sent, and the characters of init stem from them    *)
(* (Codes).                                                                *)
(***************************************************************************)
EXTENDS Threads, Terminal, ListProofs

\* Adding a thread that is not in the queue appends it.
THEOREM AddAppends ==
    ASSUME NoThread \notin Thread,
           NEW q \in Queue, NEW links \in Links, NEW s, Represents(q, links, s),
           NEW t \in Thread, t \notin ToSet(s)
    PROVE  Represents(Added(q, t), AddedLinks(q, links, t), Append(s, t))
<1>1. s \in Seq(Thread) /\ IsInjective(s) /\ Len(s) \in Nat
  BY QueueElements DEF Represents
<1>2. /\ Append(s, t) \in Seq(Thread) /\ Append(s, t) # <<>> /\ IsInjective(Append(s, t))
      /\ Len(Append(s, t)) = Len(s) + 1
      /\ Append(s, t)[Len(s) + 1] = t
      /\ \A i \in 1 .. Len(s) : Append(s, t)[i] = s[i]
  BY <1>1, AppendElements, AppendNew, AppendProperties
<1>3. CASE s = <<>>
  <2>1. q = EmptyThreadQueue /\ Len(s) = 0
    BY <1>3 DEF Represents
  <2>2. /\ Added(q, t) = [first |-> t, last |-> t]
        /\ AddedLinks(q, links, t) = [links EXCEPT ![t] = NoThread]
    BY <2>1 DEF Added, AddedLinks, EmptyThreadQueue, IsEmpty
  <2> QED BY <1>2, <2>1, <2>2 DEF Represents, Links
<1>4. CASE s # <<>>
  <2>1. /\ Len(s) >= 1
        /\ \A i \in 1 .. Len(s) : s[i] \in Thread /\ s[i] # t
        /\ \A i, j \in 1 .. Len(s) : s[i] = s[j] => i = j
    BY <1>1, <1>4 DEF ToSet, IsInjective
  <2>2. /\ q.first = s[1] /\ q.last = s[Len(s)]
        /\ q.first # NoThread /\ q.last # NoThread
        /\ \A i \in 1 .. Len(s) - 1 : links[s[i]] = s[i + 1]
    BY <1>1, <1>4, <2>1 DEF Represents
  <2>3. Added(q, t) = [first |-> s[1], last |-> t]
    BY <2>2 DEF Added, IsEmpty
  <2> DEFINE new == AddedLinks(q, links, t)
  <2>4. /\ new[t] = NoThread /\ new[s[Len(s)]] = t
        /\ \A u \in Thread : u # t /\ u # s[Len(s)] => new[u] = links[u]
    BY <1>1, <2>1, <2>2 DEF AddedLinks, Links
  <2>5. ASSUME NEW i \in 1 .. Len(s) PROVE new[Append(s, t)[i]] = Append(s, t)[i + 1]
    <3>1. CASE i = Len(s)
      BY <1>2, <2>4, <2>5, <3>1
    <3>2. CASE i # Len(s)
      <4>1. i \in 1 .. Len(s) - 1 /\ i + 1 \in 1 .. Len(s) /\ Len(s) \in 1 .. Len(s)
        BY <1>1, <2>1, <2>5, <3>2
      <4>2. s[i] # s[Len(s)] /\ s[i] # t /\ s[i] \in Thread
        BY <2>1, <3>2, <4>1
      <4>3. new[s[i]] = s[i + 1]
        BY <2>2, <2>4, <4>1, <4>2
      <4> QED BY <1>2, <4>1, <4>3
    <3> QED BY <3>1, <3>2
  <2> HIDE DEF new
  <2>6. Append(s, t)[1] = s[1]
    BY <1>1, <1>2, <2>1
  <2>7. Represents(Added(q, t), new, Append(s, t))
    BY <1>1, <1>2, <2>1, <2>3, <2>4, <2>5, <2>6 DEF Represents
  <2> QED BY <2>7 DEF new
<1> QED BY <1>3, <1>4

\* Popping takes the first thread, which is NULL for the empty queue, and
\* leaves the rest.
THEOREM PopTakesFirst ==
    ASSUME NoThread \notin Thread,
           NEW q \in Queue, NEW links \in Links, NEW s, Represents(q, links, s)
    PROVE  /\ s = <<>> => q.first = NoThread /\ Represents(Popped(q, links), links, <<>>)
           /\ s # <<>> => q.first = Head(s) /\ Represents(Popped(q, links), links, Tail(s))
<1>1. s \in Seq(Thread) /\ IsInjective(s) /\ Len(s) \in Nat
  BY QueueElements DEF Represents
<1>2. CASE s = <<>>
  <2>1. q = EmptyThreadQueue
    BY <1>2 DEF Represents
  <2>2. Popped(q, links) = EmptyThreadQueue
    BY <2>1 DEF Popped, EmptyThreadQueue, IsEmpty
  <2> QED BY <1>1, <1>2, <2>1, <2>2 DEF Represents, EmptyThreadQueue
<1>3. CASE s # <<>>
  <2>1. /\ Len(s) >= 1 /\ Head(s) = s[1] /\ Tail(s) \in Seq(Thread) /\ IsInjective(Tail(s))
        /\ Len(Tail(s)) = Len(s) - 1
        /\ \A i \in 1 .. Len(s) - 1 : Tail(s)[i] = s[i + 1]
        /\ \A i \in 1 .. Len(s) : s[i] \in Thread /\ s[i] # NoThread
    BY <1>1, <1>3, PopElements, PopOnce
  <2>2. /\ q.first = s[1] /\ q.last = s[Len(s)] /\ links[s[Len(s)]] = NoThread
        /\ \A i \in 1 .. Len(s) - 1 : links[s[i]] = s[i + 1]
    BY <1>3 DEF Represents
  <2>3. q.first # NoThread
    BY <2>1, <2>2
  <2>4. CASE Len(s) = 1
    <3>1. Popped(q, links) = EmptyThreadQueue
      BY <2>2, <2>3, <2>4 DEF Popped, EmptyThreadQueue, IsEmpty
    <3>2. Tail(s) = <<>>
      <4>1. Len(Tail(s)) = 0 /\ Tail(s) \in Seq(Thread)
        BY <2>1, <2>4
      <4> QED BY <4>1, QueueElements, Zenon
    <3> QED BY <2>1, <2>2, <3>1, <3>2, <1>3 DEF Represents
  <2>5. CASE Len(s) # 1
    <3>1. links[s[1]] = s[2] /\ s[2] # NoThread
      BY <1>1, <2>1, <2>2, <2>5
    <3>2. Popped(q, links) = [first |-> s[2], last |-> s[Len(s)]]
      BY <2>2, <2>3, <3>1 DEF Popped, IsEmpty
    <3>3. Tail(s) # <<>> /\ Len(Tail(s)) >= 1
      <4>1. Len(Tail(s)) >= 1 /\ Len(Tail(s)) # 0
        BY <1>1, <2>1, <2>5
      <4>2. Tail(s) = <<>> => Len(Tail(s)) = 0
        BY EmptyQueue
      <4> QED BY <4>1, <4>2, Zenon
    <3>4. Tail(s)[1] = s[2] /\ Tail(s)[Len(Tail(s))] = s[Len(s)]
      BY <1>1, <2>1, <2>5
    <3>5. \A i \in 1 .. Len(Tail(s)) - 1 : links[Tail(s)[i]] = Tail(s)[i + 1]
      <4> SUFFICES ASSUME NEW i \in 1 .. Len(Tail(s)) - 1
                   PROVE  links[Tail(s)[i]] = Tail(s)[i + 1]
        OBVIOUS
      <4>1. /\ i \in 1 .. Len(s) - 1 /\ i + 1 \in 1 .. Len(s) - 1
            /\ Tail(s)[i] = s[i + 1] /\ Tail(s)[i + 1] = s[i + 1 + 1]
        BY <1>1, <2>1
      <4> QED BY <2>2, <4>1
    <3>6. Represents(Popped(q, links), links, Tail(s))
      BY <2>1, <2>2, <3>2, <3>3, <3>4, <3>5 DEF Represents
    <3> QED BY <1>3, <2>1, <2>2, <3>6
  <2> QED BY <2>4, <2>5
<1> QED BY <1>2, <1>3

\* Adding a thread to one queue leaves alone every other queue that shares no
\* thread with it: the hypothesis the ready, cleanup and waiter queues need.
THEOREM AddKeepsOthers ==
    ASSUME NoThread \notin Thread,
           NEW q \in Queue, NEW links \in Links, NEW s, Represents(q, links, s),
           NEW r \in Queue, NEW other, Represents(r, links, other),
           ToSet(s) \cap ToSet(other) = {},
           NEW t \in Thread, t \notin ToSet(other)
    PROVE  Represents(r, AddedLinks(q, links, t), other)
<1>1. /\ s \in Seq(Thread) /\ Len(s) \in Nat
      /\ other \in Seq(Thread) /\ Len(other) \in Nat
  BY QueueElements DEF Represents
<1>2. \A i \in 1 .. Len(other) : other[i] \in Thread /\ other[i] # t /\ other[i] # q.last
  <2> SUFFICES ASSUME NEW i \in 1 .. Len(other)
               PROVE  other[i] \in Thread /\ other[i] # t /\ other[i] # q.last
    OBVIOUS
  <2>1. other[i] \in Thread /\ other[i] \in ToSet(other)
    BY <1>1 DEF ToSet
  <2>2. CASE s = <<>>
    BY <2>1, <2>2 DEF Represents, EmptyThreadQueue
  <2>3. CASE s # <<>>
    <3>1. q.last = s[Len(s)] /\ Len(s) \in 1 .. Len(s)
      BY <1>1, <2>3 DEF Represents
    <3>2. q.last \in ToSet(s)
      BY <1>1, <3>1 DEF ToSet
    <3> QED BY <2>1, <3>2
  <2> QED BY <2>2, <2>3
<1>3. \A u \in Thread : u # t /\ u # q.last => AddedLinks(q, links, t)[u] = links[u]
  BY DEF AddedLinks, Links, Queue
<1>4. \A i \in 1 .. Len(other) : AddedLinks(q, links, t)[other[i]] = links[other[i]]
  BY <1>2, <1>3
<1>5. CASE other = <<>>
  BY <1>5 DEF Represents
<1>6. CASE other # <<>>
  <2>1. Len(other) \in 1 .. Len(other) /\ \A i \in 1 .. Len(other) - 1 : i \in 1 .. Len(other)
    BY <1>1, <1>6
  <2> QED BY <1>4, <1>6, <2>1 DEF Represents
<1> QED BY <1>5, <1>6

-----------------------------------------------------------------------------
\* There are finitely many threads: a queue cannot be longer than that.
ThreadsFinite == IsFiniteSet(Thread) /\ Cardinality(Thread) \in Nat

LEMMA FiniteThreads == ThreadsFinite
<1>1. IsFiniteSet(User)
  BY ThreadsAssumption, QueueFinite
<1>2. IsFiniteSet(Thread)
  BY <1>1, FS_AddElement DEF Thread
<1> QED BY <1>2, FS_CardinalityType DEF ThreadsFinite

\* The equation of Walk.
WalkStep(at, q) ==
    [k \in 1 .. Steps |->
       IF k = 1 THEN q.first
       ELSE IF at[k - 1] = NoThread THEN NoThread ELSE next[at[k - 1]]]

\* Where the walk along a sequence is after k - 1 links.
Along(s) == [k \in 1 .. Steps |-> IF k <= Len(s) THEN s[k] ELSE NoThread]

LEMMA StepsNat == Steps \in Nat /\ Steps >= 1
BY FiniteThreads DEF ThreadsFinite, Steps

LEMMA AlongWalks ==
    ASSUME NEW q \in Queue, NEW s, Represents(q, next, s)
    PROVE  Along(s) = WalkStep(Along(s), q)
<1>1. s \in Seq(Thread) /\ Len(s) \in Nat /\ NoThread \notin Thread
      /\ \A k \in 1 .. Len(s) : s[k] \in Thread
  BY ThreadsAssumption, QueueElements DEF Represents, Thread
<1>2. s = <<>> => Len(s) = 0 /\ q.first = NoThread
  BY QueueElements DEF Represents, EmptyThreadQueue
<1>3. s # <<>> => /\ Len(s) >= 1 /\ q.first = s[1] /\ next[s[Len(s)]] = NoThread
                  /\ \A i \in 1 .. Len(s) - 1 : next[s[i]] = s[i + 1]
  BY <1>1, QueueElements DEF Represents
<1> SUFFICES ASSUME NEW k \in 1 .. Steps
             PROVE  Along(s)[k] = WalkStep(Along(s), q)[k]
  BY DEF Along, WalkStep
<1>4. CASE k = 1
  BY <1>1, <1>2, <1>3, <1>4, StepsNat DEF Along, WalkStep
<1>5. CASE k # 1
  <2>1. k - 1 \in 1 .. Steps /\ k \in Nat
    BY <1>5, StepsNat
  <2>2. /\ Along(s)[k] = IF k <= Len(s) THEN s[k] ELSE NoThread
        /\ Along(s)[k - 1] = IF k - 1 <= Len(s) THEN s[k - 1] ELSE NoThread
    BY <2>1 DEF Along
  <2>3. WalkStep(Along(s), q)[k] =
          IF Along(s)[k - 1] = NoThread THEN NoThread ELSE next[Along(s)[k - 1]]
    BY <1>5 DEF WalkStep
  <2>4. CASE k <= Len(s)
    <3>1. k - 1 \in 1 .. Len(s) - 1 /\ s # <<>>
      BY <1>1, <1>2, <1>5, <2>1, <2>4
    <3>2. next[s[k - 1]] = s[k] /\ s[k - 1] # NoThread
      BY <1>1, <1>3, <2>1, <3>1
    <3> QED BY <1>1, <2>1, <2>2, <2>3, <2>4, <3>2
  <2>5. CASE k - 1 = Len(s)
    <3>1. s # <<>> /\ Len(s) \in 1 .. Len(s)
      BY <1>1, <1>2, <2>1, <2>5
    <3> QED BY <1>1, <1>3, <2>1, <2>2, <2>3, <2>5, <3>1
  <2>6. CASE ~ (k - 1 <= Len(s))
    BY <1>1, <2>1, <2>2, <2>3, <2>6
  <2> QED BY <1>1, <2>1, <2>4, <2>5, <2>6
<1> QED BY <1>4, <1>5

\* The equation has one solution: by the least step at which two would differ.
LEMMA WalkUnique ==
    ASSUME NEW q, NEW f, f = WalkStep(f, q), NEW g, g = WalkStep(g, q)
    PROVE  f = g
<1> DEFINE D == {k \in 1 .. Steps : f[k] # g[k]}
<1>1. CASE D = {}
  <2>1. \A k \in 1 .. Steps : f[k] = g[k]
    BY <1>1
  <2>2. DOMAIN f = 1 .. Steps /\ DOMAIN g = 1 .. Steps
    BY DEF WalkStep
  <2>3. f = [k \in 1 .. Steps |-> f[k]] /\ g = [k \in 1 .. Steps |-> g[k]]
    BY DEF WalkStep
  <2> QED BY <2>1, <2>3
<1>2. CASE D # {}
  <2>1. D \in SUBSET Nat
    BY StepsNat
  <2>2. PICK n \in D : \A m \in D : n <= m
    BY <1>2, <2>1, LeastNatural
  <2>3. /\ n \in 1 .. Steps /\ f[n] # g[n]
        /\ f[n] = WalkStep(f, q)[n] /\ g[n] = WalkStep(g, q)[n]
    OBVIOUS
  <2>4. n # 1
    BY <2>3 DEF WalkStep
  <2>5. n - 1 \in 1 .. Steps /\ ~ (n <= n - 1)
    BY <2>3, <2>4, StepsNat
  <2>6. f[n - 1] = g[n - 1]
    BY <2>2, <2>5
  <2> QED BY <2>3, <2>4, <2>6 DEF WalkStep
<1> QED BY <1>1, <1>2

LEMMA WalkIsAlong ==
    ASSUME NEW q \in Queue, NEW s, Represents(q, next, s)
    PROVE  Walk(q) = Along(s)
<1>1. Walk(q) = CHOOSE at : at = WalkStep(at, q)
  BY DEF Walk, WalkStep
<1>2. \E at : at = WalkStep(at, q)
  BY AlongWalks
<1>3. Walk(q) = WalkStep(Walk(q), q)
  <2> HIDE DEF WalkStep, Walk
  <2> QED BY <1>1, <1>2
<1> QED BY <1>3, AlongWalks, WalkUnique

\* The walk along the links finds the threads of the sequence and ends.
LEMMA WalkFinds ==
    ASSUME NEW q \in Queue, NEW s, Represents(q, next, s)
    PROVE  /\ Linked(q) = ToSet(s)
           /\ Walk(q)[Steps] = NoThread
           /\ q.last = NoThread <=> s = <<>>
           /\ s # <<>> => q.last \in ToSet(s) /\ next[q.last] = NoThread
<1>1. /\ s \in Seq(Thread) /\ Len(s) \in Nat /\ IsInjective(s) /\ NoThread \notin Thread
      /\ DOMAIN s = 1 .. Len(s) /\ ToSet(s) \subseteq Thread
  BY ThreadsAssumption, QueueElements, LenProperties DEF Represents, Thread
<1>2. Len(s) < Steps
  <2>1. s \in Injection(1 .. Len(s), Thread)
    BY <1>1, LenProperties DEF IsInjective, Injection
  <2>2. Cardinality(1 .. Len(s)) = Len(s)
    BY <1>1, FS_Interval
  <2>3. Len(s) <= Cardinality(Thread)
    BY <2>1, <2>2, FiniteThreads, FS_Injection DEF ThreadsFinite
  <2> QED BY <1>1, <2>3, FiniteThreads DEF ThreadsFinite, Steps
<1>3. Walk(q) = Along(s)
  BY WalkIsAlong
<1>4. \A k \in 1 .. Steps : Walk(q)[k] = IF k <= Len(s) THEN s[k] ELSE NoThread
  BY <1>3 DEF Along
<1> HIDE DEF Walk
<1>5. ToSet(s) = {s[k] : k \in 1 .. Len(s)}
  BY <1>1 DEF ToSet
<1>6. Linked(q) = ToSet(s)
  <2>1. ASSUME NEW t \in Linked(q) PROVE t \in ToSet(s)
    BY <1>1, <1>4, <1>5, StepsNat DEF Linked
  <2>2. ASSUME NEW t \in ToSet(s) PROVE t \in Linked(q)
    <3>1. PICK k \in 1 .. Len(s) : t = s[k]
      BY <1>5
    <3>2. k \in 1 .. Steps /\ Walk(q)[k] = t /\ t # NoThread
      BY <1>1, <1>2, <1>4, <3>1, StepsNat
    <3> QED BY <3>2 DEF Linked
  <2> QED BY <2>1, <2>2
<1>7. Walk(q)[Steps] = NoThread
  BY <1>1, <1>2, <1>4, StepsNat
<1>8. s = <<>> => q.last = NoThread
  BY DEF Represents, EmptyThreadQueue
<1>9. s # <<>> => q.last \in ToSet(s) /\ q.last # NoThread /\ next[q.last] = NoThread
  <2>1. s # <<>> => Len(s) \in 1 .. Len(s)
    BY <1>1, QueueElements
  <2>2. s # <<>> => q.last = s[Len(s)] /\ next[s[Len(s)]] = NoThread
    BY DEF Represents
  <2> QED BY <1>1, <1>5, <2>1, <2>2
<1> QED BY <1>6, <1>7, <1>8, <1>9

-----------------------------------------------------------------------------
\* The three queues stand for sequences that share no thread, and the states of
\* the threads say which one each is in.
InOrder(r, c, w) ==
    /\ Represents(ready, next, r) /\ Represents(cleanup, next, c)
    /\ Represents(waiters, next, w)
    /\ ToSet(r) \cap ToSet(c) = {} /\ ToSet(r) \cap ToSet(w) = {}
    /\ ToSet(c) \cap ToSet(w) = {}
    /\ \A t \in Thread : state[t] = "READY" <=> t \in ToSet(r)
    /\ \A t \in Thread : state[t] = "RUNNING" <=> t = current
    /\ \A t \in User : state[t] = "SLEEPING" <=> t \in ToSet(w)
    /\ \A t \in ToSet(c) : state[t] = "DEAD"
    /\ Cleaner \notin ToSet(c) \cup ToSet(w)

Accounted == TypeOK /\ \E r, c, w : InOrder(r, c, w)

LEMMA AccountedGivesQueuesIntact == Accounted => QueuesIntact
<1> SUFFICES ASSUME TypeOK, NEW r, NEW c, NEW w, InOrder(r, c, w) PROVE QueuesIntact
  BY DEF Accounted
<1>1. /\ ready \in Queue /\ cleanup \in Queue /\ waiters \in Queue
      /\ Represents(ready, next, r) /\ Represents(cleanup, next, c)
      /\ Represents(waiters, next, w)
  BY DEF TypeOK, InOrder
<1>2. Linked(ready) = ToSet(r) /\ Linked(cleanup) = ToSet(c) /\ Linked(waiters) = ToSet(w)
  BY <1>1, WalkFinds
<1>3. ASSUME NEW q \in {ready, cleanup, waiters}
      PROVE  /\ Walk(q)[Steps] = NoThread
             /\ q.last # NoThread => q.last \in Linked(q) /\ next[q.last] = NoThread
             /\ q.last = NoThread => Linked(q) = {}
  <2>1. PICK s : Represents(q, next, s)
    BY <1>1
  <2>2. q \in Queue
    BY <1>1
  <2>3. ToSet(<<>>) = {}
    BY EmptyQueue
  <2> HIDE DEF Walk, Linked
  <2> QED BY <2>1, <2>2, <2>3, WalkFinds
<1> QED BY <1>2, <1>3 DEF QueuesIntact, InOrder

LEMMA AccountedGivesThreadsAccounted == Accounted => ThreadsAccounted
<1> SUFFICES ASSUME TypeOK, NEW r, NEW c, NEW w, InOrder(r, c, w) PROVE ThreadsAccounted
  BY DEF Accounted
<1>1. Linked(ready) = ToSet(r) /\ Linked(cleanup) = ToSet(c) /\ Linked(waiters) = ToSet(w)
  BY WalkFinds DEF TypeOK, InOrder
<1> QED BY <1>1 DEF ThreadsAccounted, InOrder

LEMMA QueueTyped ==
    ASSUME NEW q \in Queue, NEW links \in Links
    PROVE  /\ Popped(q, links) \in Queue
           /\ \A t \in Thread : Added(q, t) \in Queue /\ AddedLinks(q, links, t) \in Links
BY DEF Queue, Links, Added, AddedLinks, Popped, IsEmpty

\* Taking the first thread of the ready queue onto the CPU keeps the account, if
\* it was kept by the states and queues the outgoing thread left.
LEMMA DispatchKeeps ==
    ASSUME NEW st \in [Thread -> {"CREATED", "SLEEPING", "READY", "RUNNING", "DEAD"}],
           NEW rq \in Queue, NEW links \in Links, Dispatch(st, rq, links),
           NEW r, NEW c, NEW w, Represents(rq, links, r), Represents(cleanup', links, c),
           Represents(waiters', links, w),
           ToSet(r) \cap ToSet(c) = {}, ToSet(r) \cap ToSet(w) = {},
           ToSet(c) \cap ToSet(w) = {},
           \A t \in Thread : st[t] = "READY" <=> t \in ToSet(r),
           \A t \in Thread : st[t] # "RUNNING",
           \A t \in User : st[t] = "SLEEPING" <=> t \in ToSet(w),
           \A t \in ToSet(c) : st[t] = "DEAD",
           Cleaner \notin ToSet(c) \cup ToSet(w)
    PROVE  /\ state' \in [Thread -> {"CREATED", "SLEEPING", "READY", "RUNNING", "DEAD"}]
           /\ next' \in Links /\ ready' \in Queue /\ current' \in Thread \cup {Idle, NoThread}
           /\ \E r2 : InOrder(r2, c, w)'
<1>1. /\ current' = IF IsEmpty(rq) THEN Idle ELSE rq.first
      /\ state' = [t \in Thread |-> IF t = rq.first THEN "RUNNING" ELSE st[t]]
      /\ ready' = Popped(rq, links) /\ next' = links
  BY DEF Dispatch
<1>2. /\ NoThread \notin Thread /\ Idle \notin Thread /\ User \subseteq Thread
      /\ r \in Seq(Thread) /\ IsInjective(r)
      /\ ToSet(r) \subseteq Thread /\ ToSet(c) \subseteq Thread /\ ToSet(w) \subseteq Thread
  BY ThreadsAssumption, QueueElements DEF Thread, Represents
<1>3. /\ r = <<>> => rq.first = NoThread /\ Represents(ready', next', <<>>)
      /\ r # <<>> => rq.first = Head(r) /\ Represents(ready', next', Tail(r))
  BY <1>1, <1>2, PopTakesFirst
<1>4. CASE r = <<>>
  <2>1. state' = st /\ current' = Idle
    BY <1>1, <1>2, <1>3, <1>4 DEF IsEmpty
  <2>2. InOrder(<<>>, c, w)'
    BY <1>1, <1>2, <1>3, <1>4, <2>1 DEF InOrder
  <2> QED BY <1>1, <2>1, <2>2, ThreadsAssumption, QueueTyped
<1>5. CASE r # <<>>
  <2>1. /\ rq.first = Head(r) /\ Head(r) \in Thread /\ Head(r) \in ToSet(r)
        /\ ToSet(r) = ToSet(Tail(r)) \cup {Head(r)} /\ Head(r) \notin ToSet(Tail(r))
    BY <1>2, <1>3, <1>5, PopElements, PopOnce
  <2>2. /\ current' = Head(r)
        /\ \A t \in Thread : state'[t] = IF t = Head(r) THEN "RUNNING" ELSE st[t]
    BY <1>1, <1>2, <2>1 DEF IsEmpty
  <2>3. InOrder(Tail(r), c, w)'
    BY <1>1, <1>2, <1>3, <1>5, <2>1, <2>2 DEF InOrder
  <2> QED BY <1>1, <2>1, <2>2, <2>3, QueueTyped
<1> QED BY <1>4, <1>5

LEMMA AccountedInit == Init => Accounted
<1> SUFFICES ASSUME Init PROVE Accounted
  OBVIOUS
<1>1. /\ next \in Links /\ Represents(ready, next, BootOrder)
      /\ cleanup = EmptyThreadQueue /\ waiters = EmptyThreadQueue
      /\ current = NoThread /\ intr = [t \in Thread |-> TRUE] /\ cleaning = "pop"
      /\ state = [t \in Thread |-> IF t = Cleaner THEN "CREATED" ELSE "READY"]
  BY DEF Init
<1>2. /\ BootOrder \in Seq(User) /\ ToSet(BootOrder) = User /\ Cleaner \notin User
      /\ NoThread \notin Thread /\ Thread = User \cup {Cleaner}
  BY ThreadsAssumption DEF Thread
<1>3. Represents(cleanup, next, <<>>) /\ Represents(waiters, next, <<>>)
  BY <1>1, EmptyQueue, EmptySeq DEF Represents
<1>4. ready \in Queue
  <2>1. BootOrder # <<>> => BootOrder[1] \in Thread /\ BootOrder[Len(BootOrder)] \in Thread
    BY <1>2, QueueElements, LenProperties
  <2> QED BY <1>1, <2>1 DEF Represents, Queue, EmptyThreadQueue
<1>5. TypeOK
  <2>1. rushed \in BOOLEAN
    BY DEF Init
  <2>2. state \in [Thread -> {"CREATED", "SLEEPING", "READY", "RUNNING", "DEAD"}]
    BY <1>1
  <2>3. intr \in [Thread -> BOOLEAN]
    BY <1>1
  <2>4. cleanup \in Queue /\ waiters \in Queue
    BY <1>1 DEF Queue, EmptyThreadQueue
  <2> QED BY <1>1, <1>4, <2>1, <2>2, <2>3, <2>4 DEF TypeOK
<1>6. InOrder(BootOrder, <<>>, <<>>)
  BY <1>1, <1>2, <1>3, EmptyQueue DEF InOrder
<1> QED BY <1>5, <1>6 DEF Accounted

LEMMA AccountedStep == Accounted /\ [Next]_vars /\ ~ rushed' => Accounted'
<1> SUFFICES ASSUME TypeOK, NEW r, NEW c, NEW w, InOrder(r, c, w), [Next]_vars, ~ rushed'
             PROVE  Accounted'
  BY DEF Accounted
<1>t. /\ state \in [Thread -> {"CREATED", "SLEEPING", "READY", "RUNNING", "DEAD"}]
      /\ next \in Links /\ ready \in Queue /\ cleanup \in Queue /\ waiters \in Queue
      /\ current \in Thread \cup {Idle, NoThread} /\ intr \in [Thread -> BOOLEAN]
      /\ cleaning \in {"pop", "sleep"}
      /\ NoThread \notin Thread /\ Idle \notin Thread
      /\ User \subseteq Thread /\ Cleaner \in Thread /\ Cleaner \notin User
      /\ rushed' \in BOOLEAN
  <2>1. rushed' \in BOOLEAN
    <3>1. rushed \in BOOLEAN
      BY DEF TypeOK
    <3>2. rushed' = rushed \/ \E t \in User : rushed' = (rushed \/ ~ CleanerAtRest)
      BY DEF Next, vars, Preempt, Notify, Reap, CleanerSleep, Wait, Return, Exit
    <3> QED BY <3>1, <3>2, Zenon
  <2> QED BY <2>1, ThreadsAssumption DEF TypeOK, Thread
<1>q. /\ Represents(ready, next, r) /\ Represents(cleanup, next, c)
      /\ Represents(waiters, next, w)
      /\ r \in Seq(Thread) /\ c \in Seq(Thread) /\ w \in Seq(Thread)
      /\ IsInjective(r) /\ IsInjective(c) /\ IsInjective(w)
      /\ ToSet(r) \subseteq Thread /\ ToSet(c) \subseteq Thread /\ ToSet(w) \subseteq Thread
  BY QueueElements DEF InOrder, Represents
<1>d. /\ ToSet(r) \cap ToSet(c) = {} /\ ToSet(r) \cap ToSet(w) = {}
      /\ ToSet(c) \cap ToSet(w) = {}
  BY DEF InOrder
\* The running thread is in no queue.
<1>c. current \in Thread =>
        /\ state[current] = "RUNNING"
        /\ current \notin ToSet(r) /\ current \notin ToSet(c)
        /\ current \in User => current \notin ToSet(w)
  BY DEF InOrder
<1>1. CASE Preempt
  <2>1. UNCHANGED <<cleanup, waiters, intr, cleaning>>
    BY <1>1 DEF Preempt
  <2>2. CASE current \in Thread
    <3> DEFINE st == [state EXCEPT ![current] = "READY"]
               links == AddedLinks(ready, next, current)
    <3>1. Dispatch(st, Added(ready, current), links)
      BY <1>1, <1>c, <2>2 DEF Preempt
    <3>2. /\ Append(r, current) \in Seq(Thread)
          /\ ToSet(Append(r, current)) = ToSet(r) \cup {current}
      BY <1>q, <2>2, AppendElements
    <3>3. current \notin ToSet(w)
      BY <1>c, <1>t, <2>2 DEF InOrder, Thread
    <3>4. /\ Represents(Added(ready, current), links, Append(r, current))
          /\ Represents(cleanup, links, c) /\ Represents(waiters, links, w)
      BY <1>t, <1>q, <1>d, <1>c, <2>2, <3>3, AddAppends, AddKeepsOthers
    <3>5. Added(ready, current) \in Queue /\ links \in Links
      BY <1>t, <2>2, QueueTyped
    <3>6. /\ st \in [Thread -> {"CREATED", "SLEEPING", "READY", "RUNNING", "DEAD"}]
          /\ \A t \in Thread : st[t] = IF t = current THEN "READY" ELSE state[t]
      BY <1>t, <2>2
    <3>7. /\ \A t \in Thread : st[t] = "READY" <=> t \in ToSet(Append(r, current))
          /\ \A t \in Thread : st[t] # "RUNNING"
          /\ \A t \in User : st[t] = "SLEEPING" <=> t \in ToSet(w)
          /\ \A t \in ToSet(c) : st[t] = "DEAD"
          /\ Cleaner \notin ToSet(c) \cup ToSet(w)
      BY <1>t, <1>q, <1>c, <2>2, <3>2, <3>3, <3>6 DEF InOrder
    <3>8. /\ ToSet(Append(r, current)) \cap ToSet(c) = {}
          /\ ToSet(Append(r, current)) \cap ToSet(w) = {}
      BY <1>d, <1>c, <2>2, <3>2, <3>3
    <3>9. Represents(cleanup', links, c) /\ Represents(waiters', links, w)
      BY <2>1, <3>4
    <3> HIDE DEF st, links
    <3>10. /\ state' \in [Thread -> {"CREATED", "SLEEPING", "READY", "RUNNING", "DEAD"}]
           /\ next' \in Links /\ ready' \in Queue /\ current' \in Thread \cup {Idle, NoThread}
           /\ \E r2 : InOrder(r2, c, w)'
      BY <1>d, <3>1, <3>4, <3>5, <3>6, <3>7, <3>8, <3>9, DispatchKeeps
    <3> QED BY <1>t, <2>1, <3>10 DEF Accounted, TypeOK
  <2>3. CASE current \notin Thread
    <3>1. Dispatch(state, ready, next)
      BY <1>1, <2>3 DEF Preempt
    <3>2. /\ \A t \in Thread : state[t] = "READY" <=> t \in ToSet(r)
          /\ \A t \in Thread : state[t] # "RUNNING"
          /\ \A t \in User : state[t] = "SLEEPING" <=> t \in ToSet(w)
          /\ \A t \in ToSet(c) : state[t] = "DEAD"
          /\ Cleaner \notin ToSet(c) \cup ToSet(w)
      BY <1>t, <2>3 DEF InOrder
    <3>3. Represents(cleanup', next, c) /\ Represents(waiters', next, w)
      BY <1>q, <2>1
    <3>4. /\ state' \in [Thread -> {"CREATED", "SLEEPING", "READY", "RUNNING", "DEAD"}]
          /\ next' \in Links /\ ready' \in Queue /\ current' \in Thread \cup {Idle, NoThread}
          /\ \E r2 : InOrder(r2, c, w)'
      BY <1>t, <1>q, <1>d, <3>1, <3>2, <3>3, DispatchKeeps
    <3> QED BY <1>t, <2>1, <3>4 DEF Accounted, TypeOK
  <2> QED BY <2>2, <2>3
<1>2. ASSUME NEW t \in User, Wait(t) PROVE Accounted'
  <2> DEFINE st == [state EXCEPT ![t] = "SLEEPING"]
             links == AddedLinks(waiters, next, t)
  <2>1. /\ current = t /\ waiters' = Added(waiters, t) /\ Dispatch(st, ready, links)
        /\ intr' = [intr EXCEPT ![t] = FALSE] /\ UNCHANGED <<cleanup, cleaning>>
    BY <1>2 DEF Wait
  <2>2. t \in Thread /\ t \notin ToSet(r) /\ t \notin ToSet(c) /\ t \notin ToSet(w)
    BY <1>t, <1>c, <2>1
  <2>3. ToSet(Append(w, t)) = ToSet(w) \cup {t}
    BY <1>q, <2>2, AppendElements
  <2>4. /\ Represents(Added(waiters, t), links, Append(w, t))
        /\ Represents(ready, links, r) /\ Represents(cleanup, links, c)
    BY <1>t, <1>q, <1>d, <2>2, AddAppends, AddKeepsOthers
  <2>5. Added(waiters, t) \in Queue /\ links \in Links
    BY <1>t, <2>2, QueueTyped
  <2>6. /\ st \in [Thread -> {"CREATED", "SLEEPING", "READY", "RUNNING", "DEAD"}]
        /\ \A u \in Thread : st[u] = IF u = t THEN "SLEEPING" ELSE state[u]
    BY <1>t, <2>2
  <2>7. /\ \A u \in Thread : st[u] = "READY" <=> u \in ToSet(r)
        /\ \A u \in Thread : st[u] # "RUNNING"
        /\ \A u \in User : st[u] = "SLEEPING" <=> u \in ToSet(Append(w, t))
        /\ \A u \in ToSet(c) : st[u] = "DEAD"
        /\ Cleaner \notin ToSet(c) \cup ToSet(Append(w, t))
    BY <1>t, <1>q, <2>1, <2>2, <2>3, <2>6 DEF InOrder
  <2>8. /\ ToSet(r) \cap ToSet(Append(w, t)) = {}
        /\ ToSet(c) \cap ToSet(Append(w, t)) = {}
    BY <1>d, <2>2, <2>3
  <2>9. Represents(cleanup', links, c) /\ Represents(waiters', links, Append(w, t))
    BY <2>1, <2>4
  <2> HIDE DEF st, links
  <2>10. /\ state' \in [Thread -> {"CREATED", "SLEEPING", "READY", "RUNNING", "DEAD"}]
         /\ next' \in Links /\ ready' \in Queue /\ current' \in Thread \cup {Idle, NoThread}
         /\ \E r2 : InOrder(r2, c, Append(w, t))'
    BY <1>t, <1>d, <2>1, <2>4, <2>5, <2>6, <2>7, <2>8, <2>9, DispatchKeeps
  <2> QED BY <1>t, <2>1, <2>5, <2>10 DEF Accounted, TypeOK
<1>3. CASE Notify
  <2>t. PICK t : t = waiters.first
    OBVIOUS
  <2> DEFINE links == AddedLinks(ready, next, t)
  <2>1. /\ t # NoThread /\ waiters' = Popped(waiters, next)
        /\ state' = [state EXCEPT ![t] = "READY"]
        /\ ready' = Added(ready, t) /\ next' = links
        /\ UNCHANGED <<cleanup, current, intr, cleaning>>
    BY <1>3, <2>t DEF Notify, IsEmpty
  <2>2. w # <<>> /\ t = Head(w) /\ Represents(Popped(waiters, next), next, Tail(w))
    BY <1>t, <1>q, <2>t, <2>1, PopTakesFirst
  <2>3. /\ t \in Thread /\ t \in ToSet(w) /\ Tail(w) \in Seq(Thread)
        /\ ToSet(w) = ToSet(Tail(w)) \cup {t} /\ t \notin ToSet(Tail(w))
    BY <1>q, <2>2, PopElements, PopOnce
  <2>4. t \notin ToSet(r) /\ t \notin ToSet(c) /\ t # Cleaner
    BY <1>d, <2>3 DEF InOrder
  <2>5. Popped(waiters, next) \in Queue /\ Added(ready, t) \in Queue /\ links \in Links
    BY <1>t, <2>3, QueueTyped
  <2>6. ToSet(Append(r, t)) = ToSet(r) \cup {t}
    BY <1>q, <2>3, AppendElements
  <2>7. /\ Represents(Added(ready, t), links, Append(r, t))
        /\ Represents(cleanup, links, c)
        /\ Represents(Popped(waiters, next), links, Tail(w))
    <3>1. ToSet(r) \cap ToSet(Tail(w)) = {}
      BY <1>d, <2>3
    <3> QED BY <1>t, <1>q, <1>d, <2>2, <2>3, <2>4, <2>5, <3>1, AddAppends, AddKeepsOthers
  <2> HIDE DEF links
  <2>8. /\ Represents(ready', next', Append(r, t)) /\ Represents(cleanup', next', c)
        /\ Represents(waiters', next', Tail(w))
    BY <2>1, <2>7
  <2>9. \A u \in Thread : state'[u] = IF u = t THEN "READY" ELSE state[u]
    BY <1>t, <2>1
  <2>10. t # current /\ state[t] = "SLEEPING"
    BY <1>t, <2>3, <2>4 DEF InOrder, Thread
  <2>11. InOrder(Append(r, t), c, Tail(w))'
    <3>1. /\ ToSet(Append(r, t)) \cap ToSet(c) = {}
          /\ ToSet(Append(r, t)) \cap ToSet(Tail(w)) = {}
          /\ ToSet(c) \cap ToSet(Tail(w)) = {}
      BY <1>d, <2>3, <2>4, <2>6
    <3>2. \A u \in Thread : state'[u] = "READY" <=> u \in ToSet(Append(r, t))
      BY <2>6, <2>9 DEF InOrder
    <3>3. \A u \in Thread : state'[u] = "RUNNING" <=> u = current'
      BY <2>1, <2>9, <2>10 DEF InOrder
    <3>4. \A u \in User : state'[u] = "SLEEPING" <=> u \in ToSet(Tail(w))
      BY <1>t, <2>3, <2>9 DEF InOrder
    <3>5. \A u \in ToSet(c) : state'[u] = "DEAD"
      BY <1>q, <2>4, <2>9 DEF InOrder
    <3>6. Cleaner \notin ToSet(c) \cup ToSet(Tail(w))
      BY <2>3 DEF InOrder
    <3> QED BY <2>8, <3>1, <3>2, <3>3, <3>4, <3>5, <3>6 DEF InOrder
  <2>12. TypeOK'
    BY <1>t, <2>1, <2>3, <2>5 DEF TypeOK
  <2> QED BY <2>11, <2>12 DEF Accounted
<1>4. ASSUME NEW t \in User, Return(t) PROVE Accounted'
  <2>1. /\ intr' = [intr EXCEPT ![t] = TRUE]
        /\ UNCHANGED <<state, next, ready, cleanup, waiters, current, cleaning>>
    BY <1>4 DEF Return
  <2>2. InOrder(r, c, w)'
    BY <2>1 DEF InOrder
  <2>3. TypeOK'
    BY <1>t, <2>1 DEF TypeOK
  <2> QED BY <2>2, <2>3 DEF Accounted
<1>5. CASE Reap
  <2>1. /\ cleanup' = Popped(cleanup, next) /\ cleaning' \in {"pop", "sleep"}
        /\ UNCHANGED <<state, next, ready, waiters, current, intr>>
    BY <1>5 DEF Reap
  <2>2. TypeOK'
    <3>1. Popped(cleanup, next) \in Queue
      BY <1>t, QueueTyped
    <3> QED BY <1>t, <2>1, <3>1 DEF TypeOK
  <2>3. CASE c = <<>>
    <3>1. Represents(cleanup', next', <<>>)
      BY <1>t, <1>q, <2>1, <2>3, PopTakesFirst
    <3>2. InOrder(r, c, w)'
      BY <2>1, <2>3, <3>1 DEF InOrder
    <3> QED BY <2>2, <3>2 DEF Accounted
  <2>4. CASE c # <<>>
    <3>1. Represents(cleanup', next', Tail(c))
      BY <1>t, <1>q, <2>1, <2>4, PopTakesFirst
    <3>2. ToSet(Tail(c)) \subseteq ToSet(c)
      BY <1>q, <2>4, PopElements
    <3>3. InOrder(r, Tail(c), w)'
      BY <2>1, <3>1, <3>2 DEF InOrder
    <3> QED BY <2>2, <3>3 DEF Accounted
  <2> QED BY <2>3, <2>4
<1>6. CASE CleanerSleep
  <2> DEFINE st == [state EXCEPT ![Cleaner] = "SLEEPING"]
  <2>1. /\ current = Cleaner /\ Dispatch(st, ready, next)
        /\ intr' = [intr EXCEPT ![Cleaner] = FALSE] /\ cleaning' = "pop"
        /\ UNCHANGED <<cleanup, waiters>>
    BY <1>6 DEF CleanerSleep
  <2>2. /\ st \in [Thread -> {"CREATED", "SLEEPING", "READY", "RUNNING", "DEAD"}]
        /\ \A u \in Thread : st[u] = IF u = Cleaner THEN "SLEEPING" ELSE state[u]
    BY <1>t
  <2>3. /\ \A u \in Thread : st[u] = "READY" <=> u \in ToSet(r)
        /\ \A u \in Thread : st[u] # "RUNNING"
        /\ \A u \in User : st[u] = "SLEEPING" <=> u \in ToSet(w)
        /\ \A u \in ToSet(c) : st[u] = "DEAD"
        /\ Cleaner \notin ToSet(c) \cup ToSet(w)
    BY <1>t, <1>q, <1>c, <2>1, <2>2 DEF InOrder
  <2>4. Represents(cleanup', next, c) /\ Represents(waiters', next, w)
    BY <1>q, <2>1
  <2> HIDE DEF st
  <2>5. /\ state' \in [Thread -> {"CREATED", "SLEEPING", "READY", "RUNNING", "DEAD"}]
        /\ next' \in Links /\ ready' \in Queue /\ current' \in Thread \cup {Idle, NoThread}
        /\ \E r2 : InOrder(r2, c, w)'
    BY <1>t, <1>q, <1>d, <2>1, <2>2, <2>3, <2>4, DispatchKeeps
  <2> QED BY <1>t, <2>1, <2>5 DEF Accounted, TypeOK
<1>7. ASSUME NEW t \in User, Exit(t) PROVE Accounted'
  <2> DEFINE dead == AddedLinks(cleanup, next, t)
             links == AddedLinks(ready, dead, Cleaner)
             st == [state EXCEPT ![t] = "DEAD", ![Cleaner] = "READY"]
             rq == Added(ready, Cleaner)
  <2>1. /\ current = t /\ cleanup' = Added(cleanup, t) /\ Dispatch(st, rq, links)
        /\ UNCHANGED <<waiters, intr, cleaning>>
    BY <1>7 DEF Exit
  <2>r. CleanerAtRest
    BY <1>7 DEF Exit
  <2>2. t \in Thread /\ t \notin ToSet(r) /\ t \notin ToSet(c) /\ t \notin ToSet(w) /\ t # Cleaner
    BY <1>t, <1>c, <2>1
  <2>3. Cleaner \notin ToSet(r) /\ Cleaner \notin ToSet(c) /\ Cleaner \notin ToSet(w)
    BY <1>t, <2>r DEF CleanerAtRest, InOrder
  <2>4. /\ Append(c, t) \in Seq(Thread) /\ ToSet(Append(c, t)) = ToSet(c) \cup {t}
        /\ Append(r, Cleaner) \in Seq(Thread) /\ ToSet(Append(r, Cleaner)) = ToSet(r) \cup {Cleaner}
    BY <1>t, <1>q, <2>2, AppendElements
  <2>5. /\ dead \in Links /\ Added(cleanup, t) \in Queue
        /\ Represents(Added(cleanup, t), dead, Append(c, t))
        /\ Represents(ready, dead, r) /\ Represents(waiters, dead, w)
    BY <1>t, <1>q, <1>d, <2>2, QueueTyped, AddAppends, AddKeepsOthers
  <2> HIDE DEF dead
  <2>6. rq \in Queue /\ links \in Links
    BY <1>t, <2>5, QueueTyped
  <2>7. Represents(rq, links, Append(r, Cleaner))
    BY <1>t, <2>3, <2>5, AddAppends
  <2>8. Represents(Added(cleanup, t), links, Append(c, t))
    <3>1. ToSet(r) \cap ToSet(Append(c, t)) = {} /\ Cleaner \notin ToSet(Append(c, t))
      BY <1>d, <2>2, <2>3, <2>4
    <3> QED BY <1>t, <2>5, <3>1, AddKeepsOthers
  <2>9. Represents(waiters, links, w)
    BY <1>t, <1>d, <2>3, <2>5, AddKeepsOthers
  <2>10. /\ st \in [Thread -> {"CREATED", "SLEEPING", "READY", "RUNNING", "DEAD"}]
         /\ \A u \in Thread : st[u] = IF u = Cleaner THEN "READY"
                                      ELSE IF u = t THEN "DEAD" ELSE state[u]
    BY <1>t, <2>2
  <2>11. /\ \A u \in Thread : st[u] = "READY" <=> u \in ToSet(Append(r, Cleaner))
         /\ \A u \in Thread : st[u] # "RUNNING"
         /\ \A u \in User : st[u] = "SLEEPING" <=> u \in ToSet(w)
         /\ \A u \in ToSet(Append(c, t)) : st[u] = "DEAD"
         /\ Cleaner \notin ToSet(Append(c, t)) \cup ToSet(w)
    BY <1>t, <1>q, <2>1, <2>2, <2>3, <2>4, <2>10 DEF InOrder
  <2>12. /\ ToSet(Append(r, Cleaner)) \cap ToSet(Append(c, t)) = {}
         /\ ToSet(Append(r, Cleaner)) \cap ToSet(w) = {}
         /\ ToSet(Append(c, t)) \cap ToSet(w) = {}
    BY <1>d, <2>2, <2>3, <2>4
  <2>13. Represents(cleanup', links, Append(c, t)) /\ Represents(waiters', links, w)
    BY <2>1, <2>8, <2>9
  <2> HIDE DEF st, rq, links
  <2>14. /\ state' \in [Thread -> {"CREATED", "SLEEPING", "READY", "RUNNING", "DEAD"}]
         /\ next' \in Links /\ ready' \in Queue /\ current' \in Thread \cup {Idle, NoThread}
         /\ \E r2 : InOrder(r2, Append(c, t), w)'
    BY <2>1, <2>6, <2>7, <2>10, <2>11, <2>12, <2>13, DispatchKeeps
  <2> QED BY <1>t, <2>1, <2>5, <2>14 DEF Accounted, TypeOK
<1>8. CASE UNCHANGED vars
  BY <1>8 DEF vars, Accounted, InOrder, TypeOK
<1> QED
  BY <1>1, <1>2, <1>3, <1>4, <1>5, <1>6, <1>7, <1>8 DEF Next

\* Once a thread exited in a hurry, that stays so.
LEMMA RushedStays == rushed /\ [Next]_vars => rushed'
BY DEF Next, Preempt, Notify, Reap, CleanerSleep, Wait, Return, Exit, vars

\* The account is kept until a thread exits while the cleaner is not at rest.
THEOREM AccountedAlways == Spec => [](rushed \/ Accounted)
<1>1. (rushed \/ Accounted) /\ [Next]_vars => (rushed \/ Accounted)'
  BY AccountedStep, RushedStays
<1> QED BY <1>1, AccountedInit, PTL DEF Spec

\* The links of the three queues do not get entangled before a thread exits while the
\* cleaner is at work, which thread_exit does not prevent: each queue's walk ends at
\* its last thread and no thread is in two queues.
THEOREM QueuesIntactUntilRushed == Spec => []QueuesIntact
<1>1. rushed \/ Accounted => QueuesIntact
  BY AccountedGivesQueuesIntact DEF QueuesIntact
<1> QED BY <1>1, AccountedAlways, PTL

\* Until then, every thread is where its state says, found by following the links.
THEOREM AccountedUntilRushed == Spec => []ThreadsAccounted
<1>1. rushed \/ Accounted => ThreadsAccounted
  BY AccountedGivesThreadsAccounted DEF ThreadsAccounted
<1> QED BY <1>1, AccountedAlways, PTL

-----------------------------------------------------------------------------
(* The screen *)

Spot == [x : Column, y : Nat]

\* The place behind a character is in the same row of the page or the next.
LEMMA NextPlace ==
    ASSUME NEW p \in Spot, NEW char
    PROVE  /\ PlaceAfter(p, char) \in Spot
           /\ PlaceAfter(p, char).y \in {p.y, p.y + 1}
<1>0. Width \in Nat \ {0} /\ p.x \in 0 .. Width - 1 /\ p.y \in Nat
  BY ScreenAssumption DEF Spot, Column
<1>1. CASE char = CR
  BY <1>0, <1>1 DEF PlaceAfter, Spot, Column
<1>2. CASE char # CR /\ (char = LF \/ p.x = Width - 1)
  BY <1>0, <1>2 DEF PlaceAfter, Spot, Column
<1>3. CASE char # CR /\ char # LF /\ p.x # Width - 1
  <2>1. PlaceAfter(p, char) = [p EXCEPT !.x = @ + 1]
    BY <1>3 DEF PlaceAfter
  <2>2. p.x + 1 \in 0 .. Width - 1
    BY <1>0, <1>3
  <2>3. [p EXCEPT !.x = @ + 1] = [x |-> p.x + 1, y |-> p.y]
    BY DEF Spot
  <2> QED BY <1>0, <2>1, <2>2, <2>3 DEF Spot, Column
<1> QED BY <1>1, <1>2, <1>3

LEMMA HomeSpot == Home \in Spot
BY ScreenAssumption DEF Home, Spot, Column

Placed(f, text) ==
    /\ f \in [0 .. Len(text) -> Spot] /\ f[0] = Home
    /\ \A i \in 1 .. Len(text) : f[i] = PlaceAfter(f[i - 1], text[i])

\* Places, unfolded along the text.
LEMMA PlacesUnfold ==
    ASSUME NEW T, NEW text \in Seq(T)
    PROVE  Placed(Places(text), text)
<1> DEFINE Up(f) == f = [i \in 0 .. Len(text) |->
                      IF i = 0 THEN Home ELSE PlaceAfter(f[i - 1], text[i])]
           step == [n \in Nat |-> [p \in Spot |-> PlaceAfter(p, text[n])]]
<1>0. PICK N \in Nat : N = Len(text)
  OBVIOUS
<1>1. step \in [Nat -> [Spot -> Spot]] /\ Home \in Spot
  BY NextPlace, HomeSpot
<1>2. PICK f : Iterates(f, Spot, Home, step, N)
  <2> HIDE DEF step
  <2> QED BY <1>1, RecursionUnfolds
<1>3. ASSUME NEW i \in 1 .. N PROVE f[i] = PlaceAfter(f[i - 1], text[i])
  <2>1. i - 1 \in 0 .. N /\ f[i - 1] \in Spot /\ i \in Nat
    BY <1>2 DEF Iterates
  <2>2. f[i] = step[i][f[i - 1]]
    BY <1>2 DEF Iterates
  <2> QED BY <2>1, <2>2
<1> HIDE DEF step
<1>4. Up(f)
  <2>1. ASSUME NEW i \in 0 .. N
        PROVE  f[i] = IF i = 0 THEN Home ELSE PlaceAfter(f[i - 1], text[i])
    <3>1. CASE i = 0
      BY <1>2, <3>1 DEF Iterates
    <3>2. CASE i # 0
      <4>1. i \in 1 .. N
        BY <3>2
      <4> QED BY <1>3, <3>2, <4>1, Zenon
    <3> QED BY <3>1, <3>2
  <2>2. f = [i \in 0 .. N |-> f[i]]
    BY <1>2 DEF Iterates
  <2> QED BY <1>0, <2>1, <2>2, Zenon
<1> DEFINE h == CHOOSE e : Up(e)
<1>5. Up(h)
  BY <1>4, Zenon
<1>6. Places(text) = h
  BY DEF Places
<1>7. /\ h = [i \in 0 .. N |-> h[i]]
      /\ \A i \in 0 .. N : h[i] = IF i = 0 THEN Home ELSE PlaceAfter(h[i - 1], text[i])
  BY <1>0, <1>5, Zenon
<1> HIDE DEF h
<1>8. ASSUME NEW i \in 0 .. N PROVE h[i] \in Spot
  <2> DEFINE P == {n \in Nat : n \in 0 .. N => h[n] \in Spot}
  <2>1. 0 \in P
    BY <1>7, HomeSpot
  <2>2. ASSUME NEW n \in Nat, n \in P PROVE n + 1 \in P
    <3> SUFFICES ASSUME n + 1 \in 0 .. N PROVE h[n + 1] \in Spot
      OBVIOUS
    <3>1. n \in 0 .. N /\ n + 1 # 0 /\ (n + 1) - 1 = n
      OBVIOUS
    <3>2. h[n + 1] = PlaceAfter(h[n], text[n + 1])
      BY <1>7, <3>1
    <3> QED BY <2>2, <3>1, <3>2, NextPlace
  <2>3. i \in Nat
    OBVIOUS
  <2>4. i \in P
    <3> HIDE DEF P
    <3> QED BY <2>1, <2>2, <2>3, CountedUp, Zenon
  <2> QED BY <2>4
<1>9. /\ h[0] = Home
      /\ \A i \in 1 .. N : h[i] = PlaceAfter(h[i - 1], text[i])
  BY <1>7
<1>10. h \in [0 .. N -> Spot]
  BY <1>7, <1>8
<1> QED BY <1>0, <1>6, <1>9, <1>10 DEF Placed

\* A character more leaves the places of those before it.
LEMMA PlacesAppend ==
    ASSUME NEW T, NEW text \in Seq(T), NEW char \in T
    PROVE  /\ \A i \in 0 .. Len(text) : Places(Append(text, char))[i] = Places(text)[i]
           /\ Places(Append(text, char))[Len(text) + 1]
                = PlaceAfter(Places(text)[Len(text)], char)
<1> DEFINE more == Append(text, char)
           f == Places(text)
           g == Places(more)
<1>0. PICK N \in Nat : N = Len(text)
  OBVIOUS
<1>1. more \in Seq(T) /\ Len(more) = N + 1 /\ more[N + 1] = char
      /\ \A i \in 1 .. N : more[i] = text[i]
  BY <1>0
<1>2. Placed(f, text) /\ Placed(g, more)
  BY <1>1, PlacesUnfold
<1> HIDE DEF more, f, g
<1>3. ASSUME NEW i \in 0 .. N PROVE g[i] = f[i]
  <2> DEFINE P == {n \in Nat : n \in 0 .. N => g[n] = f[n]}
  <2>1. 0 \in P
    BY <1>2 DEF Placed
  <2>2. ASSUME NEW n \in Nat, n \in P PROVE n + 1 \in P
    <3> SUFFICES ASSUME n + 1 \in 0 .. N PROVE g[n + 1] = f[n + 1]
      OBVIOUS
    <3>1. n \in 0 .. N /\ n + 1 \in 1 .. N /\ n + 1 \in 1 .. N + 1 /\ (n + 1) - 1 = n
      OBVIOUS
    <3>2. g[n + 1] = PlaceAfter(g[n], more[n + 1])
      BY <1>1, <1>2, <3>1 DEF Placed
    <3>3. f[n + 1] = PlaceAfter(f[n], text[n + 1])
      BY <1>0, <1>2, <3>1 DEF Placed
    <3> QED BY <1>1, <2>2, <3>1, <3>2, <3>3
  <2>3. i \in Nat
    OBVIOUS
  <2>4. i \in P
    <3> HIDE DEF P
    <3> QED BY <2>1, <2>2, <2>3, CountedUp, Zenon
  <2> QED BY <2>4
<1>4. g[N + 1] = PlaceAfter(g[N], char)
  <2>1. N + 1 \in 1 .. N + 1 /\ (N + 1) - 1 = N
    OBVIOUS
  <2> QED BY <1>1, <1>2, <2>1 DEF Placed
<1>5. g[N] = f[N]
  BY <1>3
<1> QED BY <1>0, <1>3, <1>4, <1>5 DEF f, g, more

\* The places of a text are on the page, and none is below the last one.
LEMMA PlacesAbove ==
    ASSUME NEW T, NEW text \in Seq(T)
    PROVE  \A i \in 0 .. Len(text) :
             /\ Places(text)[i] \in Spot
             /\ Places(text)[i].y <= Places(text)[Len(text)].y
<1> DEFINE Above(s) == \A i \in 0 .. Len(s) : Places(s)[i].y <= Places(s)[Len(s)].y
           P == {s \in Seq(T) : Above(s)}
<1>1. \A s \in Seq(T) : \A i \in 0 .. Len(s) : Places(s)[i] \in Spot
  BY PlacesUnfold DEF Placed
<1>2. << >> \in P
  <2>0. << >> \in Seq(T) /\ Len(<< >>) = 0
    OBVIOUS
  <2>1. Places(<< >>)[0] \in Spot
    <3>1. 0 \in 0 .. Len(<< >>)
      BY <2>0
    <3> QED BY <1>1, <2>0, <3>1, Zenon
  <2>2. Places(<< >>)[0].y \in Nat
    BY <2>1 DEF Spot
  <2>3. Above(<< >>)
    BY <2>0, <2>2
  <2> QED BY <2>0, <2>3
<1>3. ASSUME NEW s \in Seq(T), NEW char \in T, s \in P PROVE Append(s, char) \in P
  <2> DEFINE f == Places(s)
             g == Places(Append(s, char))
  <2>0. PICK N \in Nat : N = Len(s)
    OBVIOUS
  <2>1. Append(s, char) \in Seq(T) /\ Len(Append(s, char)) = N + 1
    BY <2>0
  <2>2. \A i \in 0 .. N : g[i] = f[i]
    BY <2>0, PlacesAppend
  <2>3. g[N + 1] = PlaceAfter(f[N], char)
    BY <2>0, PlacesAppend
  <2>4. \A i \in 0 .. N : f[i] \in Spot /\ f[i].y <= f[N].y
    BY <1>1, <1>3, <2>0
  <2>5. g[N + 1] \in Spot /\ g[N + 1].y \in {f[N].y, f[N].y + 1}
    BY <2>3, <2>4, NextPlace
  <2> HIDE DEF f, g
  <2>6. \A i \in 0 .. N : f[i].y \in Nat
    BY <2>4 DEF Spot
  <2>7. ASSUME NEW i \in 0 .. N + 1 PROVE g[i].y <= g[N + 1].y
    <3>1. CASE i \in 0 .. N
      <4>1. f[i].y <= f[N].y /\ f[i].y \in Nat /\ f[N].y \in Nat /\ g[i] = f[i]
        BY <2>2, <2>4, <2>6, <3>1
      <4> QED BY <2>5, <4>1
    <3>2. CASE i = N + 1
      BY <2>5, <3>2 DEF Spot
    <3> QED BY <3>1, <3>2
  <2>8. Above(Append(s, char))
    BY <2>1, <2>7 DEF g
  <2> QED BY <2>1, <2>8
<1>4. \A s \in Seq(T) : s \in P
  <2> HIDE DEF P
  <2> QED BY <1>2, <1>3, AppendedUp
<1> QED BY <1>1, <1>4

\* A set of positions has a last one.
LEMMA LastExists ==
    ASSUME NEW N \in Nat, NEW S \in SUBSET (1 .. N), S # {}
    PROVE  (CHOOSE i \in S : \A j \in S : j <= i) \in S
<1> DEFINE D == {k \in Nat : N - k \in S}
<1>1. D \in SUBSET Nat
  OBVIOUS
<1>2. D # {}
  <2>1. PICK i \in S : TRUE
    OBVIOUS
  <2>2. N - i \in Nat /\ N - (N - i) = i
    OBVIOUS
  <2> QED BY <2>2
<1>3. PICK m \in D : \A k \in D : m <= k
  <2> HIDE DEF D
  <2> QED BY <1>1, <1>2, LeastNatural
<1>4. N - m \in S /\ m \in Nat
  OBVIOUS
<1>5. ASSUME NEW j \in S PROVE j <= N - m
  <2>1. N - j \in Nat /\ N - (N - j) = j
    OBVIOUS
  <2>2. N - j \in D
    BY <2>1
  <2>3. m <= N - j
    BY <1>3, <2>2
  <2> QED BY <1>4, <2>1, <2>3
<1>6. \E i \in S : \A j \in S : j <= i
  BY <1>4, <1>5
<1> QED BY <1>6, Zenon

Here(text, at, place) == {i \in 1 .. Len(text) : text[i] \notin {CR, LF} /\ at[i - 1] = place}

\* What a character more changes on the page: the place it is written to.
LEMMA ShownAppend ==
    ASSUME NEW T, NEW text \in Seq(T), NEW char \in T, NEW place
    PROVE  Shown(Append(text, char), Places(Append(text, char)), place)
             = IF char \notin {CR, LF} /\ Places(text)[Len(text)] = place
               THEN char ELSE Shown(text, Places(text), place)
<1> DEFINE more == Append(text, char)
           f == Places(text)
           g == Places(more)
           old == Here(text, f, place)
           new == Here(more, g, place)
<1>0. PICK N \in Nat : N = Len(text)
  OBVIOUS
<1>1. more \in Seq(T) /\ Len(more) = N + 1 /\ more[N + 1] = char
      /\ \A i \in 1 .. N : more[i] = text[i]
  BY <1>0
<1>2. \A i \in 0 .. N : g[i] = f[i]
  BY <1>0, PlacesAppend
<1>3. /\ Shown(text, f, place)
           = IF old = {} THEN Blank ELSE text[CHOOSE i \in old : \A j \in old : j <= i]
      /\ Shown(more, g, place)
           = IF new = {} THEN Blank ELSE more[CHOOSE i \in new : \A j \in new : j <= i]
  BY DEF Shown, Here
<1>4. /\ old = {i \in 1 .. N : text[i] \notin {CR, LF} /\ f[i - 1] = place}
      /\ new = {i \in 1 .. N + 1 : more[i] \notin {CR, LF} /\ g[i - 1] = place}
  BY <1>0, <1>1 DEF Here
<1> HIDE DEF more, f, g, old, new
<1>5. ASSUME NEW i \in 1 .. N PROVE i \in new <=> i \in old
  <2>1. i \in 1 .. N + 1 /\ i - 1 \in 0 .. N
    OBVIOUS
  <2>2. more[i] = text[i] /\ g[i - 1] = f[i - 1]
    BY <1>1, <1>2, <2>1
  <2> QED BY <1>4, <2>1, <2>2
<1>6. N + 1 \in new <=> char \notin {CR, LF} /\ f[N] = place
  BY <1>1, <1>2, <1>4
<1>7. CASE char \notin {CR, LF} /\ f[N] = place
  <2>1. N + 1 \in new /\ \A j \in new : j <= N + 1
    BY <1>4, <1>6, <1>7
  <2>2. (CHOOSE i \in new : \A j \in new : j <= i) = N + 1
    <3>1. \A i \in new : i \in Nat /\ ((\A j \in new : j <= i) => i = N + 1)
      BY <1>4, <2>1
    <3>2. \E i \in new : \A j \in new : j <= i
      BY <2>1
    <3> QED BY <3>1, <3>2
  <2> QED BY <1>0, <1>1, <1>3, <1>7, <2>1, <2>2 DEF f, g, more
<1>8. CASE ~(char \notin {CR, LF} /\ f[N] = place)
  <2>1. new = old
    <3>1. \A i : i \in new => i \in old
      BY <1>4, <1>5, <1>6, <1>8
    <3>2. \A i : i \in old => i \in new
      BY <1>4, <1>5
    <3> QED BY <3>1, <3>2
  <2>2. CASE old = {}
    BY <1>0, <1>3, <1>8, <2>1, <2>2 DEF f, g, more
  <2>3. CASE old # {}
    <3>1. old \in SUBSET (1 .. N)
      BY <1>4
    <3>2. (CHOOSE i \in old : \A j \in old : j <= i) \in old
      BY <2>3, <3>1, LastExists
    <3>3. text[CHOOSE i \in old : \A j \in old : j <= i]
            = more[CHOOSE i \in old : \A j \in old : j <= i]
      BY <1>1, <3>1, <3>2
    <3> QED BY <1>0, <1>3, <1>8, <2>1, <2>3, <3>3 DEF f, g, more
  <2> QED BY <2>2, <2>3
<1> QED BY <1>7, <1>8

\* Below the last place nothing is written.
LEMMA ShownBelow ==
    ASSUME NEW T, NEW text \in Seq(T), NEW place \in Spot,
           place.y > Places(text)[Len(text)].y
    PROVE  Shown(text, Places(text), place) = Blank
<1>0. PICK N \in Nat : N = Len(text)
  OBVIOUS
<1>1. ASSUME NEW i \in 1 .. N PROVE Places(text)[i - 1] # place
  <2>1. i - 1 \in 0 .. N /\ N \in 0 .. N
    OBVIOUS
  <2>2. /\ Places(text)[i - 1] \in Spot /\ Places(text)[N] \in Spot
        /\ Places(text)[i - 1].y <= Places(text)[N].y
    BY <1>0, <2>1, PlacesAbove
  <2>3. Places(text)[i - 1].y \in Nat /\ Places(text)[N].y \in Nat /\ place.y \in Nat
    BY <2>2 DEF Spot
  <2> QED BY <1>0, <2>2, <2>3
<1>2. Here(text, Places(text), place) = {}
  BY <1>0, <1>1 DEF Here
<1> QED BY <1>2 DEF Shown, Here

-----------------------------------------------------------------------------
\* The row of the page that the first row of the screen shows.
FirstRow(last) == IF last.y < Height THEN 0 ELSE last.y - Height + 1

LEMMA LayoutParts ==
    ASSUME NEW T, NEW text \in Seq(T), NEW last, last = Places(text)[Len(text)]
    PROVE  /\ last \in Spot
           /\ FirstRow(last) \in Nat
           /\ last.y - FirstRow(last) \in Row
           /\ Layout(text).cursor = [x |-> last.x, y |-> last.y - FirstRow(last)]
           /\ Layout(text).cursor \in Cursor
           /\ Layout(text).cells = [r \in Row |-> [c \in Column |->
                 Shown(text, Places(text), [x |-> c, y |-> FirstRow(last) + r])]]
           /\ Layout(text) = [cells |-> Layout(text).cells, cursor |-> Layout(text).cursor]
<1>1. last \in Spot
  BY PlacesAbove
<1>2. last.y \in Nat /\ last.x \in Column
  BY <1>1 DEF Spot
<1>3. FirstRow(last) \in Nat /\ last.y - FirstRow(last) \in Row
  BY <1>2, ScreenAssumption DEF FirstRow, Row
<1>4. [last EXCEPT !.y = @ - FirstRow(last)] = [x |-> last.x, y |-> last.y - FirstRow(last)]
  BY <1>1 DEF Spot
<1>5. [last EXCEPT !.y = @ - FirstRow(last)] \in Cursor
  BY <1>2, <1>3, <1>4 DEF Cursor
<1>6. Layout(text) =
        [cells |-> [r \in Row |-> [c \in Column |->
                 Shown(text, Places(text), [x |-> c, y |-> FirstRow(last) + r])]],
         cursor |-> [last EXCEPT !.y = @ - FirstRow(last)]]
  BY DEF Layout, FirstRow
<1> QED BY <1>1, <1>3, <1>4, <1>5, <1>6

\* Where the cursor goes is where the page goes on.
LEMMA CursorFollows ==
    ASSUME NEW p \in Spot, NEW top \in Nat, NEW char, p.y - top \in Nat
    PROVE  Wrapped(Advanced([x |-> p.x, y |-> p.y - top], char))
             = [x |-> PlaceAfter(p, char).x, y |-> PlaceAfter(p, char).y - top]
<1> DEFINE cur == [x |-> p.x, y |-> p.y - top]
<1>0. Width \in Nat \ {0} /\ p.x \in 0 .. Width - 1 /\ p.y \in Nat
  BY ScreenAssumption DEF Spot, Column
<1>1. CASE char = CR
  <2>1. PlaceAfter(p, char) = [x |-> 0, y |-> p.y]
    BY <1>1 DEF PlaceAfter, Spot
  <2>2. Advanced(cur, char) = [x |-> 0, y |-> p.y - top]
    <3>1. Advanced(cur, char) = [cur EXCEPT !.x = 0]
      BY <1>1, ScreenAssumption DEF Advanced
    <3> QED BY <3>1
  <2> QED BY <1>0, <2>1, <2>2 DEF Wrapped
<1>2. CASE char = LF
  <2>0. char # CR
    BY <1>2, ScreenAssumption
  <2>1. PlaceAfter(p, char) = [x |-> 0, y |-> p.y + 1]
    BY <1>2, <2>0 DEF PlaceAfter
  <2>2. Advanced(cur, char) = [x |-> 0, y |-> p.y - top + 1]
    BY <1>2, <2>0 DEF Advanced
  <2> QED BY <1>0, <2>1, <2>2 DEF Wrapped
<1>3. CASE char # CR /\ char # LF
  <2>1. Advanced(cur, char) = [x |-> p.x + 1, y |-> p.y - top]
    BY <1>3 DEF Advanced
  <2>2. CASE p.x = Width - 1
    <3>1. PlaceAfter(p, char) = [x |-> 0, y |-> p.y + 1]
      BY <1>3, <2>2 DEF PlaceAfter
    <3> QED BY <1>0, <2>1, <2>2, <3>1 DEF Wrapped
  <2>3. CASE p.x # Width - 1
    <3>1. PlaceAfter(p, char) = [x |-> p.x + 1, y |-> p.y]
      BY <1>3, <2>3 DEF PlaceAfter, Spot
    <3>2. p.x + 1 # Width
      BY <1>0, <2>3
    <3> QED BY <1>0, <2>1, <3>1, <3>2 DEF Wrapped
  <2> QED BY <2>2, <2>3
<1> QED BY <1>1, <1>2, <1>3

\* The character in the cell at the cursor.
LEMMA DrawnCells ==
    ASSUME NEW cl, cl = [r \in Row |-> [c \in Column |-> cl[r][c]]],
           NEW cur \in Cursor, NEW char
    PROVE  Drawn(cl, cur, char) = [r \in Row |-> [c \in Column |->
             IF char \notin {CR, LF} /\ cur = [x |-> c, y |-> r] THEN char ELSE cl[r][c]]]
<1> DEFINE new == [r \in Row |-> [c \in Column |->
                     IF char \notin {CR, LF} /\ cur = [x |-> c, y |-> r] THEN char ELSE cl[r][c]]]
<1>0. cur.x \in Column /\ cur.y \in Row /\ cur = [x |-> cur.x, y |-> cur.y]
  BY DEF Cursor
<1>1. CASE char \in {CR, LF}
  <2>1. Drawn(cl, cur, char) = cl
    BY <1>1 DEF Drawn
  <2> QED BY <1>1, <2>1
<1>2. CASE char \notin {CR, LF}
  <2>1. Drawn(cl, cur, char) = [cl EXCEPT ![cur.y][cur.x] = char]
    BY <1>2 DEF Drawn
  <2>2. [cl EXCEPT ![cur.y][cur.x] = char] =
          [r \in Row |-> IF r = cur.y THEN [cl[r] EXCEPT ![cur.x] = char] ELSE cl[r]]
    BY <1>0
  <2>3. ASSUME NEW r \in Row
        PROVE  (IF r = cur.y THEN [cl[r] EXCEPT ![cur.x] = char] ELSE cl[r]) = new[r]
    <3>1. cl[r] = [c \in Column |-> cl[r][c]]
      OBVIOUS
    <3>2. CASE r = cur.y
      <4>1. [cl[r] EXCEPT ![cur.x] = char] =
              [c \in Column |-> IF c = cur.x THEN char ELSE cl[r][c]]
        BY <3>1
      <4>2. ASSUME NEW c \in Column PROVE cur = [x |-> c, y |-> r] <=> c = cur.x
        BY <1>0, <3>2
      <4> QED BY <1>2, <3>2, <4>1, <4>2
    <3>3. CASE r # cur.y
      <4>1. ASSUME NEW c \in Column PROVE cur # [x |-> c, y |-> r]
        BY <3>3
      <4> QED BY <3>1, <3>3, <4>1
    <3> QED BY <3>2, <3>3
  <2>4. [r \in Row |-> IF r = cur.y THEN [cl[r] EXCEPT ![cur.x] = char] ELSE cl[r]] = new
    <3>1. new = [r \in Row |-> new[r]]
      OBVIOUS
    <3> HIDE DEF new
    <3> QED BY <2>3, <3>1
  <2> QED BY <2>1, <2>2, <2>4
<1> QED BY <1>1, <1>2

\* screen_putc adds a character to the layout of a text, on every screen.
THEOREM PutLaysOut ==
    ASSUME NEW T, NEW text \in Seq(T), NEW char \in T
    PROVE  Put(Layout(text).cells, Layout(text).cursor, char) = Layout(Append(text, char))
<1> DEFINE more == Append(text, char)
           last == Places(text)[Len(text)]
           behind == Places(more)[Len(more)]
           cl == Layout(text).cells
           cur == Layout(text).cursor
           top == FirstRow(last)
           wrapped == Wrapped(Advanced(cur, char))
           drawn1 == Drawn(cl, cur, char)
<1>1. more \in Seq(T) /\ Len(more) = Len(text) + 1
  OBVIOUS
<1>2. behind = PlaceAfter(last, char)
  BY <1>1, PlacesAppend
<1>3. /\ last \in Spot /\ top \in Nat /\ last.y - top \in Row
      /\ cur = [x |-> last.x, y |-> last.y - top] /\ cur \in Cursor
      /\ cl = [r \in Row |-> [c \in Column |->
                 Shown(text, Places(text), [x |-> c, y |-> top + r])]]
  BY LayoutParts
<1>4. /\ behind \in Spot /\ FirstRow(behind) \in Nat
      /\ Layout(more).cursor = [x |-> behind.x, y |-> behind.y - FirstRow(behind)]
      /\ Layout(more).cells = [r \in Row |-> [c \in Column |->
                 Shown(more, Places(more), [x |-> c, y |-> FirstRow(behind) + r])]]
      /\ Layout(more) = [cells |-> Layout(more).cells, cursor |-> Layout(more).cursor]
  <2>1. behind = Places(more)[Len(more)]
    OBVIOUS
  <2> HIDE DEF behind, more
  <2> QED BY <1>1, <2>1, LayoutParts
<1>5. /\ Height \in Nat \ {0} /\ Row = 0 .. Height - 1
      /\ last.y \in Nat /\ behind.y \in {last.y, last.y + 1} /\ behind.x \in Column
  BY <1>2, <1>3, <1>4, NextPlace, ScreenAssumption DEF Spot, Row
<1>6. wrapped = [x |-> behind.x, y |-> behind.y - top]
  <2>1. last.y - top \in Nat
    BY <1>3, <1>5
  <2> QED BY <1>2, <1>3, <2>1, CursorFollows
<1>7. \A r \in Row, c \in Column :
        drawn1[r][c] = Shown(more, Places(more), [x |-> c, y |-> top + r])
  <2>1. cl = [r \in Row |-> [c \in Column |-> cl[r][c]]]
    BY <1>3
  <2>2. ASSUME NEW r \in Row, NEW c \in Column
        PROVE  drawn1[r][c] = Shown(more, Places(more), [x |-> c, y |-> top + r])
    <3>1. drawn1[r][c] = IF char \notin {CR, LF} /\ cur = [x |-> c, y |-> r]
                         THEN char ELSE cl[r][c]
      <4> HIDE DEF cl, cur
      <4> QED BY <1>3, <2>1, DrawnCells
    <3>2. cl[r][c] = Shown(text, Places(text), [x |-> c, y |-> top + r])
      BY <1>3
    <3>3. Shown(more, Places(more), [x |-> c, y |-> top + r])
            = IF char \notin {CR, LF} /\ last = [x |-> c, y |-> top + r]
              THEN char ELSE Shown(text, Places(text), [x |-> c, y |-> top + r])
      BY ShownAppend
    <3>4. cur = [x |-> c, y |-> r] <=> last = [x |-> c, y |-> top + r]
      <4>1. last = [x |-> last.x, y |-> last.y]
        BY <1>3 DEF Spot
      <4>2. last.y - top = r <=> last.y = top + r
        BY <1>3, <1>5
      <4> HIDE DEF cur, last, top
      <4> QED BY <1>3, <4>1, <4>2
    <3> HIDE DEF cur, last, top, cl, drawn1, more
    <3> QED BY <3>1, <3>2, <3>3, <3>4
  <2> QED BY <2>2
<1>8. drawn1 = [r \in Row |-> [c \in Column |-> drawn1[r][c]]]
  <2>1. cl = [r \in Row |-> [c \in Column |-> cl[r][c]]]
    BY <1>3
  <2> HIDE DEF cl, cur
  <2> QED BY <1>3, <2>1, DrawnCells
<1>9. Put(cl, cur, char) = IF wrapped.y = Height
                          THEN [cells |-> ScrolledUp(drawn1),
                                cursor |-> [wrapped EXCEPT !.y = @ - 1]]
                          ELSE [cells |-> drawn1, cursor |-> wrapped]
  BY DEF Put
<1> HIDE DEF drawn1, wrapped, cl, cur, last, behind, more, top
<1>10. top = IF last.y < Height THEN 0 ELSE last.y - Height + 1
  BY DEF top, FirstRow
<1>11. FirstRow(behind) = IF behind.y < Height THEN 0 ELSE behind.y - Height + 1
  BY DEF FirstRow
<1>12. /\ Height \in Nat \ {0} /\ last.y \in Nat /\ behind.y \in {last.y, last.y + 1}
      /\ top \in Nat /\ FirstRow(behind) \in Nat /\ last.y - top \in 0 .. Height - 1
  BY <1>3, <1>4, <1>5
<1>13. CASE wrapped.y = Height
  <2>1. behind.y = last.y + 1 /\ last.y - top = Height - 1 /\ FirstRow(behind) = top + 1
    BY <1>6, <1>12, <1>10, <1>11, <1>13
  <2>2. [wrapped EXCEPT !.y = @ - 1] = [x |-> behind.x, y |-> behind.y - FirstRow(behind)]
    <3>1. wrapped.y - 1 = behind.y - FirstRow(behind)
      BY <1>6, <2>1, <1>12
    <3>2. [wrapped EXCEPT !.y = @ - 1] = [x |-> behind.x, y |-> wrapped.y - 1]
      BY <1>6
    <3> QED BY <3>1, <3>2
  <2>3. ASSUME NEW r \in Row, NEW c \in Column
        PROVE  ScrolledUp(drawn1)[r][c]
                 = Shown(more, Places(more), [x |-> c, y |-> FirstRow(behind) + r])
    <3>1. CASE r < Height - 1
      <4>1. r + 1 \in Row /\ top + (r + 1) = FirstRow(behind) + r
        BY <1>3, <1>5, <2>1, <3>1
      <4>2. ScrolledUp(drawn1)[r][c] = drawn1[r + 1][c]
        BY <3>1 DEF ScrolledUp
      <4>3. drawn1[r + 1][c] = Shown(more, Places(more), [x |-> c, y |-> top + (r + 1)])
        BY <1>7, <4>1
      <4> QED BY <4>1, <4>2, <4>3
    <3>2. CASE ~(r < Height - 1)
      <4>1. FirstRow(behind) + r = behind.y
        <5>1. r = Height - 1
          BY <1>5, <3>2
        <5> QED BY <2>1, <1>12, <5>1
      <4>2. ScrolledUp(drawn1)[r][c] = Blank
        BY <3>2 DEF ScrolledUp, BlankRow
      <4>3. Shown(text, Places(text), [x |-> c, y |-> behind.y]) = Blank
        <5>1. [x |-> c, y |-> behind.y] \in Spot /\ behind.y > last.y /\ behind.y \in Nat
          BY <1>5, <2>1 DEF Spot
        <5> QED BY <5>1, ShownBelow DEF last
      <4>4. last # [x |-> c, y |-> behind.y]
        BY <1>5, <2>1
      <4>5. Shown(more, Places(more), [x |-> c, y |-> behind.y])
              = IF char \notin {CR, LF} /\ last = [x |-> c, y |-> behind.y]
                THEN char ELSE Shown(text, Places(text), [x |-> c, y |-> behind.y])
        BY ShownAppend DEF more, last
      <4> QED BY <4>1, <4>2, <4>3, <4>4, <4>5
    <3> QED BY <3>1, <3>2
  <2>4. ScrolledUp(drawn1) = [r \in Row |-> [c \in Column |-> ScrolledUp(drawn1)[r][c]]]
    <3>1. ASSUME NEW r \in Row
          PROVE  (IF r < Height - 1 THEN drawn1[r + 1] ELSE BlankRow)
                   = [c \in Column |->
                        (IF r < Height - 1 THEN drawn1[r + 1] ELSE BlankRow)[c]]
      <4>1. CASE r < Height - 1
        <5>1. r + 1 \in Row
          BY <1>5, <4>1
        <5>2. drawn1[r + 1] = [c \in Column |-> drawn1[r + 1][c]]
          BY <1>8, <5>1
        <5> QED BY <4>1, <5>2
      <4>2. CASE ~(r < Height - 1)
        BY <4>2 DEF BlankRow
      <4> QED BY <4>1, <4>2
    <3> QED BY <3>1 DEF ScrolledUp
  <2>5. ScrolledUp(drawn1) = Layout(more).cells
    BY <1>4, <2>3, <2>4
  <2> QED BY <1>4, <1>9, <1>13, <2>2, <2>5 DEF cl, cur, more
<1>14. CASE wrapped.y # Height
  <2>1. FirstRow(behind) = top
    <3>1. wrapped.y = behind.y - top
      BY <1>6
    <3>2. behind.y - top # Height
      BY <3>1, <1>14
    <3>3. CASE last.y < Height
      <4>1. top = 0
        BY <3>3, <1>10
      <4>2. behind.y < Height
        BY <4>1, <3>2, <3>3, <1>12
      <4> QED BY <4>1, <4>2, <1>11
    <3>4. CASE ~(last.y < Height)
      <4>1. top = last.y - Height + 1
        BY <3>4, <1>10
      <4>2. behind.y = last.y
        BY <4>1, <3>2, <1>12
      <4> QED BY <4>1, <4>2, <3>4, <1>11
    <3> QED BY <3>3, <3>4
  <2>2. drawn1 = Layout(more).cells
    BY <1>4, <1>7, <1>8, <2>1
  <2> QED BY <1>4, <1>6, <1>9, <1>14, <2>1, <2>2 DEF cl, cur, more
<1> QED BY <1>13, <1>14

\* The screen without a text.
LEMMA LayoutOfNothing == Layout(<< >>) = [cells |-> Cleared, cursor |-> Home]
<1> DEFINE T == {Blank}
<1>0. PICK text \in Seq(T) : text = << >>
  <2>1. << >> \in Seq(T)
    OBVIOUS
  <2> QED BY <2>1, Zenon
<1> HIDE DEF T
<1>1. Len(text) = 0
  BY <1>0
<1>2. Places(text)[0] = Home
  BY <1>1, PlacesUnfold DEF Placed
<1>3. Home.y = 0 /\ FirstRow(Home) = 0
  BY ScreenAssumption DEF Home, FirstRow
<1> DEFINE last == Places(text)[Len(text)]
<1>5. last = Home /\ FirstRow(last) = 0
  BY <1>1, <1>2, <1>3
<1>6. /\ Layout(text).cursor = [x |-> last.x, y |-> last.y - FirstRow(last)]
      /\ Layout(text).cells = [r \in Row |-> [c \in Column |->
            Shown(text, Places(text), [x |-> c, y |-> FirstRow(last) + r])]]
  BY LayoutParts
<1> HIDE DEF last
<1>7. Layout(text).cursor = Home
  BY <1>5, <1>6 DEF Home
<1>8. Layout(text).cells = Cleared
  <2>1. \A place : Shown(text, Places(text), place) = Blank
    BY <1>1 DEF Shown
  <2>2. Layout(text).cells = [r \in Row |-> [c \in Column |-> Blank]]
    BY <1>6, <2>1
  <2> QED BY <2>2, Zenon DEF Cleared, BlankRow
<1>9. Layout(text) = [cells |-> Layout(text).cells, cursor |-> Layout(text).cursor]
  BY <1>1, LayoutParts
<1> QED BY <1>0, <1>7, <1>8, <1>9

\* Printing a text lays it out behind the one before it.
LEMMA PrintedLaysOut ==
    ASSUME NEW T, NEW old \in Seq(T), NEW text \in Seq(T)
    PROVE  Printed(Layout(old).cells, Layout(old).cursor, text) = Layout(old \o text)
<1> DEFINE start == [cells |-> Layout(old).cells, cursor |-> Layout(old).cursor]
           Up(f) == f = [i \in 0 .. Len(text) |->
                      IF i = 0 THEN start ELSE Put(f[i - 1].cells, f[i - 1].cursor, text[i])]
           w == [i \in 0 .. Len(text) |-> Layout(old \o SubSeq(text, 1, i))]
<1>0. PICK N \in Nat : N = Len(text)
  OBVIOUS
<1>1. start = Layout(old \o SubSeq(text, 1, 0))
  <2>1. old \o SubSeq(text, 1, 0) = old
    <3>1. SubSeq(text, 1, 0) = << >>
      BY SubSeqProperties
    <3> QED BY <3>1, ConcatEmptySeq
  <2>2. Layout(old) = start
    BY LayoutParts
  <2> QED BY <2>1, <2>2
<1>2. ASSUME NEW i \in 1 .. N
      PROVE  Put(Layout(old \o SubSeq(text, 1, i - 1)).cells,
                 Layout(old \o SubSeq(text, 1, i - 1)).cursor, text[i])
               = Layout(old \o SubSeq(text, 1, i))
  <2> DEFINE before1 == SubSeq(text, 1, i - 1)
             upto == SubSeq(text, 1, i)
  <2>1. /\ before1 \in Seq(T) /\ Len(before1) = i - 1 /\ upto \in Seq(T) /\ Len(upto) = i
        /\ text[i] \in T
        /\ \A j \in 1 .. i - 1 : before1[j] = text[j]
        /\ \A j \in 1 .. i : upto[j] = text[j]
    BY <1>0, SubSeqProperties
  <2> HIDE DEF before1, upto
  <2>2. upto = Append(before1, text[i])
    <3>1. /\ Append(before1, text[i]) \in Seq(T) /\ Len(Append(before1, text[i])) = i
          /\ \A j \in 1 .. i - 1 : Append(before1, text[i])[j] = before1[j]
          /\ Append(before1, text[i])[i] = text[i]
      BY <2>1
    <3>2. \A j \in 1 .. i : upto[j] = Append(before1, text[i])[j]
      BY <2>1, <3>1
    <3> QED BY <2>1, <3>1, <3>2, SeqEqual
  <2>3. old \o upto = Append(old \o before1, text[i]) /\ old \o before1 \in Seq(T)
    BY <2>1, <2>2, ConcatProperties
  <2>4. Put(Layout(old \o before1).cells, Layout(old \o before1).cursor, text[i])
          = Layout(Append(old \o before1, text[i]))
    BY <2>1, <2>3, PutLaysOut
  <2> QED BY <2>3, <2>4 DEF before1, upto
<1>3. /\ w[0] = start
      /\ \A i \in 1 .. N : w[i] = Put(w[i - 1].cells, w[i - 1].cursor, text[i])
  <2>1. w[0] = start
    BY <1>0, <1>1
  <2>2. ASSUME NEW i \in 1 .. N
        PROVE  w[i] = Put(w[i - 1].cells, w[i - 1].cursor, text[i])
    <3>1. i \in 0 .. N /\ i - 1 \in 0 .. N
      OBVIOUS
    <3>2. /\ w[i] = Layout(old \o SubSeq(text, 1, i))
          /\ w[i - 1] = Layout(old \o SubSeq(text, 1, i - 1))
      BY <1>0, <3>1
    <3> QED BY <1>2, <3>2
  <2> QED BY <2>1, <2>2
<1>4. Up(w)
  <2>1. w = [i \in 0 .. N |-> w[i]]
    BY <1>0
  <2> HIDE DEF w, start
  <2>2. ASSUME NEW i \in 0 .. N
        PROVE  w[i] = IF i = 0 THEN start ELSE Put(w[i - 1].cells, w[i - 1].cursor, text[i])
    <3>1. CASE i = 0
      BY <1>3, <3>1
    <3>2. CASE i # 0
      <4>1. i \in 1 .. N
        BY <3>2
      <4> QED BY <1>3, <3>2, <4>1, Zenon
    <3> QED BY <3>1, <3>2
  <2> QED BY <1>0, <2>1, <2>2, Zenon
<1> DEFINE h == CHOOSE f : Up(f)
<1>5. Up(h)
  <2> HIDE DEF w
  <2> QED BY <1>4, Zenon
<1>6. Printed(Layout(old).cells, Layout(old).cursor, text) = h[Len(text)]
  BY DEF Printed
<1>7. \A i \in 0 .. N :
        h[i] = IF i = 0 THEN start ELSE Put(h[i - 1].cells, h[i - 1].cursor, text[i])
  BY <1>0, <1>5, Zenon
<1>8. w[N] = Layout(old \o text)
  <2>1. SubSeq(text, 1, N) = text
    <3>1. SubSeq(text, 1, N) \in Seq(T) /\ Len(SubSeq(text, 1, N)) = N
          /\ \A j \in 1 .. N : SubSeq(text, 1, N)[j] = text[j]
      BY <1>0, SubSeqProperties
    <3> QED BY <1>0, <3>1, SeqEqual
  <2>2. N \in 0 .. Len(text)
    BY <1>0
  <2>3. w[N] = Layout(old \o SubSeq(text, 1, N))
    BY <2>2
  <2> QED BY <2>1, <2>3
<1> HIDE DEF h, w, start
<1>9. h[N] = w[N]
  <2> DEFINE P == {n \in Nat : n \in 0 .. N => h[n] = w[n]}
  <2>1. 0 \in P
    BY <1>3, <1>7
  <2>2. ASSUME NEW n \in Nat, n \in P PROVE n + 1 \in P
    <3> SUFFICES ASSUME n + 1 \in 0 .. N PROVE h[n + 1] = w[n + 1]
      OBVIOUS
    <3>1. n \in 0 .. N /\ n + 1 \in 1 .. N /\ (n + 1) - 1 = n
      OBVIOUS
    <3>2. h[n + 1] = Put(h[n].cells, h[n].cursor, text[n + 1])
      BY <1>7, <3>1
    <3>3. w[n + 1] = Put(w[n].cells, w[n].cursor, text[n + 1])
      BY <1>3, <3>1
    <3> QED BY <2>2, <3>1, <3>2, <3>3
  <2>3. N \in P
    <3> HIDE DEF P
    <3> QED BY <2>1, <2>2, CountedUp, Zenon
  <2> QED BY <2>3
<1> QED BY <1>0, <1>6, <1>8, <1>9

LEMMA PrintedNothing ==
    ASSUME NEW cl, NEW cur
    PROVE  Printed(cl, cur, << >>) = [cells |-> cl, cursor |-> cur]
<1> DEFINE start == [cells |-> cl, cursor |-> cur]
           Up(f) == f = [i \in 0 .. Len(<< >>) |->
                      IF i = 0 THEN start ELSE Put(f[i - 1].cells, f[i - 1].cursor, << >>[i])]
           w == [i \in 0 .. 0 |-> start]
           h == CHOOSE f : Up(f)
<1>1. Len(<< >>) = 0
  OBVIOUS
<1>2. Up(w)
  <2> HIDE DEF start
  <2> QED BY <1>1
<1>3. Up(h)
  <2> HIDE DEF w
  <2> QED BY <1>2, Zenon
<1>4. h[0] = start
  <2>1. 0 \in 0 .. Len(<< >>)
    BY <1>1
  <2> HIDE DEF h, start
  <2> QED BY <1>3, <2>1
<1>5. Printed(cl, cur, << >>) = h[Len(<< >>)]
  BY DEF Printed
<1> HIDE DEF h
<1> QED BY <1>1, <1>4, <1>5

-----------------------------------------------------------------------------
(* The terminal *)

Chars == UNION {ToSet(text) : text \in Texts}
Lines == UNION {ToSet(lines) : lines \in Reports}
Request ==
    [kind : {"create", "open", "read"}] \cup [kind : {"write"}, text : Seq(Chars)]
      \cup [kind : {"key"}, code : Code]
Reply == [kind : {"created", "error", "opened", "written"}] \cup [kind : {"char"}, char : Key]

TerminalTyped ==
    /\ driver \in BOOLEAN
    /\ job \in Seq(Chars) /\ drawn \in Seq(Chars) /\ kernelText \in Seq(Chars)
    /\ report \in Seq(Lines) /\ greeting \in Seq(Chars)
    /\ inbox \in Seq(Request) /\ initBox \in Seq(Reply)

\* Before the driver runs nobody has asked it for anything.
NothingDrawn ==
    ~driver => terminal = "report" /\ job = << >> /\ drawn = << >> /\ cursor = Home

\* A line that is being printed is still in the report.
LinePrinting == terminal = "printing" => report # << >>

LEMMA TextsTyped == \A text \in Texts : text \in Seq(Chars)
<1> SUFFICES ASSUME NEW text \in Texts PROVE text \in Seq(Chars)
  OBVIOUS
<1>1. text \in Seq(ToSet(text)) /\ ToSet(text) \subseteq Chars
  BY TerminalAssumption DEF Chars
<1> QED BY <1>1

LEMMA TextsAre ==
    /\ \A line \in KernelLines : KernelPrinted(line) \in Seq(Chars)
    /\ \A line \in Lines : ScreenPrinted(line) \in Seq(Chars)
    /\ \A text \in Greetings : text \in Seq(Chars)
    /\ \A char \in Key : << char >> \in Seq(Chars)
    /\ \A lines \in Reports : lines \in Seq(Lines)
<1>1. \A line \in KernelLines : KernelPrinted(line) \in Texts
  BY DEF Texts
<1>2. \A line \in Lines : ScreenPrinted(line) \in Texts
  BY DEF Texts, Lines
<1>3. \A text \in Greetings : text \in Texts
  BY DEF Texts
<1>4. \A char \in Key : << char >> \in Texts
  BY DEF Texts
<1>5. ASSUME NEW lines \in Reports PROVE lines \in Seq(Lines)
  <2>1. lines \in Seq(ToSet(lines)) /\ ToSet(lines) \subseteq Lines
    BY TerminalAssumption DEF Lines
  <2> QED BY <2>1
<1> QED BY <1>1, <1>2, <1>3, <1>4, <1>5, TextsTyped

LEMMA RequestTyped ==
    ASSUME NEW msg \in Request
    PROVE  msg.kind = "write" => msg.text \in Seq(Chars)
BY DEF Request

LEMMA CodeTyped ==
    ASSUME NEW code \in Code, ~code.up
    PROVE  code.key \in Key
BY DEF Code, Extended

\* A key that goes to init is one of the keys.
LEMMA DecodedTyped ==
    ASSUME NEW msg \in Request, msg.kind = "key"
    PROVE  Decoded(msg.code) \subseteq Key
<1>1. msg.code \in Code
  BY DEF Request
<1> QED BY <1>1, CodeTyped DEF Decoded

LEMMA TerminalTypedInit == TerminalInit => TerminalTyped /\ NothingDrawn /\ ScreenShowsTexts
<1> SUFFICES ASSUME TerminalInit PROVE TerminalTyped /\ NothingDrawn /\ ScreenShowsTexts
  OBVIOUS
<1>1. TerminalTyped
  <2>1. report \in Seq(Lines) /\ greeting \in Seq(Chars)
    BY TextsAre DEF TerminalInit
  <2>2. /\ driver = FALSE /\ job = << >> /\ drawn = << >> /\ kernelText = << >>
        /\ inbox = << >> /\ initBox = << >>
    BY DEF TerminalInit
  <2>3. << >> \in Seq(Chars) /\ << >> \in Seq(Request) /\ << >> \in Seq(Reply)
    BY EmptySeq
  <2> QED BY <2>1, <2>2, <2>3, Zenon DEF TerminalTyped
<1>2. NothingDrawn
  BY DEF TerminalInit, NothingDrawn
<1>3. ScreenShowsTexts
  BY LayoutOfNothing DEF TerminalInit, ScreenShowsTexts
<1> QED BY <1>1, <1>2, <1>3

LEMMA TerminalTypedStep ==
    ASSUME TerminalTyped, LinePrinting, TerminalNext
    PROVE  TerminalTyped'
<1> USE DEF TerminalTyped
<1>1. ASSUME NEW line \in KernelLines, KernelPrint(line) PROVE TerminalTyped'
  <2>1. KernelPrinted(line) \in Seq(Chars)
    BY TextsAre
  <2>2. kernelText' = kernelText \o KernelPrinted(line)
    BY <1>1 DEF KernelPrint
  <2>3. kernelText' \in Seq(Chars)
    BY <2>1, <2>2, ConcatProperties
  <2> QED BY <1>1, <2>3 DEF KernelPrint, drawing, serverVars, initVars
<1>2. CASE StartDriver
  BY <1>2 DEF StartDriver, serverVars, initVars
<1>3. CASE Draw
  <2>1. /\ job # << >> /\ drawn' = Append(drawn, Head(job)) /\ job' = Tail(job)
        /\ UNCHANGED <<driver, kernelText, report, inbox, initBox, greeting>>
    BY <1>3 DEF Draw, console, serverVars, initVars
  <2> QED BY <2>1
<1>4. CASE PrintLine
  <2>1. report # << >> /\ job' = ScreenPrinted(Head(report)) /\ report' \in {report, Tail(report)}
        /\ UNCHANGED <<driver, drawn, kernelText, inbox, initBox, greeting>>
    BY <1>4 DEF PrintLine, WriteScreen, console, initVars
  <2>2. Head(report) \in Lines /\ Tail(report) \in Seq(Lines)
    BY <2>1
  <2>3. job' \in Seq(Chars)
    BY <2>1, <2>2, TextsAre
  <2> QED BY <2>1, <2>2, <2>3
<1>5. CASE LinePrinted
  <2>1. /\ report' = Tail(report) /\ terminal = "printing"
        /\ UNCHANGED <<driver, job, drawn, kernelText, inbox, initBox, greeting>>
    BY <1>5 DEF LinePrinted, WriteAnswered, console, initVars
  <2> QED BY <2>1 DEF LinePrinting
<1>6. CASE StartInput
  BY <1>6 DEF StartInput, drawing, console, initVars
<1>7. CASE RegisterName
  BY <1>7 DEF RegisterName, drawing, console, initVars
<1>8. CASE ServeCreate
  <2>1. /\ inbox # << >> /\ inbox' = Tail(inbox)
        /\ \E kind \in {"created", "error"} : initBox' = Append(initBox, [kind |-> kind])
        /\ UNCHANGED <<driver, job, drawn, kernelText, report, greeting>>
    BY <1>8 DEF ServeCreate, Serves, ToInit, drawing, console
  <2>2. \A kind \in {"created", "error"} : [kind |-> kind] \in Reply
    BY DEF Reply
  <2> QED BY <2>1, <2>2
<1>9. CASE ServeOpen
  <2>1. /\ inbox # << >> /\ inbox' = Tail(inbox)
        /\ initBox' = Append(initBox, [kind |-> "opened"])
        /\ UNCHANGED <<driver, job, drawn, kernelText, report, greeting>>
    BY <1>9 DEF ServeOpen, Serves, ToInit, drawing, console
  <2>2. [kind |-> "opened"] \in Reply
    BY DEF Reply
  <2> QED BY <2>1, <2>2
<1>10. CASE ServeRead
  <2>1. /\ inbox # << >> /\ inbox' = Tail(inbox)
        /\ UNCHANGED <<driver, job, drawn, kernelText, report, greeting, initBox>>
    BY <1>10 DEF ServeRead, Serves, drawing, console, initVars
  <2> QED BY <2>1
<1>11. CASE ServeWrite
  <2>1. /\ inbox # << >> /\ inbox' = Tail(inbox)
        /\ Head(inbox).kind = "write" /\ job' = Head(inbox).text
        /\ UNCHANGED <<driver, drawn, kernelText, report, greeting, initBox>>
    BY <1>11 DEF ServeWrite, Serves, WriteScreen, console, initVars
  <2>2. Head(inbox) \in Request
    BY <2>1
  <2>3. job' \in Seq(Chars)
    BY <2>1, <2>2, RequestTyped
  <2> QED BY <2>1, <2>3
<1>12. CASE Written
  <2>1. /\ initBox' = Append(initBox, [kind |-> "written"])
        /\ UNCHANGED <<driver, job, drawn, kernelText, report, inbox, greeting>>
    BY <1>12 DEF Written, WriteAnswered, ToInit, console
  <2>2. [kind |-> "written"] \in Reply
    BY DEF Reply
  <2> QED BY <2>1, <2>2
<1>13. CASE ServeKey
  <2>1. /\ inbox # << >> /\ inbox' = Tail(inbox) /\ Head(inbox).kind = "key"
        /\ \/ \E ch \in Decoded(Head(inbox).code) :
                initBox' = Append(initBox, [kind |-> "char", char |-> ch])
           \/ UNCHANGED initBox
        /\ UNCHANGED <<driver, job, drawn, kernelText, report, greeting>>
    BY <1>13 DEF ServeKey, Serves, GiveChar, ToInit, drawing, console, initVars
  <2>2. Decoded(Head(inbox).code) \subseteq Key
    BY <2>1, DecodedTyped
  <2>3. \A ch \in Key : [kind |-> "char", char |-> ch] \in Reply
    BY DEF Reply
  <2>4. initBox' \in Seq(Reply)
    <3>1. ASSUME NEW ch \in Decoded(Head(inbox).code),
                 initBox' = Append(initBox, [kind |-> "char", char |-> ch])
          PROVE  initBox' \in Seq(Reply)
      <4>1. [kind |-> "char", char |-> ch] \in Reply
        BY <2>2, <2>3
      <4> QED BY <3>1, <4>1
    <3>2. CASE UNCHANGED initBox
      BY <3>2
    <3> QED BY <2>1, <3>1, <3>2
  <2>5. inbox' \in Seq(Request)
    BY <2>1
  <2> QED BY <2>1, <2>4, <2>5
<1>14. ASSUME NEW code \in Code, KeyCode(code) PROVE TerminalTyped'
  <2>1. /\ inbox' = Append(inbox, [kind |-> "key", code |-> code])
        /\ UNCHANGED <<driver, job, drawn, kernelText, report, greeting, initBox>>
    BY <1>14 DEF KeyCode, drawing, console, initVars
  <2>2. [kind |-> "key", code |-> code] \in Request
    BY DEF Request
  <2> QED BY <2>1, <2>2
<1>15. CASE InitCreates
  <2>1. /\ inbox' = Append(inbox, [kind |-> "create"])
        /\ UNCHANGED initBox
        /\ UNCHANGED <<driver, job, drawn, kernelText, report, greeting>>
    BY <1>15 DEF InitCreates, ToTerminal, InitReceives, drawing, console
  <2>2. [kind |-> "create"] \in Request
    BY DEF Request
  <2> QED BY <2>1, <2>2
<1>16. CASE InitOpens
  <2>1. /\ inbox' = Append(inbox, [kind |-> "open"])
        /\ initBox # << >> /\ initBox' = Tail(initBox)
        /\ UNCHANGED <<driver, job, drawn, kernelText, report, greeting>>
    BY <1>16 DEF InitOpens, ToTerminal, InitReceives, drawing, console
  <2>2. [kind |-> "open"] \in Request
    BY DEF Request
  <2> QED BY <2>1, <2>2
<1>17. CASE InitExits
  <2>1. /\ initBox # << >> /\ initBox' = Tail(initBox)
        /\ UNCHANGED <<driver, job, drawn, kernelText, report, inbox, greeting>>
    BY <1>17 DEF InitExits, InitReceives, drawing, console, serverVars
  <2> QED BY <2>1
<1>18. CASE InitGreets
  <2>1. /\ inbox' = Append(inbox, [kind |-> "write", text |-> greeting])
        /\ initBox # << >> /\ initBox' = Tail(initBox)
        /\ UNCHANGED <<driver, job, drawn, kernelText, report, greeting>>
    BY <1>18 DEF InitGreets, ToTerminal, InitReceives, drawing, console
  <2>2. [kind |-> "write", text |-> greeting] \in Request
    BY DEF Request
  <2> QED BY <2>1, <2>2
<1>19. CASE InitReads
  <2>1. /\ inbox' = Append(inbox, [kind |-> "read"])
        /\ initBox # << >> /\ initBox' = Tail(initBox)
        /\ UNCHANGED <<driver, job, drawn, kernelText, report, greeting>>
    BY <1>19 DEF InitReads, ToTerminal, InitReceives, drawing, console
  <2>2. [kind |-> "read"] \in Request
    BY DEF Request
  <2> QED BY <2>1, <2>2
<1>20. CASE InitEchoes
  <2>1. /\ initBox # << >> /\ initBox' = Tail(initBox) /\ Head(initBox).kind = "char"
        /\ inbox' = Append(inbox, [kind |-> "write", text |-> << Head(initBox).char >>])
        /\ UNCHANGED <<driver, job, drawn, kernelText, report, greeting>>
    BY <1>20 DEF InitEchoes, ToTerminal, InitReceives, drawing, console
  <2>2. Head(initBox) \in Reply
    BY <2>1
  <2>3. Head(initBox).char \in Key
    BY <2>1, <2>2 DEF Reply
  <2>4. << Head(initBox).char >> \in Seq(Chars)
    BY <2>3, TextsAre
  <2>5. [kind |-> "write", text |-> << Head(initBox).char >>] \in Request
    BY <2>4 DEF Request
  <2> QED BY <2>1, <2>5
<1> QED
  BY <1>1, <1>2, <1>3, <1>4, <1>5, <1>6, <1>7, <1>8, <1>9, <1>10, <1>11, <1>12, <1>13, <1>14,
     <1>15, <1>16, <1>17, <1>18, <1>19, <1>20 DEF TerminalNext, Server, InitStep

LEMMA LinePrintingStep ==
    ASSUME LinePrinting, TerminalNext
    PROVE  LinePrinting'
<1> USE DEF LinePrinting
<1>1. CASE UNCHANGED <<terminal, report>>
  BY <1>1
<1>2. CASE PrintLine
  BY <1>2 DEF PrintLine
<1>3. CASE terminal' # "printing"
  BY <1>3
<1>4. ASSUME NEW line \in KernelLines, KernelPrint(line) PROVE UNCHANGED <<terminal, report>>
  BY <1>4 DEF KernelPrint, serverVars
<1>5. CASE StartDriver \/ Draw
  BY <1>5 DEF StartDriver, Draw, serverVars
<1>6. CASE LinePrinted \/ StartInput \/ RegisterName
  BY <1>6 DEF LinePrinted, StartInput, RegisterName
<1>7. CASE ServeCreate \/ ServeOpen \/ ServeRead \/ ServeKey
  BY <1>7 DEF ServeCreate, ServeOpen, ServeRead, ServeKey, Serves
<1>8. CASE ServeWrite \/ Written
  BY <1>8 DEF ServeWrite, Written
<1>9. ASSUME NEW code \in Code, KeyCode(code) PROVE UNCHANGED <<terminal, report>>
  BY <1>9 DEF KeyCode
<1>10. CASE InitStep
  BY <1>10 DEF InitStep, InitCreates, InitOpens, InitExits, InitGreets, InitReads, InitEchoes,
               ToTerminal, serverVars
<1> QED
  BY <1>1, <1>2, <1>3, <1>4, <1>5, <1>6, <1>7, <1>8, <1>9, <1>10 DEF TerminalNext, Server

\* What the screen and its history depend on.
screenVars == <<driver, drawn, cells, cursor, kernelCursor, kernelText>>

\* Only the console and the driver change the screen.
LEMMA ScreenFrame ==
    ASSUME TerminalNext
    PROVE  \/ \E line \in KernelLines : KernelPrint(line)
           \/ StartDriver \/ Draw \/ UNCHANGED screenVars
<1> USE DEF screenVars
<1>1. CASE PrintLine \/ LinePrinted \/ ServeWrite \/ Written
  BY <1>1 DEF PrintLine, LinePrinted, ServeWrite, Written, WriteScreen, WriteAnswered, Serves, console
<1>2. CASE StartInput \/ RegisterName
  BY <1>2 DEF StartInput, RegisterName, drawing, console
<1>3. CASE ServeCreate \/ ServeOpen \/ ServeRead \/ ServeKey
  BY <1>3 DEF ServeCreate, ServeOpen, ServeRead, ServeKey, Serves, drawing, console
<1>4. ASSUME NEW code \in Code, KeyCode(code) PROVE UNCHANGED screenVars
  BY <1>4 DEF KeyCode, drawing, console
<1>5. CASE InitStep
  BY <1>5 DEF InitStep, InitCreates, InitOpens, InitExits, InitGreets, InitReads, InitEchoes,
              ToTerminal, drawing, console
<1> QED BY <1>1, <1>2, <1>3, <1>4, <1>5 DEF TerminalNext, Server

LEMMA NothingDrawnStep ==
    ASSUME NothingDrawn, TerminalNext
    PROVE  NothingDrawn'
<1> SUFFICES ASSUME ~driver' PROVE terminal' = "report" /\ job' = << >> /\ drawn' = << >>
                                   /\ cursor' = Home
  BY DEF NothingDrawn
<1> USE DEF NothingDrawn
<1>1. CASE ~driver
  <2>1. terminal = "report" /\ job = << >> /\ drawn = << >> /\ cursor = Home
    BY <1>1
  <2>2. ASSUME NEW line \in KernelLines, KernelPrint(line)
        PROVE  UNCHANGED <<terminal, job, drawn, cursor>>
    BY <2>2 DEF KernelPrint, drawing, serverVars
  <2>3. ~StartDriver /\ ~Draw /\ ~PrintLine /\ ~LinePrinted /\ ~StartInput /\ ~RegisterName
    BY <1>1, <2>1 DEF StartDriver, Draw, PrintLine, LinePrinted, StartInput, RegisterName
  <2>4. ~ServeCreate /\ ~ServeOpen /\ ~ServeRead /\ ~ServeKey /\ ~ServeWrite /\ ~Written
    BY <2>1 DEF ServeCreate, ServeOpen, ServeRead, ServeKey, ServeWrite, Written, Serves
  <2>5. ASSUME NEW code \in Code, KeyCode(code)
        PROVE  UNCHANGED <<terminal, job, drawn, cursor>>
    BY <2>5 DEF KeyCode, drawing
  <2>6. CASE InitStep
    BY <2>6 DEF InitStep, InitCreates, InitOpens, InitExits, InitGreets, InitReads, InitEchoes,
                ToTerminal, drawing, serverVars
  <2> QED BY <2>1, <2>2, <2>3, <2>4, <2>5, <2>6 DEF TerminalNext, Server
<1>2. CASE driver
  <2>1. driver'
    <3>1. CASE UNCHANGED screenVars
      BY <1>2, <3>1 DEF screenVars
    <3>2. ASSUME NEW line \in KernelLines, KernelPrint(line) PROVE driver'
      BY <1>2, <3>2 DEF KernelPrint, drawing
    <3>3. CASE StartDriver \/ Draw
      BY <1>2, <3>3 DEF StartDriver, Draw
    <3> QED BY <3>1, <3>2, <3>3, ScreenFrame
  <2> QED BY <2>1
<1> QED BY <1>1, <1>2

LEMMA ScreenStep ==
    ASSUME TerminalTyped, NothingDrawn, ScreenShowsTexts, TerminalNext
    PROVE  ScreenShowsTexts'
<1>1. ASSUME NEW line \in KernelLines, KernelPrint(line) PROVE ScreenShowsTexts'
  <2> DEFINE text == KernelPrinted(line)
             shown == Printed(cells, kernelCursor, text)
  <2>1. /\ kernelText' = kernelText \o text /\ UNCHANGED <<driver, drawn, cursor>>
        /\ cells' = shown.cells /\ kernelCursor' = shown.cursor
    BY <1>1 DEF KernelPrint, drawing
  <2>2. text \in Seq(Chars) /\ kernelText \in Seq(Chars)
    BY TextsAre DEF TerminalTyped
  <2>3. CASE ~driver
    <3>1. [cells |-> cells, cursor |-> kernelCursor] = Layout(kernelText)
      BY <2>3 DEF ScreenShowsTexts
    <3>2. cells = Layout(kernelText).cells /\ kernelCursor = Layout(kernelText).cursor
      BY <3>1
    <3>3. shown = Layout(kernelText \o text)
      BY <2>2, <3>2, PrintedLaysOut
    <3>4. kernelText \o text \in Seq(Chars)
      BY <2>2, ConcatProperties
    <3>5. Layout(kernelText \o text) = [cells |-> Layout(kernelText \o text).cells,
                                       cursor |-> Layout(kernelText \o text).cursor]
      BY <3>4, LayoutParts
    <3> HIDE DEF shown, text
    <3> QED BY <2>1, <2>3, <3>3, <3>5 DEF ScreenShowsTexts
  <2>4. CASE driver
    <3>1. cursor' = Layout(drawn').cursor
      BY <2>1, <2>4 DEF ScreenShowsTexts
    <3>2. ASSUME kernelText' = << >> PROVE cells' = Layout(drawn').cells
      <4>1. kernelText = << >> /\ text = << >>
        <5> HIDE DEF text
        <5>1. /\ Len(kernelText \o text) = Len(kernelText) + Len(text)
              /\ Len(kernelText) \in Nat /\ Len(text) \in Nat
          BY <2>2, ConcatProperties
        <5>2. Len(kernelText \o text) = 0
          BY <2>1, <3>2
        <5>3. Len(kernelText) = 0 /\ Len(text) = 0
          BY <5>1, <5>2
        <5> QED BY <2>2, <5>3, QueueElements
      <4>2. cells = Layout(drawn).cells
        BY <2>4, <4>1 DEF ScreenShowsTexts
      <4>3. shown = [cells |-> cells, cursor |-> kernelCursor]
        BY <4>1, PrintedNothing
      <4> HIDE DEF shown
      <4> QED BY <2>1, <4>2, <4>3
    <3> QED BY <2>1, <2>4, <3>1, <3>2 DEF ScreenShowsTexts
  <2> QED BY <2>3, <2>4
<1>2. CASE StartDriver
  <2>1. /\ driver' /\ drawn' = << >> /\ cells' = Cleared /\ cursor' = Home
    BY <1>2 DEF StartDriver, NothingDrawn
  <2> QED BY <2>1, LayoutOfNothing DEF ScreenShowsTexts
<1>3. CASE Draw
  <2> DEFINE char == Head(job)
  <2>1. /\ job # << >> /\ drawn' = Append(drawn, char)
        /\ cells' = Put(cells, cursor, char).cells /\ cursor' = Put(cells, cursor, char).cursor
        /\ UNCHANGED <<driver, kernelText>>
    BY <1>3 DEF Draw, console
  <2>2. driver
    BY <2>1 DEF NothingDrawn
  <2>3. char \in Chars /\ drawn \in Seq(Chars)
    BY <2>1 DEF TerminalTyped
  <2>4. cursor = Layout(drawn).cursor
    BY <2>2 DEF ScreenShowsTexts
  <2>5. Put(Layout(drawn).cells, cursor, char) = Layout(drawn')
    BY <2>1, <2>3, <2>4, PutLaysOut
  <2>6. Put(cells, cursor, char).cursor = Put(Layout(drawn).cells, cursor, char).cursor
    BY DEF Put
  <2> HIDE DEF char
  <2>7. ASSUME kernelText' = << >> PROVE cells' = Layout(drawn').cells
    <3>1. cells = Layout(drawn).cells
      BY <2>1, <2>2, <2>7 DEF ScreenShowsTexts
    <3> QED BY <2>1, <2>5, <3>1
  <2> QED BY <2>1, <2>2, <2>5, <2>6, <2>7 DEF ScreenShowsTexts
<1>4. CASE UNCHANGED screenVars
  BY <1>4 DEF screenVars, ScreenShowsTexts
<1> QED BY <1>1, <1>2, <1>3, <1>4, ScreenFrame

ScreenInv == TerminalTyped /\ LinePrinting /\ NothingDrawn /\ ScreenShowsTexts

LEMMA ScreenAlways == TerminalSpec => []ScreenInv
<1>1. TerminalInit => ScreenInv
  <2>1. TerminalInit => LinePrinting
    BY DEF TerminalInit, LinePrinting
  <2> QED BY <2>1, TerminalTypedInit DEF ScreenInv
<1>2. ScreenInv /\ [TerminalNext]_terminalVars => ScreenInv'
  <2> SUFFICES ASSUME ScreenInv, [TerminalNext]_terminalVars PROVE ScreenInv'
    OBVIOUS
  <2>1. CASE TerminalNext
    BY <2>1, TerminalTypedStep, LinePrintingStep, NothingDrawnStep, ScreenStep DEF ScreenInv
  <2>2. CASE UNCHANGED terminalVars
    BY <2>2 DEF terminalVars, drawing, console, serverVars, keyboard, initVars, ScreenInv,
                TerminalTyped, LinePrinting, NothingDrawn, ScreenShowsTexts
  <2> QED BY <2>1, <2>2
<1> QED BY <1>1, <1>2, PTL DEF TerminalSpec

\* The frame buffer shows what was written to it, for every size of the screen and all
\* texts of the kernel, the terminal and init.
THEOREM ScreenShown == TerminalSpec => []ScreenShowsTexts
<1>1. ScreenInv => ScreenShowsTexts
  BY DEF ScreenInv
<1> QED BY <1>1, ScreenAlways, PTL

-----------------------------------------------------------------------------
(* The terminal: what is drawn, and in which order *)

\* The place of a code in s that says that a key went down.
GoesDown(s, i) == ~s[i].up /\ (i = 1 \/ s[i - 1] # Extended)

\* g names, in their order, codes among the first n of s for the characters of h.
Names(g, h, s, n) ==
    /\ g \in [DOMAIN h -> 1 .. n]
    /\ \A i, j \in DOMAIN h : i < j => g[i] < g[j]
    /\ \A i \in DOMAIN h : GoesDown(s, g[i]) /\ h[i] = s[g[i]].key
Stems(h, s, n) == \E g : Names(g, h, s, n)

\* No character needs no code.
LEMMA StemsNone == ASSUME NEW s, NEW n \in Nat PROVE Stems(<< >>, s, n)
<1>1. Names([i \in {} |-> 0], << >>, s, n)
  BY DEF Names
<1> QED BY <1>1, Zenon DEF Stems

\* A code is read that stands for no character.
LEMMA StemsMore ==
    ASSUME NEW C, NEW h \in Seq(C), NEW s, NEW n \in Nat, NEW m \in Nat, n <= m,
           Stems(h, s, n)
    PROVE  Stems(h, s, m)
<1>1. PICK g : Names(g, h, s, n)
  BY Zenon DEF Stems
<1>2. g \in [DOMAIN h -> 1 .. m]
  BY <1>1 DEF Names
<1>3. Names(g, h, s, m)
  BY <1>1, <1>2, Zenon DEF Names
<1> QED BY <1>3, Zenon DEF Stems

\* A code is sent.
LEMMA StemsSent ==
    ASSUME NEW C, NEW h \in Seq(C), NEW s \in Seq(Code), NEW c \in Code, NEW n \in Nat,
           n <= Len(s), Stems(h, s, n)
    PROVE  Stems(h, Append(s, c), n)
<1>1. PICK g : Names(g, h, s, n)
  BY Zenon DEF Stems
<1>2. ASSUME NEW i \in 1 .. n, GoesDown(s, i)
      PROVE  GoesDown(Append(s, c), i) /\ Append(s, c)[i] = s[i]
  <2>1. Append(s, c)[i] = s[i] /\ (i # 1 => Append(s, c)[i - 1] = s[i - 1])
    OBVIOUS
  <2> QED BY <1>2, <2>1 DEF GoesDown
<1>3. \A i \in DOMAIN h : g[i] \in 1 .. n
  BY <1>1 DEF Names
<1>4. Names(g, h, Append(s, c), n)
  BY <1>1, <1>2, <1>3, Zenon DEF Names
<1> QED BY <1>4, Zenon DEF Stems

\* The next code is read, and its character given to init.
LEMMA StemsGiven ==
    ASSUME NEW C, NEW h \in Seq(C), NEW s, NEW n \in Nat, GoesDown(s, n + 1),
           s[n + 1].key \in C, Stems(h, s, n)
    PROVE  Stems(Append(h, s[n + 1].key), s, n + 1)
<1> DEFINE k == s[n + 1].key
           h1 == Append(h, k)
           l == Len(h)
<1>1. PICK g : Names(g, h, s, n)
  BY Zenon DEF Stems
<1>2. /\ l \in Nat /\ DOMAIN h = 1 .. l /\ DOMAIN h1 = 1 .. l + 1
      /\ \A i \in 1 .. l : h1[i] = h[i]
      /\ h1[l + 1] = k
  BY AppendProperties
<1> DEFINE g1 == [i \in 1 .. l + 1 |-> IF i = l + 1 THEN n + 1 ELSE g[i]]
<1>3. \A i \in 1 .. l : g[i] \in 1 .. n
  BY <1>1, <1>2 DEF Names
<1>4. /\ \A i \in 1 .. l : g1[i] = g[i]
      /\ g1[l + 1] = n + 1 /\ DOMAIN g1 = 1 .. l + 1
  <2> HIDE DEF l
  <2> QED BY <1>2
<1>5. g1 \in [DOMAIN h1 -> 1 .. n + 1]
  <2>1. \A i \in 1 .. l + 1 : (IF i = l + 1 THEN n + 1 ELSE g[i]) \in 1 .. n + 1
    <3> HIDE DEF l
    <3> QED BY <1>2, <1>3
  <2> HIDE DEF l, h1
  <2> QED BY <1>2, <2>1
<1> HIDE DEF g1, h1, l, k
<1>6. ASSUME NEW i \in DOMAIN h1, NEW j \in DOMAIN h1, i < j PROVE g1[i] < g1[j]
  <2>1. i \in 1 .. l /\ (j \in 1 .. l \/ j = l + 1)
    BY <1>2, <1>6
  <2>2. CASE j \in 1 .. l
    <3>1. g[i] < g[j]
      BY <1>1, <1>2, <1>6, <2>1, <2>2 DEF Names
    <3> QED BY <1>4, <2>1, <2>2, <3>1
  <2>3. CASE j = l + 1
    BY <1>3, <1>4, <2>1, <2>3
  <2> QED BY <2>1, <2>2, <2>3
<1>7. ASSUME NEW i \in DOMAIN h1 PROVE GoesDown(s, g1[i]) /\ h1[i] = s[g1[i]].key
  <2>1. i \in 1 .. l \/ i = l + 1
    BY <1>2
  <2>2. CASE i \in 1 .. l
    BY <1>1, <1>2, <1>4, <2>2 DEF Names
  <2>3. CASE i = l + 1
    BY <1>2, <1>4, <2>3 DEF k
  <2> QED BY <2>1, <2>2, <2>3
<1>8. Names(g1, h1, s, n + 1)
  BY <1>5, <1>6, <1>7, Zenon DEF Names
<1> QED BY <1>8, Zenon DEF Stems, h1, k

\* Without the last character.
LEMMA StemsLess ==
    ASSUME NEW C, NEW h \in Seq(C), NEW k \in C, NEW s, NEW n \in Nat,
           Stems(Append(h, k), s, n)
    PROVE  Stems(h, s, n)
<1>1. PICK g : Names(g, Append(h, k), s, n)
  BY Zenon DEF Stems
<1>2. \A i \in DOMAIN h : i \in DOMAIN Append(h, k) /\ Append(h, k)[i] = h[i]
  OBVIOUS
<1> DEFINE g1 == [i \in DOMAIN h |-> g[i]]
<1>3. g1 \in [DOMAIN h -> 1 .. n] /\ \A i \in DOMAIN h : g1[i] = g[i]
  BY <1>1, <1>2 DEF Names
<1> HIDE DEF g1
<1>4. Names(g1, h, s, n)
  BY <1>1, <1>2, <1>3, Zenon DEF Names
<1> QED BY <1>4, Zenon DEF Stems

DownIn(s) == {i \in DOMAIN s : GoesDown(s, i)}

\* The characters init was given are keys that went down, in their order.
LEMMA StemsWithin ==
    ASSUME NEW C, heard \in Seq(C), sent \in Seq(Code), NEW n \in Nat, n <= Len(sent),
           Stems(heard, sent, n)
    PROVE  Within(heard, KeysMeant)
<1> DEFINE D == DownIn(sent)
           M == [i \in 1 .. Cardinality(D) |-> sent[CHOOSE d \in D : RankIn(D, d) = i].key]
<1>1. KeysMeant = M
  BY Zenon DEF KeysMeant, RankIn, DownIn, GoesDown
<1>2. Len(sent) \in Nat /\ D \in SUBSET (1 .. Len(sent))
  BY DEF DownIn
<1> HIDE DEF D
<1>3. /\ Cardinality(D) \in Nat
      /\ \A d \in D : RankIn(D, d) \in 1 .. Cardinality(D)
      /\ \A d, e \in D : d < e => RankIn(D, d) < RankIn(D, e)
  <2> HIDE DEF M
  <2> QED BY <1>2, RankProperties
<1>4. ASSUME NEW d \in D PROVE M[RankIn(D, d)] = sent[d].key
  <2> DEFINE x == CHOOSE e \in D : RankIn(D, e) = RankIn(D, d)
  <2>1. x \in D /\ RankIn(D, x) = RankIn(D, d)
    BY Zenon
  <2>2. M[RankIn(D, d)] = sent[x].key
    BY <1>3, Zenon
  <2> HIDE DEF x, M
  <2>3. d \in Nat /\ x \in Nat
    BY <1>2, <2>1
  <2>4. ~(d < x) /\ ~(x < d)
    <3>1. d < x => RankIn(D, d) < RankIn(D, x)
      BY <1>3, <2>1
    <3>2. x < d => RankIn(D, x) < RankIn(D, d)
      BY <1>3, <2>1
    <3>3. RankIn(D, d) \in Nat
      BY <1>3
    <3> QED BY <2>1, <3>1, <3>2, <3>3
  <2>5. x = d
    BY <2>3, <2>4
  <2> QED BY <2>2, <2>5
<1>5. DOMAIN M = 1 .. Cardinality(D)
  OBVIOUS
<1> HIDE DEF M
<1>6. PICK g : Names(g, heard, sent, n)
  BY Zenon DEF Stems
<1>7. \A i \in DOMAIN heard : g[i] \in D
  BY <1>2, <1>6 DEF Names, D, DownIn
<1> DEFINE f == [i \in DOMAIN heard |-> RankIn(D, g[i])]
<1>8. f \in [DOMAIN heard -> DOMAIN M] /\ \A i \in DOMAIN heard : f[i] = RankIn(D, g[i])
  BY <1>3, <1>5, <1>7
<1> HIDE DEF f
<1>9. \A i, j \in DOMAIN heard : i < j => f[i] < f[j]
  BY <1>3, <1>6, <1>7, <1>8 DEF Names
<1>10. \A i \in DOMAIN heard : heard[i] = M[f[i]]
  BY <1>4, <1>6, <1>7, <1>8 DEF Names
<1> QED BY <1>1, <1>8, <1>9, <1>10, Zenon DEF Within

\* What init asks the terminal, and what the keyboard tells it.
InitCalls == {m \in Request : m.kind # "key"}
KeyEvents == {m \in Request : m.kind = "key"}

\* What init waits for, by the question that is on its way to the terminal and by the
\* answers it gets.
Suits(kind, waits) ==
    \/ kind = "key"
    \/ kind = "create" /\ waits = "creating"
    \/ kind = "open" /\ waits = "opening"
    \/ kind = "write" /\ waits = "writing"
    \/ kind = "read" /\ waits = "reading"
Replies(kind, waits) ==
    \/ kind \in {"created", "error"} /\ waits = "creating"
    \/ kind = "opened" /\ waits = "opening"
    \/ kind = "written" /\ waits = "writing"
    \/ kind = "char" /\ waits = "reading"
OneIf(b) == IF b THEN 1 ELSE 0

Expecting == {"creating", "opening", "writing", "reading"}

\* init and the terminal take turns: the question on its way, the write at the screen,
\* the read that waits for a key and the answer on its way are one while init waits,
\* and none otherwise.
TakeTurns ==
    Tally(inbox, InitCalls) + Len(initBox) + OneIf(terminal = "writing") + OneIf(request)
      = OneIf(init \in Expecting)
Dialogue ==
    /\ TakeTurns
    /\ \A m \in ToSet(inbox) : Suits(m.kind, init)
    /\ \A m \in ToSet(initBox) : Replies(m.kind, init)
    /\ terminal = "writing" => init = "writing"
    /\ request => init = "reading"
    /\ terminal \in {"serve", "writing"} \/ (init = "lookup" /\ ~registered)

LEMMA DialogueInit == TerminalInit => Dialogue
<1> SUFFICES ASSUME TerminalInit PROVE Dialogue
  OBVIOUS
<1>1. /\ inbox = << >> /\ initBox = << >> /\ terminal = "report" /\ request = FALSE
      /\ init = "lookup" /\ registered = FALSE
  BY DEF TerminalInit
<1>2. Tally(inbox, InitCalls) = 0 /\ Len(initBox) = 0
  BY <1>1, TallyOfNone
<1>3. TakeTurns
  BY <1>1, <1>2 DEF TakeTurns, OneIf, Expecting
<1>4. ToSet(inbox) = {} /\ ToSet(initBox) = {}
  BY <1>1, EmptyQueue
<1> QED BY <1>1, <1>3, <1>4 DEF Dialogue

\* While nothing is exchanged with init.
LEMMA DialogueFrame ==
    ASSUME Dialogue, UNCHANGED <<inbox, initBox, request, init, registered>>,
           terminal # "writing", terminal' # "writing",
           terminal' = terminal \/ terminal \notin {"serve", "writing"}
    PROVE  Dialogue'
BY DEF Dialogue, TakeTurns

\* A question is sent, or taken from its port.
LEMMA CallSent ==
    ASSUME TerminalTyped, NEW msg \in InitCalls, inbox' = Append(inbox, msg)
    PROVE  /\ Tally(inbox, InitCalls) \in Nat
           /\ Tally(inbox', InitCalls) = Tally(inbox, InitCalls) + 1
           /\ ToSet(inbox') = ToSet(inbox) \cup {msg}
BY AtTheFront DEF TerminalTyped, InitCalls

LEMMA CallTaken ==
    ASSUME TerminalTyped, NEW kind, Serves(kind)
    PROVE  /\ Head(inbox) \in Request /\ Head(inbox).kind = kind
           /\ Head(inbox) \in ToSet(inbox)
           /\ Tally(inbox, InitCalls) \in Nat /\ Tally(inbox', InitCalls) \in Nat
           /\ kind # "key" => Tally(inbox, InitCalls) = Tally(inbox', InitCalls) + 1
           /\ kind = "key" => Tally(inbox, InitCalls) = Tally(inbox', InitCalls)
           /\ ToSet(inbox) = ToSet(inbox') \cup {Head(inbox)}
           /\ terminal = "serve" /\ UNCHANGED registered
<1>1. /\ inbox # << >> /\ Head(inbox).kind = kind /\ inbox' = Tail(inbox)
      /\ inbox \in Seq(Request) /\ terminal = "serve" /\ UNCHANGED registered
  BY DEF Serves, TerminalTyped
<1>2. /\ Head(inbox) \in Request /\ ToSet(inbox) = ToSet(Tail(inbox)) \cup {Head(inbox)}
      /\ Tally(inbox, InitCalls) \in Nat /\ Tally(Tail(inbox), InitCalls) \in Nat
      /\ Head(inbox) \in InitCalls =>
           Tally(inbox, InitCalls) = Tally(Tail(inbox), InitCalls) + 1
      /\ Head(inbox) \notin InitCalls =>
           Tally(inbox, InitCalls) = Tally(Tail(inbox), InitCalls)
  BY <1>1, WithoutFront
<1>3. Head(inbox) \in InitCalls <=> kind # "key"
  BY <1>1, <1>2 DEF InitCalls
<1> QED BY <1>1, <1>2, <1>3

\* An answer is sent, or taken from its port.
LEMMA AnswerSent ==
    ASSUME TerminalTyped, NEW msg \in Reply, initBox' = Append(initBox, msg)
    PROVE  /\ Len(initBox) \in Nat /\ Len(initBox') = Len(initBox) + 1
           /\ ToSet(initBox') = ToSet(initBox) \cup {msg}
BY AppendElements DEF TerminalTyped

LEMMA AnswerTaken ==
    ASSUME TerminalTyped, NEW kind, InitReceives(kind)
    PROVE  /\ Head(initBox) \in Reply /\ Head(initBox).kind = kind
           /\ Len(initBox) # 0
           /\ Len(initBox) = 1 => Len(initBox') = 0 /\ ToSet(initBox') = {} /\ initBox' = << >>
<1>1. /\ initBox # << >> /\ Head(initBox).kind = kind /\ initBox' = Tail(initBox)
      /\ initBox \in Seq(Reply)
  BY DEF InitReceives, TerminalTyped
<1>2. /\ Head(initBox) \in Reply /\ Len(Tail(initBox)) = Len(initBox) - 1
      /\ Len(initBox) \in Nat /\ Len(initBox) # 0
      /\ Tail(initBox) \in Seq(Reply)
  BY <1>1, PopElements, QueueElements
<1>3. Len(initBox) = 1 => Len(Tail(initBox)) = 0
  BY <1>2
<1>4. Len(Tail(initBox)) = 0 => ToSet(Tail(initBox)) = {} /\ Tail(initBox) = << >>
  BY <1>2, QueueElements
<1> QED BY <1>1, <1>2, <1>3, <1>4, Zenon

\* Nothing is on its way to init or from it.
LEMMA NothingOnItsWay ==
    ASSUME TerminalTyped
    PROVE  /\ Tally(inbox, InitCalls) = 0 => \A m \in ToSet(inbox) : m.kind = "key"
           /\ Len(initBox) = 0 => ToSet(initBox) = {} /\ initBox = << >>
           /\ Tally(inbox, InitCalls) \in Nat /\ Len(initBox) \in Nat
<1>1. inbox \in Seq(Request) /\ initBox \in Seq(Reply)
  BY DEF TerminalTyped
<1>2. Tally(inbox, InitCalls) \in Nat /\ Len(initBox) \in Nat /\ ToSet(inbox) \subseteq Request
  BY <1>1, TallyTyped, QueueElements
<1>3. ASSUME Tally(inbox, InitCalls) = 0 PROVE \A m \in ToSet(inbox) : m.kind = "key"
  <2>1. \A m \in ToSet(inbox) : m \notin InitCalls
    BY <1>1, <1>3, TallyZero
  <2> QED BY <1>2, <2>1 DEF InitCalls
<1> QED BY <1>1, <1>2, <1>3, QueueElements

\* Once one of the four is there the others are not.
LEMMA OneOnItsWay ==
    ASSUME TerminalTyped, Dialogue
    PROVE  /\ Len(initBox) # 0 => /\ Len(initBox) = 1 /\ Tally(inbox, InitCalls) = 0
                                  /\ terminal # "writing" /\ ~request
           /\ Tally(inbox, InitCalls) # 0 => /\ Tally(inbox, InitCalls) = 1
                                             /\ Len(initBox) = 0
                                             /\ terminal # "writing" /\ ~request
           /\ terminal = "writing" => /\ Tally(inbox, InitCalls) = 0 /\ Len(initBox) = 0
                                      /\ ~request
           /\ request => /\ Tally(inbox, InitCalls) = 0 /\ Len(initBox) = 0
                         /\ terminal # "writing"
           /\ init \notin Expecting =>
                /\ Tally(inbox, InitCalls) = 0 /\ Len(initBox) = 0
                /\ terminal # "writing" /\ ~request
<1> DEFINE c == Tally(inbox, InitCalls)
           a == Len(initBox)
           w == OneIf(terminal = "writing")
           q == OneIf(request)
           t == OneIf(init \in Expecting)
<1>1. c \in Nat /\ a \in Nat
  BY NothingOnItsWay
<1>2. /\ terminal = "writing" => w = 1
      /\ terminal # "writing" => w = 0
      /\ request => q = 1
      /\ ~request => q = 0
      /\ init \notin Expecting => t = 0
  BY Zenon DEF OneIf
<1>3. c + a + w + q = t
  BY Zenon DEF Dialogue, TakeTurns
<1>4. w \in {0, 1} /\ q \in {0, 1} /\ t \in {0, 1}
  BY Zenon DEF OneIf
<1> HIDE DEF c, a, w, q, t
<1>5. /\ a # 0 => a = 1 /\ c = 0 /\ w # 1 /\ q # 1
      /\ c # 0 => c = 1 /\ a = 0 /\ w # 1 /\ q # 1
      /\ w = 1 => c = 0 /\ a = 0 /\ q # 1
      /\ q = 1 => c = 0 /\ a = 0 /\ w # 1
      /\ t = 0 => c = 0 /\ a = 0 /\ w # 1 /\ q # 1
  BY <1>1, <1>3, <1>4
<1> QED BY <1>2, <1>5, Zenon DEF c, a

\* The terminal answers a question.
LEMMA DialogueAnswer ==
    ASSUME TerminalTyped, Dialogue, NEW kind, kind # "key", Serves(kind),
           NEW msg \in Reply, initBox' = Append(initBox, msg), Replies(msg.kind, init),
           UNCHANGED <<terminal, request, init>>
    PROVE  Dialogue'
<1>1. /\ Tally(inbox, InitCalls) = Tally(inbox', InitCalls) + 1
      /\ Tally(inbox, InitCalls) \in Nat /\ Tally(inbox', InitCalls) \in Nat
      /\ ToSet(inbox) = ToSet(inbox') \cup {Head(inbox)}
      /\ terminal = "serve" /\ UNCHANGED registered
  BY CallTaken
<1>2. /\ Tally(inbox, InitCalls) = 1 /\ Len(initBox) = 0 /\ ~request /\ init \in Expecting
  BY <1>1, OneOnItsWay
<1>3. /\ Len(initBox') = Len(initBox) + 1 /\ ToSet(initBox') = ToSet(initBox) \cup {msg}
  BY AnswerSent
<1>4. Tally(inbox', InitCalls) = 0 /\ Len(initBox') = 1
  BY <1>1, <1>2, <1>3
<1>5. TakeTurns'
  <2>1. /\ Tally(inbox', InitCalls) = 0 /\ Len(initBox') = 1
        /\ terminal' # "writing" /\ ~request'
        /\ init' \in Expecting
    BY <1>1, <1>2, <1>4
  <2> QED BY <2>1 DEF TakeTurns, OneIf
<1> QED BY <1>1, <1>3, <1>5 DEF Dialogue

\* init takes an answer and asks the next question.
LEMMA DialogueAsk ==
    ASSUME TerminalTyped, Dialogue, NEW kind, InitReceives(kind), NEW msg \in InitCalls,
           inbox' = Append(inbox, msg), Suits(msg.kind, init'), init' \in Expecting,
           UNCHANGED <<terminal, request, registered>>
    PROVE  Dialogue'
<1>1. /\ Len(initBox) # 0
      /\ Len(initBox) = 1 => Len(initBox') = 0 /\ ToSet(initBox') = {} /\ initBox' = << >>
  BY AnswerTaken
<1>2. /\ Len(initBox) = 1 /\ Tally(inbox, InitCalls) = 0 /\ terminal # "writing" /\ ~request
      /\ init \in Expecting
  BY <1>1, OneOnItsWay
<1>3. /\ Tally(inbox', InitCalls) = Tally(inbox, InitCalls) + 1
      /\ ToSet(inbox') = ToSet(inbox) \cup {msg}
  BY CallSent
<1>4. Len(initBox') = 0 /\ ToSet(initBox') = {} /\ Tally(inbox', InitCalls) = 1
  BY <1>1, <1>2, <1>3
<1>5. TakeTurns'
  <2>1. terminal' # "writing" /\ ~request'
    BY <1>2
  <2> QED BY <1>4, <2>1 DEF TakeTurns, OneIf
<1>6. \A m \in ToSet(inbox') : Suits(m.kind, init')
  <2>1. \A m \in ToSet(inbox) : m.kind = "key"
    BY <1>2, NothingOnItsWay
  <2> QED BY <1>3, <2>1 DEF Suits
<1>7. terminal' \in {"serve", "writing"}
  BY <1>2 DEF Dialogue, Expecting
<1>8. ~request' /\ terminal' # "writing"
  BY <1>2
<1> QED BY <1>4, <1>5, <1>6, <1>7, <1>8 DEF Dialogue

LEMMA DialogueStep ==
    ASSUME TerminalTyped, Dialogue, TerminalNext
    PROVE  Dialogue'
<1>0. /\ \A kind \in {"created", "error", "opened", "written"} : [kind |-> kind] \in Reply
      /\ \A kind \in {"create", "open", "read"} : [kind |-> kind] \in InitCalls
      /\ \A text \in Seq(Chars) : [kind |-> "write", text |-> text] \in InitCalls
      /\ \A ch \in Key : [kind |-> "char", char |-> ch] \in Reply
  BY DEF Reply, Request, InitCalls
<1>1. CASE UNCHANGED <<terminal, inbox, initBox, request, init, registered>>
  BY <1>1 DEF Dialogue, TakeTurns
<1>2. ASSUME NEW line \in KernelLines, KernelPrint(line) PROVE Dialogue'
  BY <1>1, <1>2 DEF KernelPrint, serverVars, initVars
<1>3. CASE StartDriver \/ Draw
  BY <1>1, <1>3 DEF StartDriver, Draw, serverVars, initVars
<1>4. CASE PrintLine \/ LinePrinted \/ StartInput
  <2>1. /\ UNCHANGED <<inbox, initBox, request, init, registered>>
        /\ terminal \in {"report", "printing"} /\ terminal' \in {"report", "printing", "register"}
    BY <1>4 DEF PrintLine, LinePrinted, StartInput, initVars
  <2> QED BY <2>1, DialogueFrame
<1>5. CASE RegisterName
  BY <1>5 DEF RegisterName, initVars, Dialogue, TakeTurns
<1>6. CASE ServeCreate
  <2>1. PICK kind \in {"created", "error"} : initBox' = Append(initBox, [kind |-> kind])
    BY <1>6 DEF ServeCreate, ToInit
  <2>2. /\ Serves("create") /\ UNCHANGED <<terminal, request, init>>
    BY <1>6 DEF ServeCreate, ToInit
  <2>3. Head(inbox) \in ToSet(inbox) /\ Head(inbox).kind = "create"
    BY <2>2, CallTaken
  <2>4. init = "creating"
    BY <2>3 DEF Dialogue, Suits
  <2>5. Replies([kind |-> kind].kind, init)
    BY <2>4 DEF Replies
  <2> QED BY <1>0, <2>1, <2>2, <2>5, DialogueAnswer
<1>7. CASE ServeOpen
  <2>1. /\ Serves("open") /\ UNCHANGED <<terminal, request, init>>
        /\ initBox' = Append(initBox, [kind |-> "opened"])
    BY <1>7 DEF ServeOpen, ToInit
  <2>2. Head(inbox) \in ToSet(inbox) /\ Head(inbox).kind = "open"
    BY <2>1, CallTaken
  <2>3. init = "opening"
    BY <2>2 DEF Dialogue, Suits
  <2>4. Replies([kind |-> "opened"].kind, init)
    BY <2>3 DEF Replies
  <2> QED BY <1>0, <2>1, <2>4, DialogueAnswer
<1>8. CASE ServeRead \/ ServeWrite
  <2>1. PICK kind \in {"read", "write"} : Serves(kind) /\ (kind = "read" <=> ServeRead)
    BY <1>8 DEF ServeRead, ServeWrite, Serves
  <2>2. UNCHANGED <<initBox, init>>
    BY <1>8 DEF ServeRead, ServeWrite, initVars
  <2>3. /\ Head(inbox) \in ToSet(inbox) /\ Head(inbox).kind = kind
        /\ Tally(inbox, InitCalls) = Tally(inbox', InitCalls) + 1
        /\ Tally(inbox, InitCalls) \in Nat /\ Tally(inbox', InitCalls) \in Nat
        /\ ToSet(inbox) = ToSet(inbox') \cup {Head(inbox)}
        /\ terminal = "serve" /\ UNCHANGED registered
    BY <2>1, CallTaken
  <2>4. Tally(inbox, InitCalls) = 1 /\ Len(initBox) = 0 /\ ~request
    BY <2>3, OneOnItsWay
  <2>5. Tally(inbox', InitCalls) = 0
    BY <2>3, <2>4
  <2>6. CASE ServeRead
    <3>1. request' = TRUE /\ terminal' = "serve" /\ init' = "reading"
      BY <2>1, <2>2, <2>3, <2>6 DEF ServeRead, Dialogue, Suits
    <3>2. TakeTurns'
      BY <2>2, <2>4, <2>5, <3>1 DEF TakeTurns, OneIf, Expecting
    <3> QED BY <2>2, <2>3, <3>1, <3>2 DEF Dialogue
  <2>7. CASE ServeWrite /\ ~ServeRead
    <3>1. UNCHANGED request /\ terminal' = "writing" /\ init' = "writing"
      BY <2>1, <2>2, <2>3, <2>7 DEF ServeWrite, Dialogue, Suits
    <3>2. TakeTurns'
      BY <2>2, <2>4, <2>5, <3>1 DEF TakeTurns, OneIf, Expecting
    <3> QED BY <2>2, <2>3, <2>4, <3>1, <3>2 DEF Dialogue
  <2> QED BY <1>8, <2>6, <2>7
<1>9. CASE Written
  <2>1. /\ terminal = "writing" /\ terminal' = "serve"
        /\ initBox' = Append(initBox, [kind |-> "written"])
        /\ UNCHANGED <<inbox, request, registered, init>>
    BY <1>9 DEF Written, ToInit
  <2>2. Tally(inbox, InitCalls) = 0 /\ Len(initBox) = 0 /\ ~request /\ init = "writing"
    BY <2>1, OneOnItsWay DEF Dialogue
  <2>3. Len(initBox') = Len(initBox) + 1 /\ ToSet(initBox') = ToSet(initBox) \cup {[kind |-> "written"]}
    BY <1>0, <2>1, AnswerSent
  <2>4. TakeTurns'
    BY <2>1, <2>2, <2>3 DEF TakeTurns, OneIf, Expecting
  <2>5. Replies([kind |-> "written"].kind, init)
    BY <2>2 DEF Replies
  <2> QED BY <2>1, <2>2, <2>3, <2>4, <2>5 DEF Dialogue
<1>10. CASE ServeKey
  <2>1. Serves("key") /\ UNCHANGED terminal
    BY <1>10 DEF ServeKey
  <2>2. /\ Tally(inbox, InitCalls) = Tally(inbox', InitCalls)
        /\ ToSet(inbox) = ToSet(inbox') \cup {Head(inbox)}
        /\ Head(inbox) \in Request /\ Head(inbox).kind = "key"
        /\ terminal = "serve" /\ UNCHANGED registered
    BY <2>1, CallTaken
  <2>3. CASE UNCHANGED <<initBox, init, request>>
    <3>1. TakeTurns'
      BY <2>1, <2>2, <2>3 DEF TakeTurns, Dialogue
    <3> QED BY <2>1, <2>2, <2>3, <3>1 DEF Dialogue
  <2>4. ASSUME NEW ch \in Decoded(Head(inbox).code), request, ~request',
               initBox' = Append(initBox, [kind |-> "char", char |-> ch]), UNCHANGED init
        PROVE  Dialogue'
    <3>1. Tally(inbox, InitCalls) = 0 /\ Len(initBox) = 0 /\ init = "reading"
      BY <2>4, OneOnItsWay DEF Dialogue
    <3>2. [kind |-> "char", char |-> ch] \in Reply
      BY <1>0, <2>2, DecodedTyped
    <3>3. Len(initBox') = Len(initBox) + 1
          /\ ToSet(initBox') = ToSet(initBox) \cup {[kind |-> "char", char |-> ch]}
      BY <2>4, <3>2, AnswerSent
    <3>4. TakeTurns'
      BY <2>1, <2>2, <2>4, <3>1, <3>3 DEF TakeTurns, OneIf, Expecting
    <3>5. Replies([kind |-> "char", char |-> ch].kind, init)
      BY <3>1 DEF Replies
    <3> QED BY <2>1, <2>2, <2>4, <3>1, <3>3, <3>4, <3>5 DEF Dialogue
  <2> QED BY <1>10, <2>3, <2>4 DEF ServeKey, GiveChar, ToInit, initVars
<1>11. ASSUME NEW code \in Code, KeyCode(code) PROVE Dialogue'
  <2> DEFINE msg == [kind |-> "key", code |-> code]
  <2>1. /\ inbox' = Append(inbox, msg)
        /\ UNCHANGED <<terminal, initBox, request, init, registered>>
    BY <1>11 DEF KeyCode, initVars
  <2>2. msg \in Request /\ msg.kind = "key" /\ msg \notin InitCalls
    BY DEF Request, InitCalls
  <2> HIDE DEF msg
  <2>3. Tally(inbox', InitCalls) = Tally(inbox, InitCalls) /\ ToSet(inbox') = ToSet(inbox) \cup {msg}
    BY <2>1, <2>2, AtTheFront DEF TerminalTyped
  <2>4. Suits(msg.kind, init)
    BY <2>2 DEF Suits
  <2> QED BY <2>1, <2>3, <2>4 DEF Dialogue, TakeTurns
<1>12. CASE InitCreates
  <2>1. /\ init = "lookup" /\ registered /\ init' = "creating"
        /\ inbox' = Append(inbox, [kind |-> "create"])
        /\ UNCHANGED <<terminal, initBox, request, registered>>
    BY <1>12 DEF InitCreates, ToTerminal
  <2>2. /\ Tally(inbox, InitCalls) = 0 /\ Len(initBox) = 0 /\ terminal # "writing" /\ ~request
    BY <2>1, OneOnItsWay DEF Expecting
  <2>3. /\ Tally(inbox', InitCalls) = Tally(inbox, InitCalls) + 1
        /\ ToSet(inbox') = ToSet(inbox) \cup {[kind |-> "create"]}
    BY <1>0, <2>1, CallSent
  <2>4. TakeTurns'
    BY <2>1, <2>2, <2>3 DEF TakeTurns, OneIf, Expecting
  <2>5. \A m \in ToSet(inbox') : Suits(m.kind, init')
    <3>1. \A m \in ToSet(inbox) : m.kind = "key"
      BY <2>2, NothingOnItsWay
    <3> QED BY <2>1, <2>3, <3>1 DEF Suits
  <2>6. ToSet(initBox) = {}
    BY <2>2, NothingOnItsWay
  <2> QED BY <2>1, <2>2, <2>4, <2>5, <2>6 DEF Dialogue
<1>13. CASE InitOpens
  <2>1. /\ InitReceives("created") /\ init' = "opening"
        /\ inbox' = Append(inbox, [kind |-> "open"])
        /\ UNCHANGED <<terminal, request, registered>>
    BY <1>13 DEF InitOpens, ToTerminal
  <2>2. Suits([kind |-> "open"].kind, init') /\ init' \in Expecting
    BY <2>1 DEF Suits, Expecting
  <2> QED BY <1>0, <2>1, <2>2, DialogueAsk
<1>14. CASE InitExits
  <2>1. /\ InitReceives("error") /\ init' = "exited" /\ init = "creating"
        /\ UNCHANGED <<terminal, request, registered, inbox>>
    BY <1>14 DEF InitExits, serverVars
  <2>2. /\ Len(initBox) # 0
        /\ Len(initBox) = 1 => Len(initBox') = 0 /\ ToSet(initBox') = {} /\ initBox' = << >>
    BY <2>1, AnswerTaken
  <2>3. /\ Len(initBox) = 1 /\ Tally(inbox, InitCalls) = 0 /\ terminal # "writing" /\ ~request
    BY <2>2, OneOnItsWay
  <2>4. Len(initBox') = 0
    BY <2>2, <2>3
  <2>5. TakeTurns'
    BY <2>1, <2>3, <2>4 DEF TakeTurns, OneIf, Expecting
  <2>6. \A m \in ToSet(inbox) : m.kind = "key"
    BY <2>3, NothingOnItsWay
  <2> QED BY <2>1, <2>2, <2>3, <2>4, <2>5, <2>6 DEF Dialogue, Suits
<1>15. CASE InitGreets
  <2>1. /\ InitReceives("opened") /\ init' = "writing"
        /\ inbox' = Append(inbox, [kind |-> "write", text |-> greeting])
        /\ UNCHANGED <<terminal, request, registered>>
    BY <1>15 DEF InitGreets, ToTerminal
  <2>2. Suits([kind |-> "write", text |-> greeting].kind, init') /\ init' \in Expecting
    BY <2>1 DEF Suits, Expecting
  <2>3. [kind |-> "write", text |-> greeting] \in InitCalls
    BY <1>0 DEF TerminalTyped
  <2> QED BY <2>1, <2>2, <2>3, DialogueAsk
<1>16. CASE InitReads
  <2>1. /\ InitReceives("written") /\ init' = "reading"
        /\ inbox' = Append(inbox, [kind |-> "read"])
        /\ UNCHANGED <<terminal, request, registered>>
    BY <1>16 DEF InitReads, ToTerminal
  <2>2. Suits([kind |-> "read"].kind, init') /\ init' \in Expecting
    BY <2>1 DEF Suits, Expecting
  <2> QED BY <1>0, <2>1, <2>2, DialogueAsk
<1>17. CASE InitEchoes
  <2> DEFINE text == << Head(initBox).char >>
  <2>1. /\ InitReceives("char") /\ init' = "writing"
        /\ inbox' = Append(inbox, [kind |-> "write", text |-> text])
        /\ UNCHANGED <<terminal, request, registered>>
    BY <1>17 DEF InitEchoes, ToTerminal
  <2>2. Suits([kind |-> "write", text |-> text].kind, init') /\ init' \in Expecting
    BY <2>1 DEF Suits, Expecting
  <2>3. Head(initBox) \in Reply /\ Head(initBox).kind = "char"
    BY <2>1, AnswerTaken
  <2>4. text \in Seq(Chars)
    BY <2>3, TextsAre DEF Reply
  <2>5. [kind |-> "write", text |-> text] \in InitCalls
    BY <1>0, <2>4
  <2> QED BY <2>1, <2>2, <2>5, DialogueAsk
<1> QED
  BY <1>2, <1>3, <1>4, <1>5, <1>6, <1>7, <1>8, <1>9, <1>10, <1>11, <1>12, <1>13, <1>14,
     <1>15, <1>16, <1>17 DEF TerminalNext, Server, InitStep

\* The characters init was given, with the one that is on its way.
Given ==
    IF init = "reading" /\ initBox # << >> THEN Append(heard, Head(initBox).char) ELSE heard

HistoryTyped == heard \in Seq(Chars) /\ before \in Seq(Chars) /\ sent \in Seq(Code)

\* The terminal has read the first n codes, and the characters init was given are
\* among them.
HasRead(n) ==
    /\ n + Tally(inbox, KeyEvents) = Len(sent)
    /\ lastCode = IF n = 0 THEN NoCode ELSE sent[n]
    /\ Stems(Given, sent, n)

\* The keyboard has one question to answer, and its answer is the last code.
Codes ==
    /\ asked => Tally(inbox, KeyEvents) = 0
    /\ Tally(inbox, KeyEvents) <= 1
    /\ terminal \in {"report", "printing"} => Tally(inbox, KeyEvents) = 0 /\ ~asked
    /\ \A m \in ToSet(inbox) : m.kind = "key" => m.code = sent[Len(sent)]
    /\ \E n \in Nat : HasRead(n)

LEMMA CodesInit == TerminalInit => Codes
<1> SUFFICES ASSUME TerminalInit PROVE Codes
  OBVIOUS
<1>1. /\ inbox = << >> /\ heard = << >> /\ sent = << >> /\ init = "lookup"
      /\ lastCode = NoCode /\ asked = FALSE
  BY DEF TerminalInit
<1>2. Tally(inbox, KeyEvents) = 0 /\ ToSet(inbox) = {} /\ Len(sent) = 0
  BY <1>1, TallyOfNone, EmptyQueue
<1>3. Given = << >>
  BY <1>1 DEF Given
<1>4. Stems(Given, sent, 0)
  BY <1>3, StemsNone
<1>5. HasRead(0)
  BY <1>1, <1>2, <1>4 DEF HasRead
<1> QED BY <1>1, <1>2, <1>5 DEF Codes

\* Whatever has nothing to do with codes.
LEMMA CodesFrame ==
    ASSUME Codes, Tally(inbox', KeyEvents) = Tally(inbox, KeyEvents),
           \A m \in ToSet(inbox') : m.kind = "key" => m \in ToSet(inbox),
           UNCHANGED <<asked, sent, lastCode>>, Given' = Given,
           terminal' \in {"report", "printing"} => terminal \in {"report", "printing"}
    PROVE  Codes'
<1>1. ASSUME NEW n \in Nat, HasRead(n) PROVE HasRead(n)'
  BY <1>1 DEF HasRead
<1>2. (\E n \in Nat : HasRead(n))'
  BY <1>1 DEF Codes
<1> QED BY <1>2 DEF Codes

\* Questions of init come and go.
LEMMA KeysApart ==
    ASSUME TerminalTyped
    PROVE  /\ \A msg \in InitCalls : inbox' = Append(inbox, msg) =>
                /\ Tally(inbox', KeyEvents) = Tally(inbox, KeyEvents)
                /\ \A m \in ToSet(inbox') : m.kind = "key" => m \in ToSet(inbox)
           /\ \A kind : Serves(kind) /\ kind # "key" =>
                /\ Tally(inbox', KeyEvents) = Tally(inbox, KeyEvents)
                /\ \A m \in ToSet(inbox') : m.kind = "key" => m \in ToSet(inbox)
<1>1. ASSUME NEW msg \in InitCalls, inbox' = Append(inbox, msg)
      PROVE  /\ Tally(inbox', KeyEvents) = Tally(inbox, KeyEvents)
             /\ \A m \in ToSet(inbox') : m.kind = "key" => m \in ToSet(inbox)
  <2>1. msg \in Request /\ msg.kind # "key" /\ msg \notin KeyEvents
    BY DEF InitCalls, KeyEvents
  <2>2. /\ Tally(inbox', KeyEvents) = Tally(inbox, KeyEvents)
        /\ ToSet(inbox') = ToSet(inbox) \cup {msg}
    BY <1>1, <2>1, AtTheFront DEF TerminalTyped
  <2> QED BY <2>1, <2>2
<1>2. ASSUME NEW kind, Serves(kind), kind # "key"
      PROVE  /\ Tally(inbox', KeyEvents) = Tally(inbox, KeyEvents)
             /\ \A m \in ToSet(inbox') : m.kind = "key" => m \in ToSet(inbox)
  <2>1. /\ inbox # << >> /\ Head(inbox).kind = kind /\ inbox' = Tail(inbox)
        /\ inbox \in Seq(Request)
    BY <1>2 DEF Serves, TerminalTyped
  <2>2. Head(inbox) \notin KeyEvents
    BY <1>2, <2>1 DEF KeyEvents
  <2>3. /\ Tally(inbox', KeyEvents) = Tally(inbox, KeyEvents)
        /\ ToSet(inbox) = ToSet(inbox') \cup {Head(inbox)}
    BY <2>1, <2>2, WithoutFront
  <2> QED BY <2>3
<1> QED BY <1>1, <1>2

\* What is on its way to init while it reads is a key.
LEMMA GivenTyped ==
    ASSUME TerminalTyped, HistoryTyped, Dialogue
    PROVE  /\ Given \in Seq(Chars) /\ Key \subseteq Chars
           /\ init = "reading" /\ initBox # << >> => Head(initBox).char \in Key
<1>1. Key \subseteq Chars
  <2> SUFFICES ASSUME NEW ch \in Key PROVE ch \in Chars
    OBVIOUS
  <2>1. << ch >> \in Seq(Chars)
    BY TextsAre
  <2>2. Head(<< ch >>) \in Chars /\ Head(<< ch >>) = ch
    BY <2>1
  <2> QED BY <2>2
<1>2. ASSUME init = "reading", initBox # << >>
      PROVE  Head(initBox).char \in Key
  <2>1. initBox \in Seq(Reply)
    BY DEF TerminalTyped
  <2>2. Head(initBox) \in Reply /\ Head(initBox) \in ToSet(initBox)
    BY <1>2, <2>1, PopElements
  <2>3. Head(initBox).kind = "char"
    BY <1>2, <2>2 DEF Dialogue, Replies
  <2> QED BY <2>2, <2>3 DEF Reply
<1>3. Given \in Seq(Chars)
  BY <1>1, <1>2, AppendProperties DEF Given, HistoryTyped
<1> QED BY <1>1, <1>2, <1>3

\* A code arrives.
LEMMA CodeArrives ==
    ASSUME TerminalTyped, HistoryTyped, Dialogue, Codes, NEW code \in Code, KeyCode(code)
    PROVE  Codes'
<1> DEFINE msg == [kind |-> "key", code |-> code]
<1>1. /\ asked /\ ~asked' /\ sent' = Append(sent, code) /\ inbox' = Append(inbox, msg)
      /\ UNCHANGED <<lastCode, terminal, initBox, init, heard>>
  BY DEF KeyCode, initVars
<1>2. msg \in Request /\ msg.kind = "key" /\ msg.code = code /\ msg \in KeyEvents
  BY DEF Request, KeyEvents
<1> HIDE DEF msg
<1>3. /\ Tally(inbox', KeyEvents) = Tally(inbox, KeyEvents) + 1
      /\ ToSet(inbox') = ToSet(inbox) \cup {msg}
  BY <1>1, <1>2, AtTheFront DEF TerminalTyped
<1>4. /\ sent \in Seq(Code) /\ Len(sent) \in Nat /\ Len(sent') = Len(sent) + 1
      /\ sent'[Len(sent) + 1] = code
      /\ \A n \in 1 .. Len(sent) : sent'[n] = sent[n]
  BY <1>1 DEF HistoryTyped
<1>5. Tally(inbox, KeyEvents) = 0 /\ Tally(inbox', KeyEvents) = 1
      /\ terminal \notin {"report", "printing"}
  BY <1>1, <1>3 DEF Codes
<1>6. \A m \in ToSet(inbox) : m.kind # "key"
  <2>1. \A m \in ToSet(inbox) : m \notin KeyEvents /\ m \in Request
    BY <1>5, TallyZero, QueueElements DEF TerminalTyped
  <2> QED BY <2>1 DEF KeyEvents
<1>7. PICK n \in Nat : HasRead(n)
  BY Zenon DEF Codes
<1>8. n = Len(sent) /\ Stems(Given, sent, n) /\ lastCode = IF n = 0 THEN NoCode ELSE sent[n]
  BY <1>5, <1>7 DEF HasRead
<1>9. Given' = Given
  BY <1>1 DEF Given
<1>10. Stems(Given, Append(sent, code), n)
  <2>1. Given \in Seq(Chars)
    BY GivenTyped
  <2>2. n <= Len(sent)
    BY <1>4, <1>8
  <2> QED BY <1>4, <1>8, <2>1, <2>2, StemsSent
<1>11. lastCode' = IF n = 0 THEN NoCode ELSE sent'[n]
  <2>1. n # 0 => n \in 1 .. Len(sent)
    BY <1>4, <1>8
  <2> QED BY <1>1, <1>4, <1>8, <2>1
<1>12. n + Tally(inbox', KeyEvents) = Len(sent')
  BY <1>4, <1>5, <1>8
<1>13. HasRead(n)'
  BY <1>1, <1>9, <1>10, <1>11, <1>12 DEF HasRead
<1>14. \A m \in ToSet(inbox') : m.kind = "key" => m.code = sent'[Len(sent')]
  BY <1>2, <1>3, <1>4, <1>6
<1>15. (\E k \in Nat : HasRead(k))'
  BY <1>13
<1> QED BY <1>1, <1>5, <1>14, <1>15 DEF Codes

\* The code is taken; what it stands for is given to init, if init asked.
LEMMA CodeTaken ==
    ASSUME TerminalTyped, HistoryTyped, Dialogue, Codes, ServeKey
    PROVE  Codes'
<1> DEFINE code == Head(inbox).code
<1>1. /\ Serves("key") /\ asked' = TRUE /\ lastCode' = code
      /\ UNCHANGED <<terminal, sent>>
      /\ \/ UNCHANGED <<init, initBox, heard>>
         \/ \E ch \in Decoded(code) : /\ request /\ initBox' = Append(initBox, [kind |-> "char", char |-> ch])
                                      /\ UNCHANGED <<init, heard>>
  BY DEF ServeKey, GiveChar, ToInit, initVars
<1>2. /\ inbox # << >> /\ inbox' = Tail(inbox) /\ Head(inbox).kind = "key" /\ terminal = "serve"
      /\ inbox \in Seq(Request)
  BY <1>1 DEF Serves, TerminalTyped
<1>3. Head(inbox) \in KeyEvents /\ Head(inbox) \in ToSet(inbox) /\ Head(inbox) \in Request
  BY <1>2, PopElements DEF KeyEvents
<1>4. /\ Tally(inbox, KeyEvents) = Tally(inbox', KeyEvents) + 1
      /\ Tally(inbox, KeyEvents) \in Nat /\ Tally(inbox', KeyEvents) \in Nat
  BY <1>2, <1>3, WithoutFront
<1>5. Tally(inbox', KeyEvents) = 0 /\ Tally(inbox, KeyEvents) = 1
  <2> DEFINE a == Tally(inbox, KeyEvents)
             b == Tally(inbox', KeyEvents)
  <2>1. a = b + 1 /\ b \in Nat /\ a <= 1
    BY <1>4 DEF Codes
  <2> HIDE DEF a, b
  <2>2. b = 0 /\ a = 1
    BY <2>1
  <2> QED BY <2>2 DEF a, b
<1>6. \A m \in ToSet(inbox') : m.kind # "key"
  <2>1. Tail(inbox) \in Seq(Request)
    BY <1>2, PopElements
  <2>2. \A m \in ToSet(inbox') : m \notin KeyEvents /\ m \in Request
    BY <1>2, <1>5, <2>1, TallyZero, QueueElements
  <2> QED BY <2>2 DEF KeyEvents
<1>7. PICK n \in Nat : HasRead(n)
  BY Zenon DEF Codes
<1>8. /\ n + 1 = Len(sent) /\ Stems(Given, sent, n)
      /\ lastCode = IF n = 0 THEN NoCode ELSE sent[n]
  BY <1>5, <1>7 DEF HasRead
<1>9. code = sent[n + 1] /\ code \in Code
  <2>1. code = sent[n + 1]
    BY <1>2, <1>3, <1>8 DEF Codes
  <2>2. code \in Code
    BY <1>2, <1>3 DEF Request
  <2> QED BY <2>1, <2>2
<1>10. Given \in Seq(Chars) /\ Key \subseteq Chars
  BY GivenTyped
<1> HIDE DEF code
<1>11. Stems(Given', sent, n + 1)
  <2>1. CASE UNCHANGED <<init, initBox, heard>>
    <3>1. Given' = Given
      BY <2>1 DEF Given
    <3>2. n + 1 \in Nat /\ n <= n + 1
      OBVIOUS
    <3> QED BY <1>8, <1>10, <3>1, <3>2, StemsMore
  <2>2. ASSUME NEW ch \in Decoded(code), request,
               initBox' = Append(initBox, [kind |-> "char", char |-> ch]),
               UNCHANGED <<init, heard>>
        PROVE  Stems(Given', sent, n + 1)
    <3>1. /\ lastCode # Extended /\ ~code.up /\ ch = code.key
      BY <2>2 DEF Decoded
    <3>2. GoesDown(sent, n + 1)
      <4>1. n + 1 # 1 => n # 0 /\ (n + 1) - 1 = n
        OBVIOUS
      <4> QED BY <1>8, <1>9, <3>1, <4>1, Zenon DEF GoesDown
    <3>3. ch \in Chars
      BY <1>9, <1>10, <3>1, CodeTyped
    <3>4. init = "reading" /\ initBox = << >>
      BY <2>2, OneOnItsWay, NothingOnItsWay DEF Dialogue
    <3>5. Given = heard
      BY <3>4 DEF Given
    <3>6. Given' = Append(heard, ch)
      <4>1. initBox' = << [kind |-> "char", char |-> ch] >>
        BY <2>2, <3>4
      <4>2. initBox' # << >> /\ Head(initBox') = [kind |-> "char", char |-> ch]
        BY <4>1
      <4>3. Head(initBox').char = ch
        BY <4>2
      <4>4. init' = "reading" /\ heard' = heard
        BY <2>2, <3>4
      <4> QED BY <4>2, <4>3, <4>4, Zenon DEF Given
    <3>7. sent[n + 1].key = ch
      BY <1>9, <3>1
    <3>8. Stems(Append(Given, sent[n + 1].key), sent, n + 1)
      BY <1>8, <1>10, <3>2, <3>3, <3>7, StemsGiven
    <3> QED BY <3>5, <3>6, <3>7, <3>8
  <2> QED BY <1>1, <2>1, <2>2
<1>12. lastCode' = IF n + 1 = 0 THEN NoCode ELSE sent[n + 1]
  BY <1>1, <1>9 DEF code
<1>13. HasRead(n + 1)'
  <2>1. n + 1 + Tally(inbox', KeyEvents) = Len(sent)
    BY <1>5, <1>8
  <2> QED BY <1>1, <1>11, <1>12, <2>1 DEF HasRead
<1>14. (\E k \in Nat : HasRead(k))'
  <2>1. n + 1 \in Nat
    OBVIOUS
  <2> QED BY <1>13, <2>1, Zenon
<1> QED BY <1>1, <1>2, <1>5, <1>6, <1>14 DEF Codes

LEMMA CodesStep ==
    ASSUME TerminalTyped, HistoryTyped, Dialogue, Codes, TerminalNext
    PROVE  Codes'
<1>0. /\ \A kind \in {"create", "open", "read"} : [kind |-> kind] \in InitCalls
      /\ \A text \in Seq(Chars) : [kind |-> "write", text |-> text] \in InitCalls
  BY DEF Request, InitCalls
<1>1. CASE /\ UNCHANGED <<inbox, initBox, init, heard, asked, sent, lastCode>>
           /\ terminal' \in {"report", "printing"} => terminal \in {"report", "printing"}
  BY <1>1, CodesFrame DEF Given
<1>2. ASSUME NEW line \in KernelLines, KernelPrint(line) PROVE Codes'
  BY <1>1, <1>2 DEF KernelPrint, serverVars, initVars, keyboard
<1>3. CASE StartDriver \/ Draw
  BY <1>1, <1>3 DEF StartDriver, Draw, serverVars, initVars, keyboard
<1>4. CASE PrintLine \/ LinePrinted \/ RegisterName
  BY <1>1, <1>4 DEF PrintLine, LinePrinted, RegisterName, initVars, keyboard
<1>5. CASE StartInput
  <2>1. /\ terminal = "report" /\ terminal' = "register" /\ asked' = TRUE
        /\ UNCHANGED <<inbox, initBox, init, heard, sent, lastCode>>
    BY <1>5 DEF StartInput, initVars
  <2>2. Given' = Given
    BY <2>1 DEF Given
  <2>3. ASSUME NEW n \in Nat, HasRead(n) PROVE HasRead(n)'
    BY <2>1, <2>2, <2>3 DEF HasRead
  <2>4. (\E n \in Nat : HasRead(n))'
    BY <2>3 DEF Codes
  <2> QED BY <2>1, <2>4 DEF Codes
<1>6. CASE ServeCreate \/ ServeOpen
  <2>1. PICK kind \in {"create", "open"} : Serves(kind)
    BY <1>6 DEF ServeCreate, ServeOpen
  <2>2. UNCHANGED <<init, heard, asked, sent, lastCode, terminal>>
    BY <1>6 DEF ServeCreate, ServeOpen, ToInit, keyboard
  <2>3. Head(inbox) \in ToSet(inbox) /\ Head(inbox).kind = kind
    BY <2>1, CallTaken
  <2>4. init # "reading"
    BY <2>3 DEF Dialogue, Suits
  <2>5. Given' = Given
    BY <2>2, <2>4 DEF Given
  <2> QED BY <2>1, <2>2, <2>5, KeysApart, CodesFrame
<1>7. CASE ServeRead \/ ServeWrite
  <2>1. PICK kind \in {"read", "write"} : Serves(kind)
    BY <1>7 DEF ServeRead, ServeWrite
  <2>2. /\ UNCHANGED <<init, initBox, heard, asked, sent, lastCode>>
        /\ terminal' \notin {"report", "printing"}
    BY <1>7 DEF ServeRead, ServeWrite, Serves, initVars, keyboard
  <2>3. Given' = Given
    BY <2>2 DEF Given
  <2> QED BY <2>1, <2>2, <2>3, KeysApart, CodesFrame
<1>8. CASE Written
  <2>1. /\ terminal = "writing" /\ terminal' = "serve"
        /\ UNCHANGED <<inbox, init, heard, asked, sent, lastCode>>
    BY <1>8 DEF Written, ToInit, keyboard
  <2>2. init # "reading"
    BY <2>1 DEF Dialogue
  <2>3. Given' = Given
    BY <2>1, <2>2 DEF Given
  <2> QED BY <2>1, <2>3, CodesFrame
<1>9. CASE ServeKey
  BY <1>9, CodeTaken
<1>10. ASSUME NEW code \in Code, KeyCode(code) PROVE Codes'
  BY <1>10, CodeArrives
<1>11. ASSUME NEW msg \in InitCalls, inbox' = Append(inbox, msg), Given' = Given,
              UNCHANGED <<asked, sent, lastCode, terminal>>
       PROVE  Codes'
  BY <1>11, KeysApart, CodesFrame
<1>12. CASE InitCreates \/ InitOpens
  <2>1. PICK kind \in {"create", "open"} : inbox' = Append(inbox, [kind |-> kind])
    BY <1>12 DEF InitCreates, InitOpens, ToTerminal
  <2>2. /\ init # "reading" /\ init' # "reading"
        /\ UNCHANGED <<heard, asked, sent, lastCode, terminal>>
    BY <1>12 DEF InitCreates, InitOpens, ToTerminal, keyboard
  <2>3. Given' = Given
    BY <2>2 DEF Given
  <2> QED BY <1>0, <1>11, <2>1, <2>2, <2>3
<1>13. CASE InitExits
  <2>1. /\ init # "reading" /\ init' # "reading"
        /\ UNCHANGED <<inbox, heard, asked, sent, lastCode, terminal>>
    BY <1>13 DEF InitExits, keyboard, serverVars
  <2>2. Given' = Given
    BY <2>1 DEF Given
  <2> QED BY <2>1, <2>2, CodesFrame
<1>14. CASE InitGreets
  <2>1. /\ init # "reading" /\ init' # "reading"
        /\ inbox' = Append(inbox, [kind |-> "write", text |-> greeting])
        /\ UNCHANGED <<heard, asked, sent, lastCode, terminal>>
    BY <1>14 DEF InitGreets, ToTerminal, keyboard
  <2>2. Given' = Given
    BY <2>1 DEF Given
  <2>3. [kind |-> "write", text |-> greeting] \in InitCalls
    BY <1>0 DEF TerminalTyped
  <2> QED BY <1>11, <2>1, <2>2, <2>3
<1>15. CASE InitReads
  <2>1. /\ init = "writing" /\ InitReceives("written")
        /\ inbox' = Append(inbox, [kind |-> "read"])
        /\ UNCHANGED <<heard, asked, sent, lastCode, terminal>>
    BY <1>15 DEF InitReads, ToTerminal, keyboard
  <2>2. initBox' = << >>
    BY <2>1, AnswerTaken, OneOnItsWay
  <2>3. Given' = Given
    BY <2>1, <2>2 DEF Given
  <2> QED BY <1>0, <1>11, <2>1, <2>3
<1>16. CASE InitEchoes
  <2> DEFINE text == << Head(initBox).char >>
  <2>1. /\ init = "reading" /\ init' = "writing" /\ initBox # << >>
        /\ heard' = Append(heard, Head(initBox).char)
        /\ inbox' = Append(inbox, [kind |-> "write", text |-> text])
        /\ UNCHANGED <<asked, sent, lastCode, terminal>>
    BY <1>16 DEF InitEchoes, InitReceives, ToTerminal, keyboard
  <2>2. Given' = Given
    BY <2>1 DEF Given
  <2>3. text \in Seq(Chars)
    BY <2>1, GivenTyped, TextsAre
  <2>4. [kind |-> "write", text |-> text] \in InitCalls
    BY <1>0, <2>3
  <2> QED BY <1>11, <2>1, <2>2, <2>4
<1> QED
  BY <1>2, <1>3, <1>4, <1>5, <1>6, <1>7, <1>8, <1>9, <1>10, <1>12, <1>13, <1>14, <1>15, <1>16
  DEF TerminalNext, Server, InitStep

\* The characters init was given are keys that went down, in their order.
LEMMA HeardWithin ==
    ASSUME TerminalTyped, HistoryTyped, Dialogue, Codes
    PROVE  Within(heard, KeysMeant)
<1>1. PICK n \in Nat : HasRead(n)
  BY Zenon DEF Codes
<1>2. Stems(Given, sent, n)
  BY <1>1 DEF HasRead
<1>3. n <= Len(sent)
  <2>1. /\ Tally(inbox, KeyEvents) \in Nat /\ Len(sent) \in Nat
        /\ n + Tally(inbox, KeyEvents) = Len(sent)
    BY <1>1, TallyTyped DEF TerminalTyped, HistoryTyped, HasRead
  <2> QED BY <2>1
<1>4. Stems(heard, sent, n)
  <2>1. CASE init = "reading" /\ initBox # << >>
    <3>1. Given = Append(heard, Head(initBox).char) /\ Head(initBox).char \in Chars
      BY <2>1, GivenTyped DEF Given
    <3> QED BY <1>2, <3>1, StemsLess DEF HistoryTyped
  <2>2. CASE ~(init = "reading" /\ initBox # << >>)
    BY <1>2, <2>2 DEF Given
  <2> QED BY <2>1, <2>2
<1> QED BY <1>3, <1>4, StemsWithin DEF HistoryTyped

\* The report, line by line.
LEMMA ExpectedLines ==
    ASSUME FormatsRender, NEW lines \in Seq(Lines)
    PROVE  /\ Expected(lines) \in Seq(Chars)
           /\ lines = << >> => Expected(lines) = << >>
           /\ lines # << >> =>
                /\ Expected(Tail(lines)) \in Seq(Chars)
                /\ Expected(lines) = ScreenPrinted(Head(lines)) \o Expected(Tail(lines))
<1> DEFINE Share(line) == Kept(Rendered(line))
           Shares(ls) == [i \in DOMAIN ls |-> Share(ls[i])]
<1>1. \A line \in Lines : Share(line) = ScreenPrinted(line) /\ Share(line) \in Seq(Chars)
  BY TextsAre DEF FormatsRender, Lines
<1>2. \A ls : Expected(ls) = FlattenSeq(Shares(ls))
  BY Zenon DEF Expected
<1> HIDE DEF Share
<1>3. CASE lines = << >>
  <2>1. Shares(lines) = << >>
    BY <1>3
  <2> HIDE DEF Shares
  <2>2. FlattenSeq(Shares(lines)) = << >>
    BY <2>1 DEF FlattenSeq
  <2> QED BY <1>2, <1>3, <2>2, EmptySeq
<1>4. CASE lines # << >>
  <2>1. /\ Head(lines) \in Lines /\ Tail(lines) \in Seq(Lines) /\ Len(Tail(lines)) = Len(lines) - 1
        /\ Head(lines) = lines[1] /\ Len(lines) \in Nat \ {0}
        /\ \A i \in 1 .. Len(Tail(lines)) : Tail(lines)[i] = lines[i + 1]
        /\ \A i \in 1 .. Len(lines) : lines[i] \in Lines
    BY <1>4, HeadTailProperties, EmptySeq
  <2>2. /\ Shares(lines) \in Seq(Seq(Chars)) /\ Len(Shares(lines)) = Len(lines)
        /\ \A i \in 1 .. Len(lines) : Shares(lines)[i] = Share(lines[i])
    BY <1>1, <2>1
  <2>3. /\ Shares(Tail(lines)) \in Seq(Seq(Chars)) /\ Len(Shares(Tail(lines))) = Len(lines) - 1
        /\ \A i \in 1 .. Len(lines) - 1 : Shares(Tail(lines))[i] = Share(lines[i + 1])
    <3>1. \A i \in 1 .. Len(Tail(lines)) : Tail(lines)[i] \in Lines
      BY <2>1
    <3> QED BY <1>1, <2>1, <3>1
  <2> HIDE DEF Shares
  <2>4. Shares(lines) # << >> /\ Head(Shares(lines)) = Share(Head(lines))
    BY <2>1, <2>2
  <2>5. Tail(Shares(lines)) = Shares(Tail(lines))
    <3>1. /\ Tail(Shares(lines)) \in Seq(Seq(Chars)) /\ Len(Tail(Shares(lines))) = Len(lines) - 1
          /\ \A i \in 1 .. Len(lines) - 1 : Tail(Shares(lines))[i] = Shares(lines)[i + 1]
      BY <2>2, <2>4, HeadTailProperties
    <3>2. \A i \in 1 .. Len(lines) - 1 : i + 1 \in 1 .. Len(lines)
      BY <2>1
    <3>3. \A i \in 1 .. Len(lines) - 1 : Tail(Shares(lines))[i] = Shares(Tail(lines))[i]
      BY <2>2, <2>3, <3>1, <3>2
    <3> QED BY <2>3, <3>1, <3>3, SeqEqual
  <2>6. /\ FlattenSeq(Shares(lines)) = Share(Head(lines)) \o FlattenSeq(Shares(Tail(lines)))
        /\ FlattenSeq(Shares(Tail(lines))) \in Seq(Chars)
    BY <2>2, <2>4, <2>5, FlattenHead
  <2>7. Share(Head(lines)) = ScreenPrinted(Head(lines)) /\ Share(Head(lines)) \in Seq(Chars)
    BY <1>1, <2>1
  <2>8. FlattenSeq(Shares(lines)) \in Seq(Chars)
    BY <2>6, <2>7, ConcatProperties
  <2> QED BY <1>2, <1>4, <2>6, <2>7, <2>8, Zenon
<1> QED BY <1>3, <1>4

Echoing == {"writing", "reading"}

\* u is still to be sent to the screen: the rest of the report and the greeting, and
\* later the text of the write on its way.
Unsent(u) ==
    /\ u \in Seq(Chars)
    /\ terminal = "report" => u = Expected(report) \o greeting
    /\ terminal = "printing" => u = Expected(Tail(report)) \o greeting
    /\ terminal \notin {"report", "printing"} /\ init \notin Echoing => u = greeting
    /\ init \in Echoing => \A m \in ToSet(inbox) : m.kind = "write" => u = m.text
    /\ init \in Echoing /\ (\A m \in ToSet(inbox) : m.kind # "write") => u = << >>
Follows(u) == (drawn \o job) \o u = before \o heard

\* What is drawn, at the screen and unsent is what should be drawn.
Flow ==
    /\ terminal \notin {"printing", "writing"} => job = << >> /\ ~answered
    /\ answered => job = << >>
    /\ \E u : Unsent(u) /\ Follows(u)

LEMMA HistoryInit == FormatsRender /\ TerminalInit => HistoryTyped
<1> SUFFICES ASSUME FormatsRender, TerminalInit PROVE HistoryTyped
  OBVIOUS
<1>1. /\ before = Expected(report) \o greeting /\ report \in Seq(Lines) /\ greeting \in Seq(Chars)
      /\ heard = << >> /\ sent = << >>
  BY TextsAre DEF TerminalInit
<1>2. before \in Seq(Chars)
  BY <1>1, ExpectedLines, ConcatProperties
<1>3. << >> \in Seq(Chars) /\ << >> \in Seq(Code)
  BY EmptySeq
<1> QED BY <1>1, <1>2, <1>3, Zenon DEF HistoryTyped

LEMMA FlowInit == FormatsRender /\ TerminalInit => Flow
<1> SUFFICES ASSUME FormatsRender, TerminalInit PROVE Flow
  OBVIOUS
<1>1. /\ terminal = "report" /\ init = "lookup" /\ job = << >> /\ drawn = << >> /\ heard = << >>
      /\ answered = FALSE /\ before = Expected(report) \o greeting
  BY DEF TerminalInit
<1>2. before \in Seq(Chars)
  BY HistoryInit DEF HistoryTyped
<1>3. Unsent(before)
  BY <1>1, <1>2 DEF Unsent, Echoing
<1>4. Follows(before)
  <2>1. << >> \in Seq(Chars)
    BY EmptySeq
  <2>2. << >> \o << >> = << >> /\ << >> \o before = before /\ before \o << >> = before
    BY <1>2, <2>1, ConcatEmptySeq
  <2> QED BY <1>1, <2>2, Zenon DEF Follows
<1>5. \E u : Unsent(u) /\ Follows(u)
  BY <1>3, <1>4, Zenon
<1> QED BY <1>1, <1>5 DEF Flow

\* The same writes are on their way.
SameWrites == \A m : m.kind = "write" => (m \in ToSet(inbox) <=> m \in ToSet(inbox'))

LEMMA WritesApart ==
    ASSUME TerminalTyped
    PROVE  /\ \A msg \in Request : msg.kind # "write" /\ inbox' = Append(inbox, msg) => SameWrites
           /\ \A kind : Serves(kind) /\ kind # "write" => SameWrites
<1>1. ASSUME NEW msg \in Request, msg.kind # "write", inbox' = Append(inbox, msg)
      PROVE  SameWrites
  <2>1. ToSet(inbox') = ToSet(inbox) \cup {msg}
    BY <1>1, AppendElements DEF TerminalTyped
  <2> QED BY <1>1, <2>1 DEF SameWrites
<1>2. ASSUME NEW kind, Serves(kind), kind # "write" PROVE SameWrites
  <2>1. ToSet(inbox) = ToSet(inbox') \cup {Head(inbox)} /\ Head(inbox).kind = kind
    BY <1>2, CallTaken
  <2> QED BY <1>2, <2>1 DEF SameWrites
<1> QED BY <1>1, <1>2

\* Whatever writes nothing.
LEMMA FlowFrame ==
    ASSUME Flow, SameWrites, UNCHANGED <<drawn, job, answered, report, heard, greeting, before>>,
           init' \in Echoing <=> init \in Echoing,
           \/ UNCHANGED terminal
           \/ terminal \notin {"report", "printing", "writing"}
                /\ terminal' \notin {"report", "printing"}
    PROVE  Flow'
<1>1. ASSUME NEW u, Unsent(u), Follows(u) PROVE (Unsent(u) /\ Follows(u))'
  BY <1>1 DEF Unsent, Follows, SameWrites
<1>2. (\E u : Unsent(u) /\ Follows(u))'
  BY <1>1 DEF Flow
<1> QED BY <1>2 DEF Flow

\* A line of the report, or its end.
LEMMA LineSent ==
    ASSUME FormatsRender, TerminalTyped, HistoryTyped, Dialogue, Flow, PrintLine
    PROVE  Flow'
<1> DEFINE text == ScreenPrinted(Head(report))
           rest == Expected(Tail(report))
<1>1. /\ terminal = "report" /\ report # << >> /\ job' = text
      /\ \/ text = << >> /\ report' = Tail(report) /\ terminal' = "report"
         \/ text # << >> /\ report' = report /\ terminal' = "printing"
      /\ UNCHANGED <<drawn, answered, inbox, init, heard, greeting, before>>
  BY DEF PrintLine, WriteScreen, initVars
<1>2. /\ drawn \in Seq(Chars) /\ job = << >> /\ ~answered /\ greeting \in Seq(Chars)
      /\ init \notin Echoing
  BY <1>1 DEF TerminalTyped, Flow, Dialogue, Echoing
<1>3. /\ text \in Seq(Chars) /\ rest \in Seq(Chars) /\ Expected(report) = text \o rest
  <2>1. report \in Seq(Lines) /\ Head(report) \in Lines
    BY <1>1 DEF TerminalTyped
  <2> QED BY <1>1, <2>1, TextsAre, ExpectedLines
<1> HIDE DEF text
<1>4. PICK u : Unsent(u) /\ Follows(u)
  BY Zenon DEF Flow
<1>5. u = (text \o rest) \o greeting /\ (drawn \o << >>) \o u = before \o heard
  BY <1>1, <1>2, <1>3, <1>4 DEF Unsent, Follows
<1> HIDE DEF rest
<1>6. (drawn \o text) \o (rest \o greeting) = before \o heard
  <2>1. drawn \o << >> = drawn
    BY <1>2, ConcatEmptySeq
  <2>2. (text \o rest) \o greeting = text \o (rest \o greeting) /\ rest \o greeting \in Seq(Chars)
    <3>1. Joined(Joined(text, rest), greeting) = Joined(text, Joined(rest, greeting))
      BY <1>2, <1>3, JoinedAssociate
    <3>2. rest \o greeting \in Seq(Chars)
      BY <1>2, <1>3, ConcatProperties, Zenon
    <3> QED BY <3>1, <3>2, Zenon DEF Joined
  <2>3. (drawn \o text) \o (rest \o greeting) = drawn \o (text \o (rest \o greeting))
    <3>1. PICK r \in Seq(Chars) : r = rest \o greeting
      BY <2>2, Zenon
    <3>2. Joined(Joined(drawn, text), r) = Joined(drawn, Joined(text, r))
      BY <1>2, <1>3, JoinedAssociate
    <3> QED BY <3>1, <3>2, Zenon DEF Joined
  <2> QED BY <1>5, <2>1, <2>2, <2>3, Zenon
<1>7. PICK v \in Seq(Chars) : v = rest \o greeting
  <2>1. rest \o greeting \in Seq(Chars)
    BY <1>2, <1>3, ConcatProperties
  <2> QED BY <2>1
<1>8. Unsent(v)'
  <2>1. init' \notin Echoing
    BY <1>1, <1>2
  <2>2. CASE text = << >>
    <3>1. terminal' = "report" /\ Expected(report') \o greeting' = v
      BY <1>1, <1>7, <2>2 DEF rest
    <3> QED BY <1>7, <2>1, <3>1 DEF Unsent
  <2>3. CASE text # << >>
    <3>1. terminal' = "printing" /\ Expected(Tail(report')) \o greeting' = v
      BY <1>1, <1>7, <2>3 DEF rest
    <3> QED BY <1>7, <2>1, <3>1 DEF Unsent
  <2> QED BY <2>2, <2>3
<1>9. Follows(v)'
  BY <1>1, <1>6, <1>7 DEF Follows
<1>10. (\E w : Unsent(w) /\ Follows(w))'
  BY <1>8, <1>9
<1> QED BY <1>1, <1>2, <1>10 DEF Flow

\* init writes text: v was unsent of it, and text is now.
LEMMA TextSent ==
    ASSUME TerminalTyped, Dialogue, Flow, NEW kind, InitReceives(kind),
           NEW text \in Seq(Chars), inbox' = Append(inbox, [kind |-> "write", text |-> text]),
           init' = "writing", UNCHANGED <<drawn, job, answered, terminal, report, greeting, before>>,
           \/ init = "opening" /\ text = greeting /\ UNCHANGED heard
           \/ init \in Echoing /\ heard' = heard \o text,
           HistoryTyped
    PROVE  Flow'
<1> DEFINE msg == [kind |-> "write", text |-> text]
<1>1. msg \in InitCalls /\ msg.kind = "write" /\ msg.text = text
  BY DEF InitCalls, Request
<1>2. Tally(inbox, InitCalls) = 0 /\ terminal \notin {"report", "printing"}
  <2>1. Tally(inbox, InitCalls) = 0 /\ Len(initBox) # 0
    BY AnswerTaken, OneOnItsWay
  <2>2. init # "lookup"
    BY DEF Echoing
  <2> QED BY <2>1, <2>2 DEF Dialogue
<1>3. \A m \in ToSet(inbox) : m.kind = "key"
  BY <1>2, NothingOnItsWay
<1> HIDE DEF msg
<1>4. ToSet(inbox') = ToSet(inbox) \cup {msg}
  BY <1>1, CallSent DEF msg
<1>5. Unsent(text)'
  <2>1. \A m \in ToSet(inbox') : m.kind = "write" => m.text = text
    BY <1>1, <1>3, <1>4
  <2>2. msg \in ToSet(inbox')
    BY <1>4
  <2>3. terminal' \notin {"report", "printing"} /\ init' \in Echoing
    BY <1>2 DEF Echoing
  <2> QED BY <1>1, <2>1, <2>2, <2>3 DEF Unsent
<1>6. PICK u : Unsent(u) /\ Follows(u)
  BY Zenon DEF Flow
<1>7. Follows(text)'
  <2>1. CASE init = "opening" /\ text = greeting /\ UNCHANGED heard
    <3>1. u = text
      BY <1>2, <1>6, <2>1 DEF Unsent, Echoing
    <3> QED BY <1>6, <2>1, <3>1 DEF Follows
  <2>2. CASE init \in Echoing /\ heard' = heard \o text
    <3>1. u = << >>
      BY <1>3, <1>6, <2>2 DEF Unsent
    <3>2. drawn \o job \in Seq(Chars) /\ before \in Seq(Chars) /\ heard \in Seq(Chars)
      BY ConcatProperties DEF TerminalTyped, HistoryTyped
    <3>3. (drawn \o job) \o << >> = drawn \o job
      BY <3>2, ConcatEmptySeq
    <3>4. (before \o heard) \o text = before \o (heard \o text)
      <4>1. \A a, b, c \in Seq(Chars) : (a \o b) \o c = a \o (b \o c)
        BY JoinsAssociate
      <4>2. text \in Seq(Chars)
        OBVIOUS
      <4> QED BY <3>2, <4>1, <4>2, Zenon
    <3> QED BY <1>6, <2>2, <3>1, <3>3, <3>4 DEF Follows
  <2> QED BY <2>1, <2>2
<1>8. (\E v : Unsent(v) /\ Follows(v))'
  BY <1>5, <1>7
<1> QED BY <1>8 DEF Flow

\* The write is taken to the screen.
LEMMA WriteTaken ==
    ASSUME TerminalTyped, HistoryTyped, Dialogue, Flow, ServeWrite
    PROVE  Flow'
<1> DEFINE text == Head(inbox).text
<1>1. /\ Serves("write") /\ job' = text /\ terminal' = "writing"
      /\ UNCHANGED <<drawn, answered, init, heard, greeting, before>>
  BY DEF ServeWrite, WriteScreen, initVars
<1>2. /\ Head(inbox) \in ToSet(inbox) /\ Head(inbox).kind = "write" /\ Head(inbox) \in Request
      /\ ToSet(inbox) = ToSet(inbox') \cup {Head(inbox)} /\ terminal = "serve"
      /\ Tally(inbox, InitCalls) = Tally(inbox', InitCalls) + 1
      /\ Tally(inbox, InitCalls) \in Nat /\ Tally(inbox', InitCalls) \in Nat
  BY <1>1, CallTaken
<1>3. text \in Seq(Chars) /\ init \in Echoing
  BY <1>2, RequestTyped DEF Dialogue, Suits, Echoing
<1>4. \A m \in ToSet(inbox') : m.kind # "write"
  <2>1. Tally(inbox, InitCalls) = 1
    BY <1>2, OneOnItsWay
  <2>2. Tally(inbox', InitCalls) = 0
    BY <1>2, <2>1
  <2>3. inbox' \in Seq(Request)
    BY <1>1 DEF Serves, TerminalTyped
  <2>4. \A m \in ToSet(inbox') : m \notin InitCalls /\ m \in Request
    BY <2>2, <2>3, TallyZero, QueueElements
  <2> QED BY <2>4 DEF InitCalls
<1>5. PICK u : Unsent(u) /\ Follows(u)
  BY Zenon DEF Flow
<1>6. u = text /\ job = << >> /\ ~answered
  BY <1>2, <1>3, <1>5 DEF Unsent, Flow
<1> HIDE DEF text
<1>7. Follows(<< >>)'
  <2>1. drawn \in Seq(Chars) /\ drawn \o text \in Seq(Chars)
    BY <1>3, ConcatProperties DEF TerminalTyped
  <2>2. drawn \o << >> = drawn /\ (drawn \o text) \o << >> = drawn \o text
    BY <2>1, ConcatEmptySeq
  <2> QED BY <1>1, <1>5, <1>6, <2>2 DEF Follows
<1>8. Unsent(<< >>)'
  <2>1. << >> \in Seq(Chars) /\ init' \in Echoing
    BY <1>1, <1>3, EmptySeq
  <2> QED BY <1>1, <1>4, <2>1 DEF Unsent
<1>9. (\E v : Unsent(v) /\ Follows(v))'
  BY <1>7, <1>8
<1> QED BY <1>1, <1>6, <1>9 DEF Flow

LEMMA FlowStep ==
    ASSUME FormatsRender, TerminalTyped, HistoryTyped, LinePrinting, Dialogue, Flow, TerminalNext
    PROVE  Flow'
<1>1. CASE UNCHANGED <<drawn, job, answered, terminal, report, inbox, init, heard, greeting, before>>
  <2>1. SameWrites
    BY <1>1 DEF SameWrites
  <2> QED BY <1>1, <2>1, FlowFrame
<1>2. ASSUME NEW line \in KernelLines, KernelPrint(line) PROVE Flow'
  BY <1>1, <1>2 DEF KernelPrint, drawing, serverVars, initVars
<1>3. CASE StartDriver
  <2>1. UNCHANGED <<drawn, job, answered, terminal, report, inbox, init, heard, greeting, before>>
    BY <1>3 DEF StartDriver, serverVars, initVars
  <2> QED BY <1>1, <2>1
<1>4. CASE Draw
  <2>1. /\ job # << >> /\ drawn' = Append(drawn, Head(job)) /\ job' = Tail(job)
        /\ answered' = (Len(job) = 1)
        /\ UNCHANGED <<terminal, report, inbox, init, heard, greeting, before>>
    BY <1>4 DEF Draw, serverVars, initVars
  <2>2. drawn' \o job' = drawn \o job
    BY <2>1, FirstMoves DEF TerminalTyped
  <2>3. ASSUME NEW u, Unsent(u), Follows(u) PROVE (Unsent(u) /\ Follows(u))'
    BY <2>1, <2>2, <2>3 DEF Unsent, Follows
  <2>4. (\E u : Unsent(u) /\ Follows(u))'
    BY <2>3 DEF Flow
  <2>5. answered' => job' = << >>
    <3>1. Len(job) \in Nat /\ Tail(job) \in Seq(Chars) /\ Len(Tail(job)) = Len(job) - 1
      BY <2>1, PopElements, QueueElements DEF TerminalTyped
    <3>2. Len(job) = 1 => Len(Tail(job)) = 0
      BY <3>1
    <3>3. Len(Tail(job)) = 0 => Tail(job) = << >>
      BY <3>1, QueueElements
    <3> QED BY <2>1, <3>2, <3>3, Zenon
  <2>6. terminal' \in {"printing", "writing"}
    BY <2>1 DEF Flow
  <2> QED BY <2>4, <2>5, <2>6 DEF Flow
<1>5. CASE PrintLine
  BY <1>5, LineSent
<1>6. CASE LinePrinted
  <2>1. /\ terminal = "printing" /\ answered /\ ~answered' /\ terminal' = "report"
        /\ report' = Tail(report)
        /\ UNCHANGED <<drawn, job, inbox, init, heard, greeting, before>>
    BY <1>6 DEF LinePrinted, WriteAnswered, initVars
  <2>2. init \notin Echoing
    BY <2>1 DEF Dialogue, Echoing
  <2>3. ASSUME NEW u, Unsent(u), Follows(u) PROVE (Unsent(u) /\ Follows(u))'
    BY <2>1, <2>2, <2>3 DEF Unsent, Follows
  <2>4. (\E u : Unsent(u) /\ Follows(u))'
    BY <2>3 DEF Flow
  <2> QED BY <2>1, <2>4 DEF Flow
<1>7. CASE StartInput
  <2>1. /\ terminal = "report" /\ report = << >> /\ terminal' = "register"
        /\ UNCHANGED <<drawn, job, answered, report, inbox, init, heard, greeting, before>>
    BY <1>7 DEF StartInput, drawing, initVars
  <2>2. init \notin Echoing
    BY <2>1 DEF Dialogue, Echoing
  <2>3. Expected(report) \o greeting = greeting
    <3>1. Expected(report) = << >>
      BY <2>1, ExpectedLines, EmptySeq
    <3> QED BY <3>1, ConcatEmptySeq DEF TerminalTyped
  <2>4. ASSUME NEW u, Unsent(u), Follows(u) PROVE (Unsent(u) /\ Follows(u))'
    BY <2>1, <2>2, <2>3, <2>4 DEF Unsent, Follows
  <2>5. (\E u : Unsent(u) /\ Follows(u))'
    BY <2>4 DEF Flow
  <2> QED BY <2>1, <2>5 DEF Flow
<1>8. CASE RegisterName
  <2>1. /\ terminal = "register" /\ terminal' = "serve"
        /\ UNCHANGED <<drawn, job, answered, report, inbox, init, heard, greeting, before>>
    BY <1>8 DEF RegisterName, drawing, initVars
  <2>2. SameWrites
    BY <2>1 DEF SameWrites
  <2> QED BY <2>1, <2>2, FlowFrame
<1>9. CASE ServeCreate \/ ServeOpen \/ ServeRead \/ ServeKey
  <2>1. PICK kind \in {"create", "open", "read", "key"} : Serves(kind)
    BY <1>9 DEF ServeCreate, ServeOpen, ServeRead, ServeKey
  <2>2. UNCHANGED <<drawn, job, answered, terminal, init, heard, greeting, before>>
    BY <1>9 DEF ServeCreate, ServeOpen, ServeRead, ServeKey, GiveChar, ToInit, drawing, initVars
  <2>3. UNCHANGED report
    BY <2>1 DEF Serves
  <2>4. SameWrites
    BY <2>1, WritesApart
  <2> QED BY <2>2, <2>3, <2>4, FlowFrame
<1>10. CASE ServeWrite
  BY <1>10, WriteTaken
<1>11. CASE Written
  <2>1. /\ terminal = "writing" /\ answered /\ ~answered' /\ terminal' = "serve"
        /\ UNCHANGED <<drawn, job, report, inbox, init, heard, greeting, before>>
    BY <1>11 DEF Written, WriteAnswered, ToInit
  <2>3. ASSUME NEW u, Unsent(u), Follows(u) PROVE (Unsent(u) /\ Follows(u))'
    BY <2>1, <2>3 DEF Unsent, Follows
  <2>4. (\E u : Unsent(u) /\ Follows(u))'
    BY <2>3 DEF Flow
  <2> QED BY <2>1, <2>4 DEF Flow
<1>12. ASSUME NEW code \in Code, KeyCode(code) PROVE Flow'
  <2>1. /\ inbox' = Append(inbox, [kind |-> "key", code |-> code])
        /\ UNCHANGED <<drawn, job, answered, terminal, report, init, heard, greeting, before>>
    BY <1>12 DEF KeyCode, drawing, initVars
  <2>2. [kind |-> "key", code |-> code] \in Request
    BY DEF Request
  <2>3. SameWrites
    BY <2>1, <2>2, WritesApart
  <2> QED BY <2>1, <2>3, FlowFrame
<1>13. CASE InitCreates \/ InitOpens \/ InitReads
  <2>1. PICK kind \in {"create", "open", "read"} : inbox' = Append(inbox, [kind |-> kind])
    BY <1>13 DEF InitCreates, InitOpens, InitReads, ToTerminal
  <2>2. /\ UNCHANGED <<drawn, job, answered, terminal, report, heard, greeting, before>>
        /\ init' \in Echoing <=> init \in Echoing
    BY <1>13 DEF InitCreates, InitOpens, InitReads, ToTerminal, drawing, Echoing
  <2>3. [kind |-> kind] \in Request
    BY DEF Request
  <2>4. SameWrites
    BY <2>1, <2>3, WritesApart
  <2> QED BY <2>2, <2>4, FlowFrame
<1>14. CASE InitExits
  <2>1. /\ UNCHANGED <<drawn, job, answered, terminal, report, inbox, heard, greeting, before>>
        /\ init' \in Echoing <=> init \in Echoing
    BY <1>14 DEF InitExits, drawing, serverVars, Echoing
  <2>2. SameWrites
    BY <2>1 DEF SameWrites
  <2> QED BY <2>1, <2>2, FlowFrame
<1>15. CASE InitGreets
  <2>1. /\ InitReceives("opened") /\ init = "opening" /\ init' = "writing"
        /\ inbox' = Append(inbox, [kind |-> "write", text |-> greeting])
        /\ UNCHANGED <<drawn, job, answered, terminal, report, heard, greeting, before>>
    BY <1>15 DEF InitGreets, ToTerminal, drawing
  <2>2. greeting \in Seq(Chars)
    BY DEF TerminalTyped
  <2> QED BY <2>1, <2>2, TextSent
<1>16. CASE InitEchoes
  <2> DEFINE text == << Head(initBox).char >>
  <2>1. /\ InitReceives("char") /\ init = "reading" /\ init' = "writing" /\ initBox # << >>
        /\ inbox' = Append(inbox, [kind |-> "write", text |-> text])
        /\ heard' = Append(heard, Head(initBox).char)
        /\ UNCHANGED <<drawn, job, answered, terminal, report, greeting, before>>
    BY <1>16 DEF InitEchoes, InitReceives, ToTerminal, drawing
  <2>2. Head(initBox).char \in Key /\ Key \subseteq Chars
    BY <2>1, GivenTyped
  <2>3. text \in Seq(Chars)
    BY <2>2, TextsAre
  <2>4. heard' = heard \o text
    BY <2>1, <2>2, AppendIsConcat DEF HistoryTyped
  <2>5. init \in Echoing
    BY <2>1 DEF Echoing
  <2> HIDE DEF text
  <2> QED BY <2>1, <2>3, <2>4, <2>5, TextSent
<1> QED
  BY <1>2, <1>3, <1>4, <1>5, <1>6, <1>7, <1>8, <1>9, <1>10, <1>11, <1>12, <1>13, <1>14, <1>15, <1>16
  DEF TerminalNext, Server, InitStep

LEMMA HistoryStep ==
    ASSUME TerminalTyped, HistoryTyped, Dialogue, TerminalNext
    PROVE  HistoryTyped'
<1> USE DEF HistoryTyped
<1>1. CASE UNCHANGED <<heard, before, sent>>
  BY <1>1
<1>2. ASSUME NEW line \in KernelLines, KernelPrint(line) PROVE UNCHANGED <<heard, before, sent>>
  BY <1>2 DEF KernelPrint, keyboard, initVars
<1>3. CASE StartDriver \/ Draw
  BY <1>1, <1>3 DEF StartDriver, Draw, keyboard, initVars
<1>4. CASE PrintLine \/ LinePrinted \/ StartInput \/ RegisterName
  BY <1>1, <1>4 DEF PrintLine, LinePrinted, StartInput, RegisterName, keyboard, initVars
<1>5. CASE ServeCreate \/ ServeOpen \/ ServeRead \/ ServeKey
  BY <1>1, <1>5 DEF ServeCreate, ServeOpen, ServeRead, ServeKey, GiveChar, ToInit, keyboard, initVars
<1>6. CASE ServeWrite \/ Written
  BY <1>1, <1>6 DEF ServeWrite, Written, ToInit, keyboard, initVars
<1>7. ASSUME NEW code \in Code, KeyCode(code) PROVE HistoryTyped'
  BY <1>7, AppendProperties DEF KeyCode, initVars
<1>8. CASE InitCreates \/ InitOpens \/ InitExits \/ InitGreets \/ InitReads
  BY <1>1, <1>8 DEF InitCreates, InitOpens, InitExits, InitGreets, InitReads, ToTerminal, keyboard, serverVars
<1>9. CASE InitEchoes
  <2>1. /\ init = "reading" /\ initBox # << >> /\ heard' = Append(heard, Head(initBox).char)
        /\ UNCHANGED <<before, sent>>
    BY <1>9 DEF InitEchoes, InitReceives, ToTerminal, keyboard
  <2>2. Head(initBox).char \in Chars
    BY <2>1, GivenTyped
  <2> QED BY <2>1, <2>2, AppendProperties
<1> QED
  BY <1>1, <1>2, <1>3, <1>4, <1>5, <1>6, <1>7, <1>8, <1>9 DEF TerminalNext, Server, InitStep

TextsInv == HistoryTyped /\ Dialogue /\ Codes /\ Flow

LEMMA TextsFollow == ASSUME TerminalTyped, TextsInv PROVE TextsInOrder
<1>1. PICK u : Unsent(u) /\ Follows(u)
  BY Zenon DEF TextsInv, Flow
<1>2. drawn \in Seq(Chars) /\ job \in Seq(Chars) /\ u \in Seq(Chars)
  BY <1>1 DEF TerminalTyped, Unsent
<1>3. (drawn \o job) \o u = drawn \o (job \o u) /\ job \o u \in Seq(Chars)
  BY <1>2, ConcatAssociative, ConcatProperties
<1>4. IsPrefix(drawn, drawn \o (job \o u))
  BY <1>2, <1>3, FrontIsPrefix
<1>5. IsPrefix(drawn, before \o heard)
  BY <1>1, <1>3, <1>4 DEF Follows
<1>6. Within(heard, KeysMeant)
  BY HeardWithin DEF TextsInv
<1> QED BY <1>5, <1>6 DEF TextsInOrder

\* The driver draws the report, the greeting and the characters init was given, in this
\* order and nothing else, and those are keys that went down, in the order in which
\* they did: for every size of the screen, and all reports, greetings and codes.  That
\* the lines of the reports are formatted as they should be is the hypothesis.
THEOREM TextsDrawnInOrder == ASSUME FormatsRender PROVE TerminalSpec => []TextsInOrder
<1>1. TerminalInit => TextsInv
  BY HistoryInit, DialogueInit, CodesInit, FlowInit DEF TextsInv
<1>2. ScreenInv /\ TextsInv /\ [TerminalNext]_terminalVars => TextsInv'
  <2> SUFFICES ASSUME ScreenInv, TextsInv, [TerminalNext]_terminalVars PROVE TextsInv'
    OBVIOUS
  <2>1. TerminalTyped /\ LinePrinting
    BY DEF ScreenInv
  <2>2. CASE TerminalNext
    BY <2>1, <2>2, HistoryStep, DialogueStep, CodesStep, FlowStep DEF TextsInv
  <2>3. CASE UNCHANGED terminalVars
    <3>1. UNCHANGED <<job, answered, drawn, terminal, report, inbox, registered, request,
                      lastCode, asked, sent, init, initBox, heard, greeting, before>>
      BY <2>3 DEF terminalVars, drawing, serverVars, keyboard, initVars
    <3>2. Dialogue'
      BY <3>1 DEF TextsInv, Dialogue, TakeTurns
    <3>3. Codes'
      BY <3>1, CodesFrame DEF TextsInv, Given
    <3>4. Flow'
      BY <3>1, FlowFrame DEF TextsInv, SameWrites
    <3>5. HistoryTyped'
      BY <3>1 DEF TextsInv, HistoryTyped
    <3> QED BY <3>2, <3>3, <3>4, <3>5 DEF TextsInv
  <2> QED BY <2>2, <2>3
<1>3. ScreenInv /\ TextsInv => TextsInOrder
  BY TextsFollow DEF ScreenInv
<1> QED BY <1>1, <1>2, <1>3, ScreenAlways, PTL DEF TerminalSpec

=============================================================================
