----------------------------- MODULE ThreadQueue -----------------------------
(***************************************************************************)
(* The intrusive queue of threads: a queue is its first and last thread,   *)
(* and the one link of each thread, sched_next, chains whatever queue the  *)
(* thread is in.  The operators return the new queue and the new links;    *)
(* Represents says when the pair stands for a sequence of threads.         *)
(***************************************************************************)
EXTENDS Naturals, SequencesExt

CONSTANTS Thread, NoThread \* the threads, and NULL

Queue == [first : Thread \cup {NoThread}, last : Thread \cup {NoThread}]
Links == [Thread -> Thread \cup {NoThread}]

\* threadqueue_init
EmptyThreadQueue == [first |-> NoThread, last |-> NoThread]

\* threadqueue_is_empty
IsEmpty(q) == q.first = NoThread

\* threadqueue_add: the queue once t is added to q ...
Added(q, t) == [first |-> IF IsEmpty(q) THEN t ELSE q.first, last |-> t]
\* Mutant: t keeps the link it had.
AddedLinksStale(q, next, t) ==
    IF q.last = NoThread THEN next ELSE [next EXCEPT ![q.last] = t]

\* ... and the links.
AddedLinks(q, next, t) ==
    LET cleared == [next EXCEPT ![t] = NoThread]
    IN  IF q.last = NoThread THEN cleared ELSE [cleared EXCEPT ![q.last] = t]

\* threadqueue_pop: the queue left behind; the thread taken is q.first and the
\* links stay as they are.
Popped(q, next) ==
    LET first == IF IsEmpty(q) THEN NoThread ELSE next[q.first]
    IN  [first |-> first, last |-> IF first = NoThread THEN NoThread ELSE q.last]

\* The queue q, through the links next, is the sequence s of distinct threads.
Represents(q, next, s) ==
    /\ s \in Seq(Thread) /\ IsInjective(s)
    /\ IF s = <<>>
       THEN q = EmptyThreadQueue
       ELSE /\ q = [first |-> s[1], last |-> s[Len(s)]]
            /\ next[s[Len(s)]] = NoThread
            /\ \A i \in 1 .. Len(s) - 1 : next[s[i]] = s[i + 1]
=============================================================================
