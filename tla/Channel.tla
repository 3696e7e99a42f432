------------------------------- MODULE Channel -------------------------------
(***************************************************************************)
(* What the message ports of the kernel promise to the threads that use    *)
(* them, without a scheduler, interrupts or memory: an identifier names a  *)
(* channel that is opened once and closed for good, messages of a channel  *)
(* are delivered whole, once and in order, and a message is not left       *)
(* pending for ever while somebody waits for it.                           *)
(***************************************************************************)
EXTENDS Naturals, Sequences

CONSTANTS
    Id, NoId,
    Never, \* what a thread waits for whose channel was closed
    Thread, Message, NoMsg

VARIABLES
    status,  \* of each channel: unused, open or closed
    pending, \* the messages sent on it and not delivered
    waiting, \* the channel each thread waits on
    inbox    \* what each thread received last, until it consumes it

vars == <<status, pending, waiting, inbox>>

Init ==
    /\ status = [i \in Id |-> "unused"]
    /\ pending = [i \in Id |-> <<>>]
    /\ waiting = [t \in Thread |-> NoId]
    /\ inbox = [t \in Thread |-> NoMsg]

Open(i) ==
    /\ status[i] = "unused"
    /\ status' = [status EXCEPT ![i] = "open"]
    /\ UNCHANGED <<pending, waiting, inbox>>

\* A channel is closed with what is pending, and whoever waits on it waits for ever.
Close(i, t) ==
    /\ status[i] = "open"
    /\ waiting[t] = NoId
    /\ status' = [status EXCEPT ![i] = "closed"]
    /\ pending' = [pending EXCEPT ![i] = <<>>]
    /\ waiting' = [u \in Thread |-> IF waiting[u] = i THEN Never ELSE waiting[u]]
    /\ inbox' = [inbox EXCEPT ![t] = NoMsg]

\* A thread, or the kernel, sends; the thread has consumed what it received.
Send(i, m, done) ==
    /\ status[i] = "open"
    /\ pending' = [pending EXCEPT ![i] = Append(@, m)]
    /\ inbox' = [t \in Thread |-> IF t \in done THEN NoMsg ELSE inbox[t]]
    /\ UNCHANGED <<status, waiting>>

Consume(t) ==
    /\ waiting[t] = NoId
    /\ inbox' = [inbox EXCEPT ![t] = NoMsg]
    /\ UNCHANGED <<status, pending, waiting>>

Wait(t, i) ==
    /\ status[i] = "open"
    /\ waiting[t] = NoId
    /\ waiting' = [waiting EXCEPT ![t] = i]
    /\ inbox' = [inbox EXCEPT ![t] = NoMsg]
    /\ UNCHANGED <<status, pending>>

\* The first pending message of i goes to t, which waited or just asked.
Deliver(t, i) ==
    /\ status[i] = "open"
    /\ waiting[t] \in {i, NoId}
    /\ pending[i] # <<>>
    /\ inbox' = [inbox EXCEPT ![t] = Head(pending[i])]
    /\ pending' = [pending EXCEPT ![i] = Tail(@)]
    /\ waiting' = [waiting EXCEPT ![t] = NoId]
    /\ UNCHANGED status

Next ==
    \/ \E i \in Id : Open(i)
    \/ \E i \in Id, t \in Thread : Close(i, t) \/ Wait(t, i) \/ Deliver(t, i)
    \/ \E i \in Id, m \in Message : Send(i, m, {}) \/ \E t \in Thread : Send(i, m, {t})
    \/ \E t \in Thread : Consume(t)

\* Somebody gets the message if somebody waits for it.
DeliverToWaiting(i) ==
    /\ \E t \in Thread : waiting[t] = i
    /\ \E t \in Thread : Deliver(t, i)

Safe == Init /\ [][Next]_vars
Live == \A i \in Id : WF_vars(DeliverToWaiting(i))
=============================================================================
