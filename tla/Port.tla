-------------------------------- MODULE Port ---------------------------------
(***************************************************************************)
(* Kernel message ports: creation, sending by threads and by interrupt     *)
(* handlers, the blocking receive, and deletion, on top of the scheduler.  *)
(*                                                                         *)
(* A system call is split where the code can be preempted or sleeps: after *)
(* the port structure is allocated and before it is inserted, in the wait  *)
(* loop of the receive, before the message is copied out, before the       *)
(* message is freed, and, once a port is out of the table, before and      *)
(* after each message of it is freed and before the port is.               *)
(* A call that returns -1 (no such port, no memory) changes nothing and is *)
(* a stuttering step.                                                      *)
(*                                                                         *)
(* The kernel deletes a port whoever is waiting on it, and reads the link  *)
(* of a message after it freed it.  A thread whose pointer outlived what   *)
(* it pointed to is stale; when it is about to look through that pointer,  *)
(* what it finds depends on who has the memory by then, and the model      *)
(* ends (Stray).                                                           *)
(***************************************************************************)
EXTENDS Sched

CONSTANTS
    PortSlot, \* the port structures s_port_cache can provide
    MsgSlot,  \* the message structures s_message_cache can provide
    Data,     \* message payloads
    Kernel,   \* the sender of a message sent by an interrupt handler
    NoPort,   \* NULL as a port pointer
    NoMsg,    \* NULL as a message pointer, and "nothing received"
    Never,    \* what a thread waits for whose port was deleted
    MaxPorts  \* bound: no port is created once s_next_port_id is this

ASSUME PortAssumption ==
    /\ NoPort \notin PortSlot \cup Nat
    /\ Never \notin Nat \cup {NoPort}
    /\ NoMsg \notin MsgSlot
    /\ Kernel \notin Thread
    /\ MaxPorts \in Nat

Message == [sender : Thread \cup {Kernel}, data : Data]

VARIABLES
    nextId,    \* s_next_port_id
    table,     \* s_port_table: the port each open identifier names
    queue,     \* of each port structure, the messages from msg_first to msg_last; of
               \* one that is being deleted, those the loop has not come to
    waiters,   \* of each port structure, the threads waiting to receive
    content,   \* sender and data of each message structure
    freePorts, \* structures s_port_cache has free
    freeMsgs,  \* structures s_message_cache has free
    pc,        \* where in a system call each thread is
    port,      \* the local p of that call
    msg,       \* the local msg of that call, or m of ipc_port_destroy
    inbox,     \* the buffer the receive filled, until the thread consumes it
    stale      \* history: threads waiting on a port that was deleted, or about to read
               \* the link of a freed message whose memory was given away

portVars == <<nextId, table, queue, waiters, content, freePorts, freeMsgs,
              pc, port, msg, inbox, stale>>
vars == <<schedVars, portVars>>

TypeOK ==
    /\ SchedTypeOK
    /\ nextId \in Nat
    /\ table \in [DOMAIN table -> PortSlot] /\ DOMAIN table \subseteq 0 .. nextId - 1
    /\ queue \in [PortSlot -> Seq(MsgSlot)]
    /\ waiters \in [PortSlot -> Seq(Thread)]
    /\ content \in [MsgSlot -> Message \cup {NoMsg}]
    /\ freePorts \subseteq PortSlot
    /\ freeMsgs \subseteq MsgSlot
    /\ pc \in [Thread -> {"user", "insert", "wait", "copy", "release", "free", "next",
                       "destroy"}]
    /\ port \in [Thread -> PortSlot \cup {NoPort}]
    /\ msg \in [Thread -> MsgSlot \cup {NoMsg}]
    /\ inbox \in [Thread -> Message \cup {NoMsg}]
    /\ stale \subseteq Thread

Init ==
    /\ SchedInit
    /\ nextId = 0
    /\ table = <<>>
    /\ queue = [p \in PortSlot |-> <<>>]
    /\ waiters = [p \in PortSlot |-> <<>>]
    /\ content = [m \in MsgSlot |-> NoMsg]
    /\ freePorts = PortSlot
    /\ freeMsgs = MsgSlot
    /\ pc = [t \in Thread |-> "user"]
    /\ port = [t \in Thread |-> NoPort]
    /\ msg = [t \in Thread |-> NoMsg]
    /\ inbox = [t \in Thread |-> NoMsg]
    /\ stale = {}

-----------------------------------------------------------------------------
\* Thread t runs, in user mode or at this place of a system call.
At(t, place) == current = t /\ pc[t] = place

\* The identifiers the table knows, and the ports they name.
OpenId == DOMAIN table
Live == {table[i] : i \in OpenId}

\* The running thread is about to look through a pointer that outlived what it
\* pointed to.
Stray == current \in stale

\* The system call of t ends; user mode runs with interrupts on.
Return(t) ==
    /\ pc' = [pc EXCEPT ![t] = "user"]
    /\ port' = [port EXCEPT ![t] = NoPort]
    /\ msg' = [msg EXCEPT ![t] = NoMsg]
    /\ intr' = [intr EXCEPT ![t] = TRUE]

\* sys_ipc_port_create: allocate and initialise a port structure ...
Create(t) ==
    /\ At(t, "user")
    /\ nextId < MaxPorts
    /\ \E p \in freePorts :
         /\ freePorts' = freePorts \ {p}
         /\ queue' = [queue EXCEPT ![p] = <<>>]
         /\ waiters' = [waiters EXCEPT ![p] = <<>>]
         /\ port' = [port EXCEPT ![t] = p]
    /\ pc' = [pc EXCEPT ![t] = "insert"]
    /\ inbox' = [inbox EXCEPT ![t] = NoMsg]
    /\ UNCHANGED <<schedVars, nextId, table, content, freeMsgs, msg, stale>>

\* Mutant: the identifier is not advanced.
InsertSameId(t) ==
    /\ At(t, "insert")
    /\ table' = [i \in OpenId \cup {nextId} |-> IF i = nextId THEN port[t] ELSE table[i]]
    /\ Return(t)
    /\ UNCHANGED <<state, ready, current, nextId, queue, waiters, content,
                   freePorts, freeMsgs, inbox, stale>>

\* ... then give it the next identifier, enter it in the table, and return.
Insert(t) ==
    /\ At(t, "insert")
    /\ nextId' = nextId + 1
    /\ table' = [i \in OpenId \cup {nextId} |-> IF i = nextId THEN port[t] ELSE table[i]]
    /\ Return(t)
    /\ UNCHANGED <<state, ready, current, queue, waiters, content, freePorts,
                   freeMsgs, inbox, stale>>

\* What a send does besides queueing the message and waking receivers: the
\* structure m leaves the allocator with the message in it, although a thread that
\* freed it may not have read its link yet.
Store(m, message) ==
    /\ freeMsgs' = freeMsgs \ {m}
    /\ content' = [content EXCEPT ![m] = message]
    /\ stale' = stale \cup {t \in Thread : pc[t] = "next" /\ msg[t] = m}
    /\ UNCHANGED <<current, intr, nextId, table, freePorts, pc, port, msg>>

\* Mutant: the first waiter is woken but stays in the queue.
SendPeek(i, message) ==
    \E m \in freeMsgs :
      /\ Store(m, message)
      /\ queue' = [queue EXCEPT ![table[i]] = Append(@, m)]
      /\ WakeUp(IF waiters[table[i]] = <<>> THEN <<>> ELSE <<Head(waiters[table[i]])>>)
      /\ UNCHANGED waiters

\* Mutant: only the message that makes the list non-empty wakes a receiver.
SendWakesOnFirst(i, message) ==
    \E m \in freeMsgs :
      LET p == table[i]
          wakes == waiters[p] # <<>> /\ queue[p] = <<>>
      IN  /\ Store(m, message)
          /\ queue' = [queue EXCEPT ![p] = Append(@, m)]
          /\ waiters' = [waiters EXCEPT ![p] = IF wakes THEN Tail(@) ELSE @]
          /\ WakeUp(IF wakes THEN <<Head(waiters[p])>> ELSE <<>>)

\* Mutant: the message is linked before the others.
SendFirst(i, message) ==
    \E m \in freeMsgs :
      LET p == table[i]
          woken == IF waiters[p] = <<>> THEN <<>> ELSE <<Head(waiters[p])>>
      IN  /\ Store(m, message)
          /\ queue' = [queue EXCEPT ![p] = <<m>> \o @]
          /\ waiters' = [waiters EXCEPT ![p] = IF @ = <<>> THEN @ ELSE Tail(@)]
          /\ WakeUp(woken)

\* ipc_port_send: store the message, link it to the port's list, and wake the
\* first waiter, if any.
Send(i, message) ==
    \E m \in freeMsgs :
      LET p == table[i]
          woken == IF waiters[p] = <<>> THEN <<>> ELSE <<Head(waiters[p])>>
      IN  /\ Store(m, message)
          /\ queue' = [queue EXCEPT ![p] = Append(@, m)]
          /\ waiters' = [waiters EXCEPT ![p] = IF @ = <<>> THEN @ ELSE Tail(@)]
          /\ WakeUp(woken)

\* sys_ipc_port_send by a thread.
ThreadSend(t) ==
    /\ At(t, "user")
    /\ \E i \in OpenId, d \in Data : Send(i, [sender |-> t, data |-> d])
    /\ inbox' = [inbox EXCEPT ![t] = NoMsg]

\* irq_handle for an interrupt a server registered: it comes wherever
\* interrupts are on.
IrqSend ==
    /\ InterruptsOn
    /\ \E i \in OpenId, d \in Data : Send(i, [sender |-> Kernel, data |-> d])
    /\ UNCHANGED inbox

\* The wait loop of sys_ipc_port_receive: take the first message of p, or join
\* the waiters and sleep.
TakeOrWait(t, p) ==
    IF queue[p] # <<>>
    THEN /\ msg' = [msg EXCEPT ![t] = Head(queue[p])]
         /\ queue' = [queue EXCEPT ![p] = Tail(@)]
         /\ pc' = [pc EXCEPT ![t] = "copy"]
         /\ UNCHANGED <<schedVars, waiters>>
    ELSE /\ waiters' = [waiters EXCEPT ![p] = Append(@, t)]
         /\ pc' = [pc EXCEPT ![t] = "wait"]
         /\ Sleep
         /\ UNCHANGED <<queue, msg>>

\* sys_ipc_port_receive, up to the end of the first lock section.
Receive(t) ==
    /\ At(t, "user")
    /\ \E i \in OpenId :
         /\ port' = [port EXCEPT ![t] = table[i]]
         /\ TakeOrWait(t, table[i])
    /\ inbox' = [inbox EXCEPT ![t] = NoMsg]
    /\ UNCHANGED <<nextId, table, content, freePorts, freeMsgs, stale>>

\* The receiver was woken and looks again, through the port pointer it had.
Recheck(t) ==
    /\ At(t, "wait")
    /\ TakeOrWait(t, port[t])
    /\ UNCHANGED <<nextId, table, content, freePorts, freeMsgs, port, inbox, stale>>

\* Outside the lock: copy the message to the caller's buffer ...
Copy(t) ==
    /\ At(t, "copy")
    /\ inbox' = [inbox EXCEPT ![t] = content[msg[t]]]
    /\ pc' = [pc EXCEPT ![t] = "release"]
    /\ UNCHANGED <<schedVars, nextId, table, queue, waiters, content, freePorts,
                   freeMsgs, port, msg, stale>>

\* ... free the message structure, whose words the allocator reuses, return.
Release(t) ==
    /\ At(t, "release")
    /\ freeMsgs' = freeMsgs \cup {msg[t]}
    /\ content' = [content EXCEPT ![msg[t]] = NoMsg]
    /\ Return(t)
    /\ UNCHANGED <<state, ready, current, nextId, table, queue, waiters,
                   freePorts, inbox, stale>>

\* The receivers that sleep on port structure p, or were woken and have not looked.
WaitingOn(p) == {t \in Thread : pc[t] = "wait" /\ port[t] = p}

\* ipc_port_destroy comes to the first message that is left, or there is none and
\* the port is next.
Hold(t, p) ==
    IF queue[p] # <<>>
    THEN /\ msg' = [msg EXCEPT ![t] = Head(queue[p])]
         /\ queue' = [queue EXCEPT ![p] = Tail(@)]
         /\ pc' = [pc EXCEPT ![t] = "free"]
    ELSE /\ msg' = [msg EXCEPT ![t] = NoMsg]
         /\ pc' = [pc EXCEPT ![t] = "destroy"]
         /\ UNCHANGED queue

\* Mutant: the port is looked up, not removed.
UnlistLookup(t, i) ==
    /\ At(t, "user")
    /\ port' = [port EXCEPT ![t] = table[i]]
    /\ Hold(t, table[i])
    /\ stale' = stale \cup WaitingOn(table[i])
    /\ inbox' = [inbox EXCEPT ![t] = NoMsg]
    /\ UNCHANGED <<schedVars, nextId, table, waiters, content, freePorts, freeMsgs>>

\* Mutant: the messages queued on the port are forgotten.
UnlistLeaks(t, i) ==
    /\ At(t, "user")
    /\ table' = [j \in OpenId \ {i} |-> table[j]]
    /\ port' = [port EXCEPT ![t] = table[i]]
    /\ pc' = [pc EXCEPT ![t] = "destroy"]
    /\ stale' = stale \cup WaitingOn(table[i])
    /\ inbox' = [inbox EXCEPT ![t] = NoMsg]
    /\ UNCHANGED <<schedVars, nextId, queue, waiters, content, freePorts, freeMsgs, msg>>

\* sys_ipc_port_delete: take the port out of the table, whoever is waiting on it and
\* whatever is queued, and turn to its first message, which nobody can change ...
Unlist(t, i) ==
    /\ At(t, "user")
    /\ table' = [j \in OpenId \ {i} |-> table[j]]
    /\ port' = [port EXCEPT ![t] = table[i]]
    /\ Hold(t, table[i])
    /\ stale' = stale \cup WaitingOn(table[i])
    /\ inbox' = [inbox EXCEPT ![t] = NoMsg]
    /\ UNCHANGED <<schedVars, nextId, waiters, content, freePorts, freeMsgs>>

Delete(t) == \E i \in OpenId : Unlist(t, i)

\* ... free the message ...
FreeMessage(t) ==
    /\ At(t, "free")
    /\ freeMsgs' = freeMsgs \cup {msg[t]}
    /\ content' = [content EXCEPT ![msg[t]] = NoMsg]
    /\ pc' = [pc EXCEPT ![t] = "next"]
    /\ UNCHANGED <<schedVars, nextId, table, queue, waiters, freePorts, port, msg, inbox, stale>>

\* ... and read its link, which the allocator leaves as it was ...
Follow(t) ==
    /\ At(t, "next")
    /\ Hold(t, port[t])
    /\ UNCHANGED <<schedVars, nextId, table, waiters, content, freePorts, freeMsgs,
                   port, inbox, stale>>

\* ... unless the page it is in, empty now, was released and another thread has it.
Recycle(t) ==
    /\ pc[t] = "next" /\ msg[t] \in freeMsgs
    /\ current \in Thread \ {t}
    /\ stale' = stale \cup {t}
    /\ UNCHANGED <<schedVars, nextId, table, queue, waiters, content, freePorts, freeMsgs,
                   pc, port, msg, inbox>>

\* When no message is left, the port structure is freed, and the call returns.
Destroy(t) ==
    /\ At(t, "destroy")
    /\ freePorts' = freePorts \cup {port[t]}
    /\ Return(t)
    /\ UNCHANGED <<state, ready, current, nextId, table, queue, waiters, content,
                   freeMsgs, inbox, stale>>

-----------------------------------------------------------------------------
\* The rest of a system call, once user mode has made it.
Continue(t) ==
    \/ Insert(t) \/ Recheck(t) \/ Copy(t) \/ Release(t)
    \/ FreeMessage(t) \/ Follow(t) \/ Destroy(t)
Call(t) == Create(t) \/ ThreadSend(t) \/ Receive(t) \/ Delete(t)

Tick == ~ Stray /\ Preempt /\ UNCHANGED portVars
GoOn(t) == ~ Stray /\ Continue(t)
End == Stray /\ UNCHANGED vars
Next ==
    \/ Tick \/ End
    \/ ~ Stray /\ IrqSend
    \/ \E t \in Thread : GoOn(t) \/ (~ Stray /\ (Call(t) \/ Recycle(t)))

\* The timer keeps ticking, and a thread the CPU runs inside a call goes on
\* with it; nothing obliges user mode to make a call.
Fairness ==
    /\ WF_vars(Tick)
    /\ \A t \in Thread : WF_vars(GoOn(t))

Spec == Init /\ [][Next]_vars
FairSpec == Spec /\ Fairness

-----------------------------------------------------------------------------
(* Properties *)

\* Each thread is in exactly one place: on the CPU, in the ready queue, or among
\* the waiters of the one port it is receiving from, unless that port was deleted.
\* The queues share the one link of struct thread, so anything else would corrupt two
\* lists.
ThreadPlacement ==
    /\ Placement
    /\ \A p \in Live :
         /\ IsInjective(waiters[p])
         /\ \A t \in ToSet(waiters[p]) : state[t] = "SLEEPING" /\ t \in WaitingOn(p) \ stale
    /\ \A t \in Thread : state[t] = "SLEEPING" =>
         /\ pc[t] = "wait"
         /\ t \in stale \/ t \in ToSet(waiters[port[t]])

\* The receivers of p that were woken and have not looked again yet.
Woken(p) == {t \in WaitingOn(p) \ stale : state[t] # "SLEEPING"}

\* The wake-ups on their way suffice for the messages queued: while a thread
\* sleeps on a port, each message queued there has a woken receiver of its own.
NoLostWakeup ==
    \A p \in Live :
      waiters[p] # <<>> => Len(queue[p]) <= Cardinality(Woken(p))

\* The threads that are creating or deleting port structure p.
Making(p) == {t \in Thread : pc[t] = "insert" /\ port[t] = p}
Deleting(p) == {t \in Thread : pc[t] \in {"free", "next", "destroy"} /\ port[t] = p}

\* A port structure is free, in the table under one identifier, or in the hands
\* of the one thread that is creating or deleting it.
PortOwnership ==
    LET Held(p) == Making(p) \cup Deleting(p)
    IN  /\ \A i, j \in OpenId : table[i] = table[j] => i = j
        /\ \A p \in PortSlot : /\ p \in freePorts <=> p \notin Live /\ Held(p) = {}
                               /\ p \in Live => Held(p) = {}
                               /\ \A t, u \in Held(p) : t = u

\* A message structure is free, or queued once on a port that is open or whose
\* deletion has not come to it, or held by the one thread that received it or is
\* about to free it with its port: none leaks, and none is freed or delivered twice,
\* as long as no deletion reads the link of a message that was given away again.
MessageOwnership ==
    LET Used == {p \in PortSlot : p \in Live \/ Deleting(p) # {}}
        In(m) == {p \in Used : m \in ToSet(queue[p])}
        Held(m) == {t \in Thread : pc[t] \in {"copy", "release", "free"} /\ msg[t] = m}
    IN  /\ \A p \in Used : IsInjective(queue[p])
        /\ \A m \in MsgSlot : /\ m \in freeMsgs <=> In(m) = {} /\ Held(m) = {}
                              /\ In(m) # {} => Held(m) = {}
                              /\ \A p, q \in In(m) : p = q
                              /\ \A t, u \in Held(m) : t = u

\* Round robin starves nobody: a ready thread gets the CPU, however the others
\* use theirs.
ReadyRuns == \A t \in Thread : state[t] = "READY" ~> current = t \/ Stray

-----------------------------------------------------------------------------
\* What a port promises, in terms of identifiers and messages.  Threads already
\* inside the call when nextId reaches MaxPorts still get an identifier each.
PortId == 0 .. MaxPorts + Cardinality(Thread) - 1
IdOf(p) == CHOOSE i \in OpenId : table[i] = p

\* The channel an identifier is, where a thread waits, and what it has received.
StatusOf(i) == IF i \in OpenId THEN "open" ELSE IF i < nextId THEN "closed" ELSE "unused"
PendingOf(i) ==
    IF i \notin OpenId THEN <<>>
    ELSE [k \in DOMAIN queue[table[i]] |-> content[queue[table[i]][k]]]
WaitingOf(t) ==
    IF pc[t] # "wait" THEN NoPort ELSE IF t \in stale THEN Never ELSE IdOf(port[t])
InboxOf(t) == IF pc[t] = "copy" THEN content[msg[t]] ELSE inbox[t]

Promise == INSTANCE Channel WITH
    Id <- PortId,
    NoId <- NoPort,
    status <- [i \in PortId |-> StatusOf(i)],
    pending <- [i \in PortId |-> PendingOf(i)],
    waiting <- [t \in Thread |-> WaitingOf(t)],
    inbox <- [t \in Thread |-> InboxOf(t)]

\* Ports implement the channel: messages arrive whole, once, in the order they were
\* sent, and a waiting receiver gets one, unless the kernel strays.
ImplementsChannel == Promise!Safe /\ (<>Stray \/ Promise!Live)
=============================================================================
