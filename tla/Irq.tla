--------------------------------- MODULE Irq ---------------------------------
(***************************************************************************)
(* Hardware interrupts: the two cascaded interrupt controllers             *)
(* (kernel/platform/pc/src/pic.c), their dispatch to the scheduler and to  *)
(* servers (kernel/src/cpu/irq.c), and the servers, which end the          *)
(* interrupts they were told of.                                           *)
(*                                                                         *)
(* A controller serves a line until it is told that the interrupt ended.   *)
(* The kernel's order to end names no line: the controller ends the most   *)
(* urgent of the lines it is serving, whoever the order was meant for.     *)
(*                                                                         *)
(* A handler runs with interrupts disabled, so it is one step.             *)
(***************************************************************************)
EXTENDS Integers, FiniteSets, Sequences

CONSTANTS
    Line,      \* the interrupt lines in use, without the cascade
    Port,      \* the ports of the servers
    NoLine,    \* what a server is working on when it waits for a message
    MaxRaise,  \* bound: how often a line is raised, in all
    MaxYield,  \* bound: how often a thread yields
    MaxLost,   \* bound: how many messages cannot be sent
    MaxNoise   \* bound: how many requests vanish before they are answered

Cascade == 2 \* PIC_CASCADE_IR
Master == 0 .. 7
Slave == 8 .. 15
Timer == 0

ASSUME IrqAssumption ==
    /\ Line \subseteq (Master \cup Slave) \ {Cascade}
    /\ Timer \in Line
    /\ NoLine \notin Master \cup Slave

VARIABLES
    target,    \* s_irq_table: "NONE", "KERNEL" or "SERVER" for each line
    server,    \* the port in the slot of a server's line
    enabled,   \* the lines that are not masked (s_master_mask, s_slave_mask)
    requested, \* the requests the controllers have latched (IRR)
    serving,   \* the lines they are serving (ISR), the cascade too
    queue,     \* the messages at each port, one line each
    working,   \* the line each server is working on
    told,      \* the servers whose order to end has reached the slave, and not yet
               \* the master
    panicked,  \* there was no handler for an interrupt
    raised,    \* how often a line was raised
    yields,    \* how often a thread yielded
    lost,      \* messages about an interrupt that could not be sent
    noise,     \* requests that vanished, at the master and at the slave
    disturbed  \* a line was ended by an order meant for another, or an
               \* interrupt was handled that no line requested

vars == <<target, server, enabled, requested, serving, queue, working, told, panicked,
          raised, yields, lost, noise, disturbed>>

TypeOK ==
    /\ target \in [Line -> {"NONE", "KERNEL", "SERVER"}]
    /\ server \in [Line -> Port \cup {NoLine}]
    /\ enabled \subseteq Line \cup {Cascade}
    /\ requested \subseteq Line
    /\ serving \subseteq Line \cup {Cascade}
    /\ queue \in [Port -> Seq(Line)]
    /\ working \in [Port -> Line \cup {NoLine}]
    /\ told \subseteq Port
    /\ panicked \in BOOLEAN /\ disturbed \in BOOLEAN
    /\ raised \in Nat /\ yields \in Nat /\ lost \in Nat
    /\ noise \in [{"master", "slave"} -> Nat]

\* irq_register by sched_arch_init: the scheduler has the timer.
BootTarget == [l \in Line |-> IF l = Timer THEN "KERNEL" ELSE "NONE"]
\* pic_remap masks every line but the cascade; the timer was unmasked for its handler.
BootEnabled == {Cascade, Timer}

Init ==
    /\ target = BootTarget
    /\ server = [l \in Line |-> NoLine]
    /\ enabled = BootEnabled
    /\ requested = {}
    /\ serving = {}
    /\ queue = [p \in Port |-> <<>>]
    /\ working = [p \in Port |-> NoLine]
    /\ told = {}
    /\ panicked = FALSE
    /\ raised = 0 /\ yields = 0 /\ lost = 0
    /\ noise = [c \in {"master", "slave"} |-> 0]
    /\ disturbed = FALSE

-----------------------------------------------------------------------------
(* The controllers *)

\* The most urgent of these lines of one controller, as a set; none of none.
Top(lines) == {l \in lines : \A k \in lines : l <= k}

\* The requests a controller passes on: not masked, and more urgent than all it
\* is serving.
Passed(lines, busy) == {l \in lines \cap enabled : \A s \in busy : l < s}
SlavePasses == Passed(requested \cap Slave, serving \cap Slave)
MasterPasses ==
    Passed((requested \cap Master) \cup (IF SlavePasses # {} THEN {Cascade} ELSE {}),
           serving \cap Master)

\* The order to end at one controller: the most urgent line it is serving.
EndedAt(controller) == Top(serving \cap controller)

\* The lines it is meant for.
Meant(l) == IF l \in Slave THEN {Cascade, l} ELSE {l}

-----------------------------------------------------------------------------
(* Dispatch *)

\* Mutant: the mask is read the wrong way round.
SpuriousInverted(l, busy) == l \in enabled /\ l \notin busy

\* arch_irq_handler: an interrupt from a masked line that the controller is not
\* serving is none.
Spurious(l, busy) == l \notin enabled /\ l \notin busy

\* Mutant: the end of every interrupt is ordered here, a server's too.
HandleEndsAll(l, busy) ==
    /\ target[l] # "NONE"
    /\ serving' = busy \ (Top(busy \cap Master) \cup Top(busy \cap Slave))
    /\ queue' = IF target[l] = "KERNEL" THEN queue
                ELSE [queue EXCEPT ![server[l]] = Append(@, l)]
    /\ UNCHANGED <<lost, panicked>>

\* Mutant: sched_irq switches threads and leaves the end to irq_handle, to which it
\* does not return.
HandleNoEnd(l, busy) ==
    /\ target[l] # "NONE"
    /\ serving' = busy
    /\ queue' = IF target[l] = "KERNEL" THEN queue
                ELSE [queue EXCEPT ![server[l]] = Append(@, l)]
    /\ UNCHANGED <<lost, panicked>>

\* irq_handle(l), while the controllers serve the lines of busy: sched_irq orders
\* the end of a timer interrupt before it switches threads; a server is sent a
\* message, unless its port or the memory for the message is missing.
Handle(l, busy) ==
    CASE target[l] = "KERNEL" ->
           /\ serving' = busy \ Top(busy \cap Master)
           /\ UNCHANGED <<queue, lost, panicked>>
      [] target[l] = "SERVER" ->
           /\ serving' = busy
           /\ \/ queue' = [queue EXCEPT ![server[l]] = Append(@, l)] /\ UNCHANGED lost
              \/ lost < MaxLost /\ lost' = lost + 1 /\ UNCHANGED queue
           /\ UNCHANGED panicked
      [] target[l] = "NONE" ->
           /\ panicked' = TRUE
           /\ serving' = busy
           /\ UNCHANGED <<queue, lost>>

\* A device, or the timer, raises its line.
Raise(l) ==
    /\ raised < MaxRaise
    /\ l \notin requested
    /\ requested' = requested \cup {l}
    /\ raised' = raised + 1
    /\ UNCHANGED <<target, server, enabled, serving, queue, working, told, panicked,
                   yields, lost, noise, disturbed>>

\* The processor takes the most urgent request; a slave's line is served by both
\* controllers.
Interrupt(l) ==
    /\ \/ l \in Top(MasterPasses) \ {Cascade}
       \/ Cascade \in Top(MasterPasses) /\ l \in Top(SlavePasses)
    /\ requested' = requested \ {l}
    /\ Handle(l, serving \cup Meant(l))
    /\ UNCHANGED <<target, server, enabled, working, told, raised, yields, noise, disturbed>>

\* A request has vanished when the processor asks for the line: the controller
\* answers with its last one and serves nothing; if it is the slave, the master
\* serves the cascade.
Vanish(c, l) ==
    LET busy == IF c = "slave" THEN serving \cup {Cascade} ELSE serving
    IN  /\ <<c, l>> \in {<<"master", 7>>, <<"slave", 15>>} /\ l \in Line
        /\ c = "slave" => \A s \in serving \cap Master : Cascade < s
        /\ noise["master"] + noise["slave"] < MaxNoise
        /\ noise' = [noise EXCEPT ![c] = @ + 1]
        /\ IF Spurious(l, busy)
           THEN serving' = busy /\ UNCHANGED <<queue, lost, panicked, disturbed>>
           ELSE Handle(l, busy) /\ disturbed' = TRUE
        /\ UNCHANGED <<target, server, enabled, requested, working, told, raised, yields>>

\* sched_yield enters sched_irq without an interrupt: its order to end is meant
\* for nobody.
Yield ==
    /\ yields < MaxYield
    /\ yields' = yields + 1
    /\ serving' = serving \ EndedAt(Master)
    /\ disturbed' = (disturbed \/ EndedAt(Master) # {})
    /\ UNCHANGED <<target, server, enabled, requested, queue, working, told, panicked,
                   raised, lost, noise>>

-----------------------------------------------------------------------------
(* Servers *)

\* pic_enable_irq.
Unmasked(l) == enabled \cup {l}

\* sys_irq_register: if the slot is free, the server has it, and the line is
\* unmasked.
Register(p, l) ==
    /\ target[l] = "NONE"
    /\ target' = [target EXCEPT ![l] = "SERVER"]
    /\ server' = [server EXCEPT ![l] = p]
    /\ enabled' = Unmasked(l)
    /\ UNCHANGED <<requested, serving, queue, working, told, panicked, raised, yields,
                   lost, noise, disturbed>>

\* The server receives a message about an interrupt ...
Receive(p) ==
    /\ working[p] = NoLine /\ queue[p] # <<>>
    /\ working' = [working EXCEPT ![p] = Head(queue[p])]
    /\ queue' = [queue EXCEPT ![p] = Tail(@)]
    /\ UNCHANGED <<target, server, enabled, requested, serving, told, panicked, raised,
                   yields, lost, noise, disturbed>>

\* ... and when it has handled it, it calls sys_irq_finished.  Interrupts are on
\* between the orders of pic_send_eoi to the slave ...
FinishSlave(p) ==
    /\ working[p] \in Slave /\ p \notin told
    /\ serving' = serving \ EndedAt(Slave)
    /\ disturbed' = (disturbed \/ ~(EndedAt(Slave) \subseteq {working[p]}))
    /\ told' = told \cup {p}
    /\ UNCHANGED <<target, server, enabled, requested, queue, working, panicked,
                   raised, yields, lost, noise>>

\* Mutant: an interrupt of the slave is not ended at the master.
FinishOneController(p) ==
    /\ working[p] \in Master \/ p \in told
    /\ serving' = IF p \in told THEN serving ELSE serving \ EndedAt(Master)
    /\ working' = [working EXCEPT ![p] = NoLine]
    /\ told' = told \ {p}
    /\ UNCHANGED <<target, server, enabled, requested, queue, panicked, raised,
                   yields, lost, noise, disturbed>>

\* ... and to the master.
Finish(p) ==
    /\ working[p] \in Master \/ p \in told
    /\ serving' = serving \ EndedAt(Master)
    /\ disturbed' = (disturbed \/ ~(EndedAt(Master) \subseteq Meant(working[p])))
    /\ working' = [working EXCEPT ![p] = NoLine]
    /\ told' = told \ {p}
    /\ UNCHANGED <<target, server, enabled, requested, queue, panicked, raised,
                   yields, lost, noise>>

Next ==
    \/ \E l \in Line : Raise(l) \/ Interrupt(l)
    \/ \E c \in {"master", "slave"}, l \in Line : Vanish(c, l)
    \/ Yield
    \/ \E p \in Port : Receive(p) \/ FinishSlave(p) \/ Finish(p) \/ \E l \in Line : Register(p, l)

\* The hardware delivers what is requested, and servers go on with their messages.
Fairness ==
    /\ \A l \in Line : WF_vars(Interrupt(l))
    /\ \A p \in Port : WF_vars(Receive(p) \/ FinishSlave(p) \/ Finish(p))

Spec == Init /\ [][Next]_vars
FairSpec == Spec /\ Fairness

-----------------------------------------------------------------------------
(* Properties *)

\* The interrupts of these lines that servers know of and have not finished: the
\* places of their messages in the queues, 0 for the one being worked on.
Unfinished(lines) ==
    UNION {{p} \X ({i \in DOMAIN queue[p] : queue[p][i] \in lines}
                     \cup (IF working[p] \in lines THEN {0} ELSE {})) : p \in Port}

\* However the orders to end are confused with each other, they suffice: for each
\* line a controller is serving there is a server that will yet order an end at that
\* controller, except for the messages that could not be sent and, at the master,
\* the slave's vanished requests, which nobody ever ends.
EndsSuffice ==
    /\ Cardinality(serving \cap Master)
         <= Cardinality(Unfinished(Line)) + lost + noise["slave"]
    /\ Cardinality(serving \cap Slave)
         <= Cardinality(Unfinished(Slave) \ (told \X {0})) + lost

\* A server is told of an interrupt once, and of the next one of that line only
\* after it finished, unless a line was ended out of turn.
FinishedFirst ==
    ~disturbed =>
      /\ \A l \in Line : \A x, y \in Unfinished({l}) : x = y
      /\ \A p \in Port : {queue[p][i] : i \in DOMAIN queue[p]} \subseteq serving
      /\ \A p \in Port : working[p] # NoLine =>
           IF p \in told THEN Cascade \in serving ELSE Meant(working[p]) \subseteq serving

\* A line without a handler never interrupts: what the controller passes on from
\* it, and an interrupt that no line requested, are dropped and do not reach the
\* panic of irq_handle.
NeverPanics == ~panicked

\* A request from an enabled line is delivered in the end, unless an interrupt
\* that nobody will end blocks it.
Delivered ==
    \A l \in Line : l \in requested /\ l \in enabled ~>
                      l \notin requested \/ lost > 0 \/ noise["slave"] > 0
=============================================================================
