----------------------------- MODULE DriverProofs -----------------------------
(***************************************************************************)
(* Invariance proofs for Irq and Devices, which have no state in common.   *)
(*                                                                         *)
(* irq_handle never panics: only a line with a handler is unmasked, a      *)
(* controller passes on and serves unmasked lines only, and what is        *)
(* neither is dropped before it gets there (IInv).  A server is told of an *)
(* interrupt once (TInv).  The orders to end that are still due are as     *)
(* many as the lines in service, whichever lines they end (EInv).          *)
(*                                                                         *)
(* A client of a device waits for one answer at most.  The messages that   *)
(* ask for an answer on a port, the answers on it, and the places of the   *)
(* port in the lists of the manager and the drivers are counted together   *)
(* (CountsIn); each action leaves the sum of every port as it is, but for  *)
(* the client that asks or takes its answer (OnceInv).                     *)
(*                                                                         *)
(* The keyboard's reader has the keys in the order they were typed: what   *)
(* it has read, what was handed to it, the driver's buffer and the         *)
(* controller's key are together what was typed (Keys).  Clients are led   *)
(* to devices of the type they look for (Suiting); regions and the         *)
(* keyboard have one user each (Connected); requests come from those who   *)
(* opened the device, and on their ports are answers to requests only      *)
(* (Proper); one notice of the interrupt at most is on its way, and only   *)
(* while a key is there (Irqs).  A step that is not Quiet moves one key    *)
(* (MovesKey).                                                             *)
(***************************************************************************)
EXTENDS Irq, Devices, ListProofs

-----------------------------------------------------------------------------
(* Interrupts *)

Handlers == {"NONE", "KERNEL", "SERVER"}

\* A line is unmasked exactly when its slot has a handler.
MaskedUnhandled ==
    /\ target \in [Line -> Handlers]
    /\ Cascade \in enabled
    /\ \A l \in Line : l \in enabled <=> target[l] # "NONE"

\* The inductive invariant: masked lines are not in service either.
IInv == MaskedUnhandled /\ serving \subseteq enabled /\ NeverPanics

-----------------------------------------------------------------------------
\* Lines are masked until there is a handler.
LEMMA InitInvariant == Init => IInv
<1> SUFFICES ASSUME Init PROVE IInv
    OBVIOUS
<1>1. MaskedUnhandled
    BY IrqAssumption DEF Init, BootTarget, BootEnabled, MaskedUnhandled, Handlers, Cascade, Timer
<1>2. serving \subseteq enabled /\ NeverPanics
    BY DEF Init, NeverPanics
<1> QED BY <1>1, <1>2 DEF IInv

\* Whatever irq_handle does for a line with a handler, nothing new is in service.
LEMMA HandleSafe ==
    ASSUME IInv, NEW l \in Line, NEW busy, busy \subseteq enabled, l \in enabled,
           Handle(l, busy)
    PROVE  serving' \subseteq enabled /\ panicked' = panicked
<1>1. target[l] \in {"KERNEL", "SERVER"}
    BY DEF IInv, MaskedUnhandled, Handlers
<1>2. CASE target[l] = "KERNEL"
    BY <1>2 DEF Handle
<1>3. CASE target[l] = "SERVER"
    BY <1>3 DEF Handle
<1> QED BY <1>1, <1>2, <1>3

\* Masks and slots change together or not at all.
LEMMA SlotsKept ==
    ASSUME IInv, UNCHANGED <<target, enabled>>, serving' \subseteq enabled,
           panicked' = panicked
    PROVE  IInv'
BY DEF IInv, MaskedUnhandled, NeverPanics

\* irq_register, the dispatch and the orders to end keep that.
LEMMA StepInvariant == IInv /\ [Next]_vars => IInv'
<1> SUFFICES ASSUME IInv, [Next]_vars PROVE IInv'
    OBVIOUS
<1> USE DEF IInv
<1>1. CASE UNCHANGED vars
    BY <1>1, SlotsKept DEF vars
<1>2. ASSUME NEW l \in Line, Raise(l) PROVE IInv'
    BY <1>2, SlotsKept DEF Raise
<1>3. ASSUME NEW l \in Line, Interrupt(l) PROVE IInv'
  <2>1. l \in enabled
      BY <1>3 DEF Interrupt, Top, MasterPasses, SlavePasses, Passed
  <2>2. serving \cup Meant(l) \subseteq enabled
      BY <2>1 DEF Meant, MaskedUnhandled
  <2>3. Handle(l, serving \cup Meant(l)) /\ UNCHANGED <<target, enabled>>
      BY <1>3 DEF Interrupt
  <2> QED BY <2>1, <2>2, <2>3, HandleSafe, SlotsKept
<1>4. ASSUME NEW c \in {"master", "slave"}, NEW l \in Line, Vanish(c, l) PROVE IInv'
  <2> DEFINE busy == IF c = "slave" THEN serving \cup {Cascade} ELSE serving
  <2>1. busy \subseteq enabled
      BY DEF MaskedUnhandled
  <2>2. UNCHANGED <<target, enabled>>
      BY <1>4 DEF Vanish
  <2>3. CASE Spurious(l, busy)
    <3>1. serving' = busy /\ panicked' = panicked
        BY <1>4, <2>3 DEF Vanish
    <3> QED BY <2>1, <2>2, <3>1, SlotsKept
  <2>4. CASE ~Spurious(l, busy)
    <3>1. Handle(l, busy)
        BY <1>4, <2>4 DEF Vanish
    <3>2. l \in enabled
        BY <2>1, <2>4 DEF Spurious
    <3> HIDE DEF busy
    <3> QED BY <2>1, <2>2, <3>1, <3>2, HandleSafe, SlotsKept
  <2> QED BY <2>3, <2>4
<1>5. CASE Yield
    BY <1>5, SlotsKept DEF Yield
<1>6. ASSUME NEW p \in Port, NEW l \in Line, Register(p, l) PROVE IInv'
  <2>1. target' = [target EXCEPT ![l] = "SERVER"] /\ enabled' = enabled \cup {l}
      BY <1>6 DEF Register, Unmasked
  <2>2. MaskedUnhandled'
      BY <2>1 DEF MaskedUnhandled, Handlers
  <2> QED BY <1>6, <2>1, <2>2 DEF Register, NeverPanics
<1>7. ASSUME NEW p \in Port, Receive(p) PROVE IInv'
    BY <1>7, SlotsKept DEF Receive
<1>8. ASSUME NEW p \in Port, FinishSlave(p) PROVE IInv'
    BY <1>8, SlotsKept DEF FinishSlave
<1>9. ASSUME NEW p \in Port, Finish(p) PROVE IInv'
    BY <1>9, SlotsKept DEF Finish
<1> QED BY <1>1, <1>2, <1>3, <1>4, <1>5, <1>6, <1>7, <1>8, <1>9 DEF Next

-----------------------------------------------------------------------------
\* No interrupt reaches the panic of irq_handle: the test of arch_irq_handler for a
\* masked line that is not in service is all that is needed, however the
\* orders to end were confused.
THEOREM PanicNever == Spec => []NeverPanics
<1>1. IInv => NeverPanics
    BY DEF IInv
<1> QED BY <1>1, InitInvariant, StepInvariant, PTL DEF Spec
-----------------------------------------------------------------------------
(* A server is told of each interrupt once.  As long as no line was ended  *)
(* out of turn, what a server knows of is in service, and the slave's line *)
(* keeps the cascade in service until its server has ordered both ends: no *)
(* request for such a line, or for another of the slave, gets through.     *)

\* What the steps keep whatever the orders to end hit.
SlotsTyped ==
    /\ queue \in [Port -> Seq(Line)]
    /\ working \in [Port -> Line \cup {NoLine}]
    /\ target \in [Line -> Handlers]
    /\ server \in [Line -> Port \cup {NoLine}]
    /\ disturbed \in BOOLEAN
    /\ \A l \in Line : target[l] = "KERNEL" => l = Timer
    /\ \A l \in Line : target[l] = "SERVER" => server[l] \in Port
    /\ \A p \in told : p \in Port /\ working[p] \in Slave

\* Server p was told of an interrupt of line l and has not finished it.
Knows(p, l) == l \in ToSet(queue[p]) \/ working[p] = l

ToldOnce ==
    /\ \A p \in Port : IsInjective(queue[p]) /\ working[p] \notin ToSet(queue[p])
    /\ \A p, q \in Port : \A l \in Line : Knows(p, l) /\ Knows(q, l) => p = q
    /\ \A p, q \in Port : \A l, k \in Line \cap Slave : Knows(p, l) /\ Knows(q, k) => l = k

InService ==
    /\ \A p \in Port : \A l \in ToSet(queue[p]) : Meant(l) \subseteq serving
    /\ \A p \in Port : working[p] # NoLine =>
         IF p \in told THEN Cascade \in serving ELSE Meant(working[p]) \subseteq serving

\* The inductive invariant.
TInv == SlotsTyped /\ (~disturbed => ToldOnce /\ InService)

\* The two controllers share no line, and the cascade and no line are none of a device.
LEMMA Controllers ==
    /\ Master \cap Slave = {} /\ Cascade \in Master /\ Cascade \notin Slave
    /\ Cascade \notin Line /\ NoLine \notin Line \cup Master \cup Slave /\ Timer \in Line /\ Timer \in Master
    /\ \A l \in Line : l \in Master \cup Slave
    /\ \A l : l \in Meant(l)
    /\ \A l \in Slave : Meant(l) = {Cascade, l}
    /\ \A l \in Master : Meant(l) = {l}
<1>1. Master \cap Slave = {} /\ Cascade \in Master /\ Cascade \notin Slave /\ Timer \in Master
    BY DEF Master, Slave, Cascade, Timer
<1>2. \A l \in Line : l \in Master \cup Slave /\ l # Cascade
    BY IrqAssumption
<1>3. /\ \A l : l \in Meant(l)
      /\ \A l \in Slave : Meant(l) = {Cascade, l}
      /\ \A l \in Master : Meant(l) = {l}
    BY <1>1 DEF Meant
<1> QED BY <1>1, <1>2, <1>3, IrqAssumption

\* Who is told of a line finishes it before it is told again.
LEMMA TInvGivesFinishedFirst == TInv => FinishedFirst
<1> SUFFICES ASSUME TInv, ~disturbed PROVE FinishedFirst
    BY DEF FinishedFirst
<1>1. SlotsTyped /\ ToldOnce /\ InService
    BY DEF TInv
<1>2. ASSUME NEW l \in Line, NEW x \in Unfinished({l}), NEW y \in Unfinished({l})
      PROVE  x = y
  <2>1. PICK p \in Port : x \in {p} \X ({i \in DOMAIN queue[p] : queue[p][i] \in {l}}
                                        \cup (IF working[p] \in {l} THEN {0} ELSE {}))
      BY DEF Unfinished
  <2>2. PICK q \in Port : y \in {q} \X ({i \in DOMAIN queue[q] : queue[q][i] \in {l}}
                                        \cup (IF working[q] \in {l} THEN {0} ELSE {}))
      BY DEF Unfinished
  <2>3. PICK i : /\ x = <<p, i>>
                 /\ \/ i \in DOMAIN queue[p] /\ queue[p][i] = l
                    \/ i = 0 /\ working[p] = l
      BY <2>1
  <2>4. PICK j : /\ y = <<q, j>>
                 /\ \/ j \in DOMAIN queue[q] /\ queue[q][j] = l
                    \/ j = 0 /\ working[q] = l
      BY <2>2
  <2>5. Knows(p, l) /\ Knows(q, l)
      BY <2>3, <2>4 DEF Knows, ToSet
  <2>6. p = q
      BY <1>1, <2>5 DEF ToldOnce
  <2>7. i = j
      BY <1>1, <2>3, <2>4, <2>6 DEF ToldOnce, IsInjective, ToSet
  <2> QED BY <2>3, <2>4, <2>6, <2>7
<1>3. \A p \in Port : {queue[p][i] : i \in DOMAIN queue[p]} \subseteq serving
    BY <1>1, Controllers DEF InService, ToSet
<1> QED BY <1>1, <1>2, <1>3 DEF FinishedFirst, InService

\* Steps of the hardware that tell no server anything.
LEMMA KnownKept ==
    ASSUME ToldOnce, InService, UNCHANGED <<queue, working, told>>, serving \subseteq serving'
    PROVE  ToldOnce' /\ InService'
BY DEF ToldOnce, InService, Knows, Meant

\* A line that is not in service, nor its cascade, is one that no server knows of.
LEMMA FreshLine ==
    ASSUME SlotsTyped, InService, NEW l \in Line, Meant(l) \cap serving = {}
    PROVE  \A p \in Port : /\ ~Knows(p, l)
                           /\ l \in Slave => \A k \in Line \cap Slave : ~Knows(p, k)
<1> SUFFICES ASSUME NEW p \in Port, NEW k \in Line, Knows(p, k), k = l \/ (l \in Slave /\ k \in Slave)
             PROVE  FALSE
    OBVIOUS
<1>1. CASE k \in ToSet(queue[p])
  <2>1. Meant(k) \subseteq serving
      BY <1>1 DEF InService
  <2> QED BY <2>1, Controllers
<1>2. CASE working[p] = k
  <2>1. k # NoLine
      BY Controllers
  <2>2. CASE p \in told
    <3>1. Cascade \in serving /\ k \in Slave
        BY <1>2, <2>1, <2>2 DEF InService, SlotsTyped
    <3> QED BY <3>1, Controllers
  <2>3. CASE p \notin told
    <3>1. Meant(k) \subseteq serving
        BY <1>2, <2>1, <2>3 DEF InService
    <3> QED BY <3>1, Controllers
  <2> QED BY <2>2, <2>3
<1> QED BY <1>1, <1>2 DEF Knows

\* What the processor takes is not in service.
LEMMA PassedFresh ==
    ASSUME NEW l \in Line, Interrupt(l)
    PROVE  Meant(l) \cap serving = {}
<1>1. CASE l \in Top(MasterPasses) \ {Cascade}
  <2>1. l \in Master /\ \A s \in serving \cap Master : l < s
      BY <1>1, Controllers DEF Top, MasterPasses, Passed
  <2>2. l \notin serving
      BY <2>1 DEF Master
  <2> QED BY <2>1, <2>2, Controllers
<1>2. CASE Cascade \in Top(MasterPasses) /\ l \in Top(SlavePasses)
  <2>1. /\ \A s \in serving \cap Master : Cascade < s
        /\ l \in Slave /\ \A s \in serving \cap Slave : l < s
      BY <1>2 DEF Top, MasterPasses, SlavePasses, Passed
  <2>2. Cascade \notin serving /\ l \notin serving
      BY <2>1, Controllers DEF Slave, Cascade
  <2> QED BY <2>1, <2>2, Controllers
<1> QED BY <1>1, <1>2 DEF Interrupt

\* The slots keep their types whatever irq_handle does.
LEMMA HandleTyped ==
    ASSUME SlotsTyped, NEW l \in Line, NEW busy, Handle(l, busy)
    PROVE  queue' \in [Port -> Seq(Line)]
<1>1. CASE target[l] = "KERNEL"
    BY <1>1 DEF Handle, SlotsTyped
<1>2. CASE target[l] = "SERVER"
  <2>1. server[l] \in Port /\ queue[server[l]] \in Seq(Line)
      BY <1>2 DEF SlotsTyped
  <2>2. Append(queue[server[l]], l) \in Seq(Line)
      BY <2>1, AppendElements
  <2> QED BY <1>2, <2>1, <2>2 DEF Handle, SlotsTyped
<1>3. CASE target[l] = "NONE"
    BY <1>3 DEF Handle, SlotsTyped
<1> QED BY <1>1, <1>2, <1>3 DEF SlotsTyped, Handlers

\* An interrupt of a line no server knows of: the kernel ends its own, a server is
\* told.
LEMMA HandleTells ==
    ASSUME SlotsTyped, ToldOnce, InService, NEW l \in Line, Meant(l) \cap serving = {},
           Handle(l, serving \cup Meant(l)), UNCHANGED <<working, told>>
    PROVE  ToldOnce' /\ InService'
<1>1. CASE target[l] = "KERNEL"
  <2>1. l = Timer /\ queue' = queue /\ serving' = (serving \cup {Timer}) \ Top((serving \cup {Timer}) \cap Master)
      BY <1>1, Controllers DEF Handle, SlotsTyped
  <2>2. Top((serving \cup {Timer}) \cap Master) \subseteq {Timer}
      BY DEF Top, Master, Timer
  <2>3. Timer \notin serving
      BY <2>1, Controllers
  <2> QED BY <2>1, <2>2, <2>3, KnownKept
<1>2. CASE target[l] = "NONE"
  <2>1. queue' = queue /\ serving \subseteq serving'
      BY <1>2 DEF Handle
  <2> QED BY <2>1, KnownKept
<1>3. CASE target[l] = "SERVER" /\ queue' = queue
  <2>1. serving \subseteq serving'
      BY <1>3 DEF Handle
  <2> QED BY <1>3, <2>1, KnownKept
<1>4. CASE target[l] = "SERVER" /\ queue' # queue
  <2>s. PICK s \in Port : s = server[l]
      BY <1>4 DEF SlotsTyped
  <2>1. queue' = [queue EXCEPT ![s] = Append(@, l)] /\ serving' = serving \cup Meant(l)
      BY <1>4, <2>s DEF Handle
  <2>2. queue[s] \in Seq(Line) /\ \A p \in Port : queue[p] \in Seq(Line)
      BY DEF SlotsTyped
  <2>3. \A p \in Port : /\ ~Knows(p, l)
                        /\ l \in Slave => \A k \in Line \cap Slave : ~Knows(p, k)
      BY FreshLine
  <2>4. l \notin ToSet(queue[s])
      BY <2>3 DEF Knows
  <2>5. IsInjective(Append(queue[s], l)) /\ ToSet(Append(queue[s], l)) = ToSet(queue[s]) \cup {l}
      BY <2>2, <2>4, AppendElements, AppendNew DEF ToldOnce
  <2>6. /\ queue'[s] = Append(queue[s], l)
        /\ \A p \in Port : p # s => queue'[p] = queue[p]
      BY <2>1 DEF SlotsTyped
  <2>7. \A p \in Port, k \in Line : Knows(p, k)' <=> Knows(p, k) \/ (p = s /\ k = l)
    <3>1. \A p \in Port : working'[p] = working[p]
        OBVIOUS
    <3>2. \A k : k \in ToSet(queue'[s]) <=> k \in ToSet(queue[s]) \/ k = l
        BY <2>5, <2>6
    <3>3. \A p \in Port : p # s => ToSet(queue'[p]) = ToSet(queue[p])
        BY <2>6
    <3> QED BY <3>1, <3>2, <3>3 DEF Knows
  <2>8. \A p \in Port : IsInjective(queue'[p]) /\ working'[p] \notin ToSet(queue'[p])
      BY <2>3, <2>5, <2>6 DEF ToldOnce, Knows
  <2>9. \A p, q \in Port : \A k \in Line : Knows(p, k)' /\ Knows(q, k)' => p = q
      BY <2>3, <2>7 DEF ToldOnce
  <2>10. \A p, q \in Port : \A j, k \in Line \cap Slave : Knows(p, j)' /\ Knows(q, k)' => j = k
    <3> SUFFICES ASSUME NEW p \in Port, NEW q \in Port, NEW j \in Line \cap Slave,
                        NEW k \in Line \cap Slave, Knows(p, j)', Knows(q, k)'
                 PROVE  j = k
        OBVIOUS
    <3>1. CASE Knows(p, j) /\ Knows(q, k)
        BY <3>1 DEF ToldOnce
    <3>2. CASE ~Knows(p, j)
        BY <2>3, <2>7, <3>2
    <3>3. CASE ~Knows(q, k)
        BY <2>3, <2>7, <3>3
    <3> QED BY <3>1, <3>2, <3>3
  <2>11. \A p \in Port : \A k \in ToSet(queue'[p]) : Meant(k) \subseteq serving'
      BY <2>1, <2>5, <2>6 DEF InService
  <2>12. \A p \in Port : working[p] # NoLine =>
            IF p \in told THEN Cascade \in serving' ELSE Meant(working[p]) \subseteq serving'
      BY <2>1 DEF InService
  <2>13. ToldOnce'
      BY <2>8, <2>9, <2>10 DEF ToldOnce
  <2>14. InService'
      BY <2>11, <2>12 DEF InService, Meant
  <2> QED BY <2>13, <2>14
<1> QED BY <1>1, <1>2, <1>3, <1>4 DEF SlotsTyped, Handlers

\* A server takes its first message.
LEMMA ReceiveTells ==
    ASSUME SlotsTyped, ToldOnce, InService, NEW p \in Port, Receive(p)
    PROVE  ToldOnce' /\ InService'
<1>1. /\ queue[p] # <<>> /\ queue[p] \in Seq(Line) /\ working[p] = NoLine
      /\ serving' = serving /\ told' = told
    BY DEF Receive, SlotsTyped
<1>h. PICK h \in Line : h = Head(queue[p])
    BY <1>1, PopElements
<1>2. /\ queue' = [queue EXCEPT ![p] = Tail(@)] /\ working' = [working EXCEPT ![p] = h]
    BY <1>h DEF Receive
<1>3. /\ h \in ToSet(queue[p]) /\ ToSet(queue[p]) = ToSet(Tail(queue[p])) \cup {h}
      /\ IsInjective(Tail(queue[p])) /\ h \notin ToSet(Tail(queue[p]))
    BY <1>1, <1>h, PopElements, PopOnce DEF ToldOnce
<1>4. /\ queue'[p] = Tail(queue[p]) /\ working'[p] = h
      /\ \A q \in Port : q # p => queue'[q] = queue[q] /\ working'[q] = working[q]
    BY <1>2 DEF SlotsTyped
<1>5. \A q \in Port, k \in Line : Knows(q, k)' <=> Knows(q, k)
    BY <1>1, <1>3, <1>4, Controllers DEF Knows
<1>6. p \notin told
    BY <1>1, Controllers DEF SlotsTyped
<1>7. \A q \in Port : IsInjective(queue'[q]) /\ working'[q] \notin ToSet(queue'[q])
    BY <1>3, <1>4 DEF ToldOnce
<1>8. ToldOnce'
    BY <1>5, <1>7 DEF ToldOnce
<1>9. \A q \in Port : \A l \in ToSet(queue'[q]) : Meant(l) \subseteq serving
    BY <1>3, <1>4 DEF InService
<1>10. \A q \in Port : working'[q] # NoLine =>
          IF q \in told THEN Cascade \in serving ELSE Meant(working'[q]) \subseteq serving
    BY <1>3, <1>4, <1>6 DEF InService
<1>11. InService'
    BY <1>1, <1>9, <1>10 DEF InService, Meant
<1> QED BY <1>8, <1>11

\* An order to the slave ends the line it is meant for, which is the only one of
\* the slave that any server knows of.
LEMMA FinishSlaveTells ==
    ASSUME SlotsTyped, ToldOnce, InService, NEW p \in Port, FinishSlave(p), ~disturbed'
    PROVE  ToldOnce' /\ InService'
<1>1. /\ working[p] \in Slave \cap Line /\ p \notin told /\ queue' = queue /\ working' = working
      /\ told' = told \cup {p} /\ serving' = serving \ EndedAt(Slave)
      /\ EndedAt(Slave) \subseteq {working[p]}
    BY Controllers DEF FinishSlave, SlotsTyped
<1>2. Knows(p, working[p]) /\ working[p] # NoLine
    BY <1>1, Controllers DEF Knows
<1>3. Cascade \in serving /\ Cascade \in serving'
    BY <1>1, <1>2, Controllers DEF InService
<1>4. ToldOnce'
    BY <1>1 DEF ToldOnce, Knows
<1>5. ASSUME NEW q \in Port, NEW l \in ToSet(queue[q]) PROVE Meant(l) \subseteq serving'
  <2>1. l \in Line /\ Knows(q, l) /\ Meant(l) \subseteq serving
      BY <1>5, QueueElements DEF SlotsTyped, Knows, InService
  <2>2. l # working[p]
    <3>1. l = working[p] => q = p
        BY <1>1, <1>2, <2>1 DEF ToldOnce
    <3> QED BY <1>5, <3>1 DEF ToldOnce
  <2>3. l \notin Slave
      BY <1>1, <1>2, <2>1, <2>2 DEF ToldOnce
  <2> QED BY <1>1, <2>1, <2>2, <2>3, Controllers
<1>6. ASSUME NEW q \in Port, working[q] # NoLine
      PROVE  IF q \in told' THEN Cascade \in serving' ELSE Meant(working[q]) \subseteq serving'
  <2>1. CASE q \in told'
      BY <1>3, <2>1
  <2>2. CASE q \notin told'
    <3>1. working[q] \in Line /\ Knows(q, working[q]) /\ q # p /\ Meant(working[q]) \subseteq serving
        BY <1>1, <1>6, <2>2 DEF SlotsTyped, Knows, InService
    <3>2. working[q] # working[p]
        BY <1>2, <3>1 DEF ToldOnce
    <3>3. working[q] \notin Slave
        BY <1>1, <1>2, <3>1, <3>2 DEF ToldOnce
    <3> QED BY <1>1, <2>2, <3>1, <3>2, <3>3, Controllers
  <2> QED BY <2>1, <2>2
<1>7. InService'
    BY <1>1, <1>5, <1>6 DEF InService, Meant
<1> QED BY <1>4, <1>7

\* An order to the master ends the server's own line or its cascade.
LEMMA FinishTells ==
    ASSUME SlotsTyped, ToldOnce, InService, NEW p \in Port, Finish(p), ~disturbed'
    PROVE  ToldOnce' /\ InService'
<1>w. PICK w \in Line : w = working[p]
    BY Controllers DEF Finish, SlotsTyped
<1>1. /\ w \in Master \/ (w \in Slave /\ p \in told)
      /\ queue' = queue /\ working' = [working EXCEPT ![p] = NoLine]
      /\ told' = told \ {p} /\ serving' = serving \ EndedAt(Master)
      /\ EndedAt(Master) \subseteq Meant(w) \cap Master
    BY <1>w DEF Finish, SlotsTyped, EndedAt, Top
<1>2. Knows(p, w)
    BY <1>w DEF Knows
<1>3. /\ working'[p] = NoLine
      /\ \A q \in Port : q # p => working'[q] = working[q]
    BY <1>1 DEF SlotsTyped
<1>4. \A q \in Port : ToSet(queue[q]) \subseteq Line
    BY QueueElements DEF SlotsTyped
<1>5. \A q \in Port, k \in Line : Knows(q, k)' => Knows(q, k)
    BY <1>1, <1>3, Controllers DEF Knows
<1>6. ToldOnce'
  <2>1. \A q \in Port : IsInjective(queue'[q]) /\ working'[q] \notin ToSet(queue'[q])
      BY <1>1, <1>3, <1>4, Controllers DEF ToldOnce
  <2> QED BY <1>5, <2>1 DEF ToldOnce
\* What another interrupt needs in service stays there.
<1>7. ASSUME NEW q \in Port, NEW l \in Line, Knows(q, l), l # w
      PROVE  Meant(l) \cap EndedAt(Master) = {}
  <2>1. w \in Slave => l \notin Slave
      BY <1>2, <1>7 DEF ToldOnce
  <2>2. CASE w \in Master
      BY <1>1, <1>7, <2>2, Controllers
  <2>3. CASE w \in Slave
      BY <1>1, <1>7, <2>1, <2>3, Controllers
  <2> QED BY <2>2, <2>3, Controllers
<1>8. ASSUME NEW q \in Port, NEW l \in ToSet(queue[q]) PROVE Meant(l) \subseteq serving'
  <2>1. l \in Line /\ Knows(q, l) /\ Meant(l) \subseteq serving
      BY <1>4, <1>8 DEF Knows, InService
  <2>2. l # w
    <3>1. l = w => q = p
        BY <1>2, <2>1 DEF ToldOnce
    <3> QED BY <1>8, <1>w, <3>1 DEF ToldOnce
  <2> QED BY <1>1, <1>7, <2>1, <2>2
<1>9. ASSUME NEW q \in Port, working'[q] # NoLine
      PROVE  IF q \in told' THEN Cascade \in serving' ELSE Meant(working'[q]) \subseteq serving'
  <2>1. q # p /\ working'[q] = working[q] /\ (q \in told' <=> q \in told)
      BY <1>1, <1>3, <1>9
  <2>2. working[q] \in Line /\ Knows(q, working[q])
      BY <1>9, <2>1 DEF SlotsTyped, Knows
  <2>3. working[q] # w
      BY <1>2, <2>1, <2>2 DEF ToldOnce
  <2>4. Meant(working[q]) \cap EndedAt(Master) = {}
      BY <1>7, <2>2, <2>3
  <2>5. CASE q \in told
    <3>1. Cascade \in serving /\ working[q] \in Slave
        BY <1>9, <2>1, <2>5 DEF InService, SlotsTyped
    <3> QED BY <1>1, <2>1, <2>4, <2>5, <3>1, Controllers
  <2>6. CASE q \notin told
    <3>1. Meant(working[q]) \subseteq serving
        BY <1>9, <2>1, <2>6 DEF InService
    <3> QED BY <1>1, <2>1, <2>4, <2>6, <3>1
  <2> QED BY <2>5, <2>6
<1>10. InService'
    BY <1>1, <1>8, <1>9 DEF InService, Meant
<1> QED BY <1>6, <1>10

\* Nobody was told of anything at boot.
LEMMA TInvInit == Init => TInv
<1> SUFFICES ASSUME Init PROVE TInv
    OBVIOUS
<1>1. SlotsTyped
  <2>1. target \in [Line -> Handlers] /\ \A l \in Line : target[l] = "KERNEL" => l = Timer
      BY DEF Init, BootTarget, Handlers
  <2>2. \A l \in Line : target[l] # "SERVER"
      BY DEF Init, BootTarget
  <2>3. queue \in [Port -> Seq(Line)]
      BY EmptySeq DEF Init
  <2>4. /\ working \in [Port -> Line \cup {NoLine}] /\ server \in [Line -> Port \cup {NoLine}]
        /\ disturbed \in BOOLEAN /\ told = {}
      BY DEF Init
  <2> QED BY <2>1, <2>2, <2>3, <2>4 DEF SlotsTyped
<1>2. ToldOnce
    BY Controllers, EmptyQueue DEF Init, ToldOnce, Knows
<1>3. InService
    BY EmptyQueue DEF Init, InService
<1> QED BY <1>1, <1>2, <1>3 DEF TInv

\* Telling, receiving and finishing keep that.
LEMMA TInvStep == TInv /\ [Next]_vars => TInv'
<1> SUFFICES ASSUME TInv, [Next]_vars PROVE TInv'
    OBVIOUS
<1>t. SlotsTyped
    BY DEF TInv
\* Steps of the hardware that tell no server anything.
<1>k. ASSUME UNCHANGED <<target, server, queue, working, told>>, disturbed' \in BOOLEAN,
             ~disturbed' => ~disturbed /\ serving \subseteq serving'
      PROVE  TInv'
  <2>1. SlotsTyped'
      BY <1>t, <1>k DEF SlotsTyped
  <2>2. ~disturbed' => ToldOnce' /\ InService'
      BY <1>k, KnownKept DEF TInv
  <2> QED BY <2>1, <2>2 DEF TInv
<1>1. CASE UNCHANGED vars
    BY <1>t, <1>1, <1>k DEF vars, SlotsTyped
<1>2. ASSUME NEW l \in Line, Raise(l) PROVE TInv'
    BY <1>t, <1>2, <1>k DEF Raise, SlotsTyped
<1>3. ASSUME NEW l \in Line, Interrupt(l) PROVE TInv'
  <2>1. /\ Handle(l, serving \cup Meant(l))
        /\ UNCHANGED <<target, server, working, told, disturbed>>
      BY <1>3 DEF Interrupt
  <2>2. SlotsTyped'
      BY <1>t, <2>1, HandleTyped DEF SlotsTyped
  <2>3. ~disturbed' => ToldOnce' /\ InService'
      BY <1>t, <1>3, <2>1, PassedFresh, HandleTells DEF TInv
  <2> QED BY <2>2, <2>3 DEF TInv
<1>4. ASSUME NEW c \in {"master", "slave"}, NEW l \in Line, Vanish(c, l) PROVE TInv'
  <2> DEFINE busy == IF c = "slave" THEN serving \cup {Cascade} ELSE serving
  <2>1. UNCHANGED <<target, server, working, told>>
      BY <1>4 DEF Vanish
  <2>2. CASE Spurious(l, busy)
    <3>1. queue' = queue /\ disturbed' = disturbed /\ serving \subseteq serving'
        BY <1>4, <2>2 DEF Vanish
    <3> QED BY <1>t, <1>k, <2>1, <3>1 DEF SlotsTyped
  <2>3. CASE ~Spurious(l, busy)
    <3>1. Handle(l, busy) /\ disturbed' = TRUE
        BY <1>4, <2>3 DEF Vanish
    <3> HIDE DEF busy
    <3>2. SlotsTyped'
        BY <1>t, <2>1, <3>1, HandleTyped DEF SlotsTyped
    <3> QED BY <3>1, <3>2 DEF TInv
  <2> QED BY <2>2, <2>3
<1>5. CASE Yield
    BY <1>t, <1>5, <1>k DEF Yield, SlotsTyped
<1>6. ASSUME NEW p \in Port, NEW l \in Line, Register(p, l) PROVE TInv'
  <2>1. /\ target' = [target EXCEPT ![l] = "SERVER"] /\ server' = [server EXCEPT ![l] = p]
        /\ UNCHANGED <<queue, working, told, serving, disturbed>>
      BY <1>6 DEF Register
  <2>2. SlotsTyped'
      BY <1>t, <2>1 DEF SlotsTyped, Handlers
  <2>3. ~disturbed' => ToldOnce' /\ InService'
      BY <2>1, KnownKept DEF TInv
  <2> QED BY <2>2, <2>3 DEF TInv
<1>7. ASSUME NEW p \in Port, Receive(p) PROVE TInv'
  <2>1. Head(queue[p]) \in Line /\ Tail(queue[p]) \in Seq(Line)
      BY <1>t, <1>7, PopElements DEF Receive, SlotsTyped
  <2>2. p \notin told
      BY <1>t, <1>7, Controllers DEF Receive, SlotsTyped
  <2>3. SlotsTyped'
      BY <1>t, <1>7, <2>1, <2>2 DEF Receive, SlotsTyped
  <2>4. ~disturbed' => ToldOnce' /\ InService'
      BY <1>t, <1>7, ReceiveTells DEF TInv, Receive
  <2> QED BY <2>3, <2>4 DEF TInv
<1>8. ASSUME NEW p \in Port, FinishSlave(p) PROVE TInv'
  <2>1. SlotsTyped'
      BY <1>t, <1>8 DEF FinishSlave, SlotsTyped
  <2>2. ~disturbed' => ~disturbed
      BY <1>8 DEF FinishSlave
  <2>3. ~disturbed' => ToldOnce' /\ InService'
      BY <1>t, <1>8, <2>2, FinishSlaveTells DEF TInv
  <2> QED BY <2>1, <2>3 DEF TInv
<1>9. ASSUME NEW p \in Port, Finish(p) PROVE TInv'
  <2>1. SlotsTyped'
      BY <1>t, <1>9 DEF Finish, SlotsTyped
  <2>2. ~disturbed' => ~disturbed
      BY <1>9 DEF Finish
  <2>3. ~disturbed' => ToldOnce' /\ InService'
      BY <1>t, <1>9, <2>2, FinishTells DEF TInv
  <2> QED BY <2>1, <2>3 DEF TInv
<1> QED BY <1>1, <1>2, <1>3, <1>4, <1>5, <1>6, <1>7, <1>8, <1>9 DEF Next

\* A server is told of an interrupt once, and of the line's next one only after it
\* finished, unless a line was ended out of turn.
THEOREM TellsOnce == Spec => []FinishedFirst
BY TInvInit, TInvStep, TInvGivesFinishedFirst, PTL DEF Spec

-----------------------------------------------------------------------------
(* The orders to end suffice.  Due: the places of the interrupts of some    *)
(* lines that servers have still to end, but for those being worked on by   *)
(* the servers in ended.                                                    *)

Due(q, w, ended, lines) ==
    {x \in Port \X Nat :
        \/ x[2] \in DOMAIN q[x[1]] /\ q[x[1]][x[2]] \in lines
        \/ x[2] = 0 /\ w[x[1]] \in lines /\ x[1] \notin ended}

DueMaster == Due(queue, working, {}, Line)
DueSlave == Due(queue, working, told, Slave)

\* The inductive invariant.
EInv ==
    /\ IsFiniteSet(DueMaster)
    /\ lost \in Nat /\ noise \in [{"master", "slave"} -> Nat]
    /\ Cardinality(serving \cap Master) <= Cardinality(DueMaster) + lost + noise["slave"]
    /\ Cardinality(serving \cap Slave) <= Cardinality(DueSlave) + lost

\* The orders that are due are those the property counts.
LEMMA DueIsUnfinished ==
    SlotsTyped => /\ Unfinished(Line) = DueMaster
                  /\ Unfinished(Slave) \ (told \X {0}) = DueSlave
<1> SUFFICES ASSUME SlotsTyped PROVE /\ Unfinished(Line) = DueMaster
                                     /\ Unfinished(Slave) \ (told \X {0}) = DueSlave
  OBVIOUS
<1>1. ASSUME NEW lines
      PROVE  \A x : x \in Unfinished(lines) <=>
                \E p \in Port : \E i : /\ x = << p, i >>
                                       /\ \/ i \in DOMAIN queue[p] /\ queue[p][i] \in lines
                                          \/ i = 0 /\ working[p] \in lines
  BY DEF Unfinished
<1>2. \A p \in Port : DOMAIN queue[p] \subseteq Nat \ {0}
  BY DEF SlotsTyped
<1>3. ASSUME NEW lines
      PROVE  Unfinished(lines) = {x \in Port \X Nat :
                \/ x[2] \in DOMAIN queue[x[1]] /\ queue[x[1]][x[2]] \in lines
                \/ x[2] = 0 /\ working[x[1]] \in lines}
  BY <1>1, <1>2
<1>4. Unfinished(Line) = DueMaster
  BY <1>3 DEF DueMaster, Due
<1>5. \A x : x \in Unfinished(Slave) \ (told \X {0}) <=> x \in DueSlave
  BY <1>2, <1>3 DEF DueSlave, Due
<1> QED BY <1>4, <1>5

\* The balance of both controllers says what the property does.
LEMMA EInvSuffices == SlotsTyped /\ EInv => EndsSuffice
BY DueIsUnfinished DEF EInv, EndsSuffice

\* The slave is due orders for what the master is due them, so both are finitely many.
LEMMA DueFinite ==
    ASSUME SlotsTyped, IsFiniteSet(DueMaster)
    PROVE  /\ IsFiniteSet(DueSlave)
           /\ Cardinality(DueMaster) \in Nat /\ Cardinality(DueSlave) \in Nat
<1>1. ASSUME NEW x \in DueSlave PROVE x \in DueMaster
  <2>1. x[1] \in Port /\ queue[x[1]] \in Seq(Line)
    BY DEF DueSlave, Due, SlotsTyped
  <2>2. working[x[1]] \in Slave => working[x[1]] \in Line
    BY <2>1, Controllers DEF SlotsTyped
  <2>3. x[2] \in DOMAIN queue[x[1]] => queue[x[1]][x[2]] \in Line
    BY <2>1
  <2> QED BY <2>2, <2>3 DEF DueSlave, DueMaster, Due
<1> QED BY <1>1, FS_Subset, FS_CardinalityType

\* Controllers serve finitely many lines.
LEMMA ServedFinite ==
    /\ IsFiniteSet(serving \cap Master) /\ IsFiniteSet(serving \cap Slave)
    /\ Cardinality(serving \cap Master) \in Nat /\ Cardinality(serving \cap Slave) \in Nat
<1>1. IsFiniteSet(Master) /\ IsFiniteSet(Slave)
  <2>1. \A a, b \in Int : IsFiniteSet(a .. b)
    BY FS_Interval, Zenon
  <2>2. 0 \in Int /\ 7 \in Int /\ 8 \in Int /\ 15 \in Int
    OBVIOUS
  <2> QED BY <2>1, <2>2, Zenon DEF Master, Slave
<1>2. IsFiniteSet(serving \cap Master) /\ IsFiniteSet(serving \cap Slave)
  BY <1>1, FS_Subset
<1> QED BY <1>2, FS_CardinalityType

\* An order to end one of some lines ends exactly one.
LEMMA EndsOne ==
    ASSUME NEW lines, lines \subseteq Nat, lines # {}, IsFiniteSet(lines)
    PROVE  \E m \in lines : /\ Top(lines) = {m}
                            /\ Cardinality(lines \ Top(lines)) = Cardinality(lines) - 1
<1>1. PICK m \in lines : \A k \in lines : m <= k
  <2>1. lines \in SUBSET Nat
    OBVIOUS
  <2> QED BY <2>1, LeastNatural, Zenon
<1>2. Top(lines) = {m}
  <2>1. \A l \in lines : (\A k \in lines : l <= k) => l = m
    <3> SUFFICES ASSUME NEW l \in lines, l <= m PROVE l = m
      OBVIOUS
    <3>1. l \in Nat /\ m \in Nat /\ m <= l
      BY <1>1
    <3> QED BY <3>1
  <2> QED BY <1>1, <2>1, Zenon DEF Top
<1>3. Cardinality(lines \ {m}) = Cardinality(lines) - 1
  BY FS_RemoveElement
<1> QED BY <1>2, <1>3

\* An order ends one line of its controller, if there is one.
LEMMA EndsAtController ==
    ASSUME NEW lines, NEW rest, rest = serving \ EndedAt(lines), lines \in {Master, Slave}
    PROVE  /\ Cardinality(rest \cap lines) =
                 IF serving \cap lines = {} THEN 0 ELSE Cardinality(serving \cap lines) - 1
           /\ \A other : other \cap lines = {} => rest \cap other = serving \cap other
<1>1. serving \cap lines \subseteq Nat /\ IsFiniteSet(serving \cap lines)
  BY ServedFinite DEF Master, Slave
<1>2. rest \cap lines = (serving \cap lines) \ Top(serving \cap lines)
  BY DEF EndedAt
<1>3. CASE serving \cap lines = {}
  <2>1. rest \cap lines = {}
    BY <1>2, <1>3
  <2> QED BY <1>3, <2>1, FS_EmptySet DEF EndedAt, Top
<1>4. CASE serving \cap lines # {}
  <2>1. PICK m \in serving \cap lines :
            /\ Top(serving \cap lines) = {m}
            /\ Cardinality((serving \cap lines) \ Top(serving \cap lines)) =
                  Cardinality(serving \cap lines) - 1
    BY <1>1, <1>4, EndsOne
  <2>2. \A other : other \cap lines = {} => rest \cap other = serving \cap other
    BY <2>1 DEF EndedAt
  <2> QED BY <1>2, <1>4, <2>1, <2>2
<1> QED BY <1>3, <1>4

\* What a message, its receipt and the end of its interrupt do to Due.
LEMMA DueNew ==
    ASSUME NEW q \in [Port -> Seq(Line)], NEW w, NEW ended, NEW lines, NEW p \in Port
    PROVE  << p, Len(q[p]) + 1 >> \notin Due(q, w, ended, lines)
<1>1. Len(q[p]) + 1 \notin DOMAIN q[p] /\ Len(q[p]) + 1 # 0
  BY LenProperties
<1> QED BY <1>1 DEF Due

\* One notice more is one order more, if it is of the lines counted.
LEMMA DueAppend ==
    ASSUME NEW q \in [Port -> Seq(Line)], NEW w, NEW ended, NEW lines,
           NEW p \in Port, NEW l \in Line,
           NEW later, later[p] = Append(q[p], l),
           \A r \in Port : r # p => later[r] = q[r]
    PROVE  \A x : x \in Due(later, w, ended, lines) <=>
                    \/ x \in Due(q, w, ended, lines)
                    \/ x = << p, Len(q[p]) + 1 >> /\ l \in lines
<1> DEFINE n == Len(q[p]) + 1
<1>1. n \in Nat /\ n \notin DOMAIN q[p] /\ n # 0
  BY LenProperties
<1>2. << p, n >> \notin Due(q, w, ended, lines)
  BY DueNew
<1>3. /\ \A r \in Port : r # p => later[r] = q[r]
      /\ DOMAIN later[p] = DOMAIN q[p] \cup {n} /\ later[p][n] = l
      /\ \A i \in DOMAIN q[p] : later[p][i] = q[p][i]
  OBVIOUS
<1> HIDE DEF n
<1>4. ASSUME NEW x \in Port \X Nat
      PROVE  x \in Due(later, w, ended, lines) <=>
                x \in Due(q, w, ended, lines) \/ (x = << p, n >> /\ l \in lines)
  <2>1. CASE x[1] # p
    BY <1>3, <2>1 DEF Due
  <2>2. CASE x[1] = p /\ x[2] # n
    BY <1>1, <1>3, <2>2 DEF Due
  <2>3. CASE x = << p, n >>
    BY <1>1, <1>2, <1>3, <2>3 DEF Due
  <2> QED BY <2>1, <2>2, <2>3
<1>5. Due(later, w, ended, lines) \subseteq Port \X Nat /\ Due(q, w, ended, lines) \subseteq Port \X Nat
  BY DEF Due
<1>6. << p, n >> \in Port \X Nat
  BY <1>1
<1> QED BY <1>2, <1>4, <1>5, <1>6 DEF n

\* The server of p takes its first message.
Taken(q, w, p, q2, w2) ==
    /\ q \in [Port -> Seq(Line)] /\ p \in Port /\ q[p] # << >> /\ w[p] = NoLine
    /\ q2[p] = Tail(q[p]) /\ w2[p] = Head(q[p])
    /\ \A r \in Port : r # p => q2[r] = q[r] /\ w2[r] = w[r]

\* A notice that is taken from the queue is as due as before.
LEMMA DueReceive ==
    ASSUME NEW q, NEW w, NEW p, NEW q2, NEW w2, Taken(q, w, p, q2, w2),
           NEW ended, NEW lines, NoLine \notin lines, p \notin ended,
           IsFiniteSet(Due(q, w, ended, lines))
    PROVE  /\ IsFiniteSet(Due(q2, w2, ended, lines))
           /\ Cardinality(Due(q2, w2, ended, lines)) = Cardinality(Due(q, w, ended, lines))
<1> DEFINE dueNow == Due(q, w, ended, lines)
           later == Due(q2, w2, ended, lines)
           f == [x \in dueNow |-> IF x[1] = p THEN << p, x[2] - 1 >> ELSE x]
<1>1. /\ \A r \in Port : r # p => q2[r] = q[r] /\ w2[r] = w[r]
      /\ q2[p] = Tail(q[p]) /\ w2[p] = Head(q[p])
      /\ p \in Port /\ q[p] # << >> /\ w[p] = NoLine /\ q \in [Port -> Seq(Line)]
  BY DEF Taken
<1>2. /\ q[p] \in Seq(Line) /\ Len(q[p]) \in Nat /\ Len(q[p]) >= 1
      /\ DOMAIN q[p] = 1 .. Len(q[p])
      /\ DOMAIN Tail(q[p]) = 1 .. Len(q[p]) - 1
      /\ Head(q[p]) = q[p][1]
      /\ \A i \in 1 .. Len(q[p]) - 1 : Tail(q[p])[i] = q[p][i + 1]
  BY <1>1
<1>3. ASSUME NEW k \in Nat
      PROVE  << p, k >> \in later <=> << p, k + 1 >> \in dueNow
  <2>1. << p, k >> \in later <=> \/ k \in 1 .. Len(q[p]) - 1 /\ q[p][k + 1] \in lines
                                 \/ k = 0 /\ q[p][1] \in lines
    BY <1>1, <1>2 DEF later, Due
  <2>2. << p, k + 1 >> \in dueNow <=> k + 1 \in 1 .. Len(q[p]) /\ q[p][k + 1] \in lines
    BY <1>1, <1>2 DEF dueNow, Due
  <2> QED BY <1>2, <2>1, <2>2
<1>4. << p, 0 >> \notin dueNow
  BY <1>1, <1>2 DEF dueNow, Due
<1>5. \A x \in Port \X Nat : x[1] # p => (x \in later <=> x \in dueNow)
  BY <1>1 DEF later, dueNow, Due
<1>6. dueNow \subseteq Port \X Nat /\ later \subseteq Port \X Nat
  BY DEF dueNow, later, Due
<1> HIDE DEF dueNow, later
<1>7. ASSUME NEW x \in dueNow PROVE f[x] \in later
  <2>1. CASE x[1] = p
    <3>1. PICK k \in Nat : x = << p, k >>
      BY <1>6, <2>1
    <3>2. k # 0
      BY <1>4, <3>1
    <3>3. k - 1 \in Nat /\ (k - 1) + 1 = k
      BY <3>2
    <3>4. << p, k - 1 >> \in later
      BY <1>3, <3>1, <3>3
    <3>5. << p, k >> \in dueNow => f[<< p, k >>] = << p, k - 1 >>
      OBVIOUS
    <3> HIDE DEF f
    <3> QED BY <3>1, <3>4, <3>5
  <2>2. CASE x[1] # p
    BY <1>5, <1>6, <2>2
  <2> QED BY <2>1, <2>2
<1>8. ASSUME NEW x \in dueNow, NEW y \in dueNow, f[x] = f[y] PROVE x = y
  <2>1. PICK r \in Port, k \in Nat : x = << r, k >>
    BY <1>6
  <2>2. PICK s \in Port, m \in Nat : y = << s, m >>
    BY <1>6
  <2>3. PICK i \in Int : f[x] = << r, i >> /\ i = IF r = p THEN k - 1 ELSE k
    <3>1. f[x] = IF r = p THEN << p, k - 1 >> ELSE << r, k >>
      BY <2>1
    <3> HIDE DEF f
    <3>2. CASE r = p
      BY <3>1, <3>2
    <3>3. CASE r # p
      BY <3>1, <3>3
    <3> QED BY <3>2, <3>3
  <2>4. PICK j \in Int : f[y] = << s, j >> /\ j = IF s = p THEN m - 1 ELSE m
    <3>1. f[y] = IF s = p THEN << p, m - 1 >> ELSE << s, m >>
      BY <2>2
    <3> HIDE DEF f
    <3>2. CASE s = p
      BY <3>1, <3>2
    <3>3. CASE s # p
      BY <3>1, <3>3
    <3> QED BY <3>2, <3>3
  <2> HIDE DEF f
  <2>5. r = s /\ i = j
    <3>1. << r, i >> = << s, j >>
      BY <1>8, <2>3, <2>4
    <3> QED BY <3>1
  <2>6. k = m
    BY <2>3, <2>4, <2>5
  <2> QED BY <2>1, <2>2, <2>5, <2>6
<1>9. ASSUME NEW y \in later PROVE \E x \in dueNow : f[x] = y
  <2>1. CASE y[1] = p
    <3>1. PICK k \in Nat : y = << p, k >>
      BY <1>6, <2>1
    <3>2. << p, k + 1 >> \in dueNow /\ (k + 1) - 1 = k
      BY <1>3, <3>1
    <3>3. f[<< p, k + 1 >>] = << p, (k + 1) - 1 >>
      BY <3>2
    <3> QED BY <3>1, <3>2, <3>3
  <2>2. CASE y[1] # p
    <3>1. y \in dueNow
      BY <1>5, <1>6, <2>2
    <3> QED BY <2>2, <3>1
  <2> QED BY <2>1, <2>2
<1>10. f \in Bijection(dueNow, later)
  <2>1. f \in [dueNow -> later]
    BY <1>7
  <2> HIDE DEF f
  <2> QED BY <1>8, <1>9, <2>1 DEF Bijection, Injection, Surjection, IsInjective
<1>11. ExistsBijection(dueNow, later)
  BY <1>10 DEF ExistsBijection
<1>12. IsFiniteSet(later) /\ Cardinality(later) = Cardinality(dueNow)
  BY <1>11, FS_Bijection DEF dueNow
<1> QED BY <1>12 DEF later, dueNow

\* A server that works on a line has its order to give.
LEMMA DueMine ==
    ASSUME NEW q, NEW w, NEW ended, NEW lines, NEW p \in Port, w[p] \in lines, p \notin ended
    PROVE  << p, 0 >> \in Due(q, w, ended, lines)
BY DEF Due

\* The server of p ends its message, or has told the controller so.
Ended(w, ended, p, w2, ended2) ==
    /\ w2[p] = NoLine \/ p \in ended2
    /\ \A r \in Port : r # p => w2[r] = w[r] /\ (r \in ended2 <=> r \in ended)

\* An order that was given is not due any more.
LEMMA DueEnd ==
    ASSUME NEW q \in [Port -> Seq(Line)], NEW w, NEW ended, NEW lines, NoLine \notin lines,
           NEW p \in Port, NEW w2, NEW ended2, Ended(w, ended, p, w2, ended2)
    PROVE  \A x : x \in Due(q, w2, ended2, lines) <=>
                    x \in Due(q, w, ended, lines) /\ x # << p, 0 >>
<1>1. 0 \notin DOMAIN q[p]
  BY LenProperties
<1> QED BY <1>1 DEF Due, Ended

\* Who owes the controller no order changes nothing by going on.
LEMMA DueEnded ==
    ASSUME NEW q, NEW w, NEW ended, NEW lines, NoLine \notin lines,
           NEW p \in Port, w[p] \notin lines \/ p \in ended,
           NEW w2, NEW ended2, w2[p] = NoLine, Ended(w, ended, p, w2, ended2)
    PROVE  \A x : x \in Due(q, w2, ended2, lines) <=> x \in Due(q, w, ended, lines)
BY DEF Due, Ended

\* A server that is told of a line owes its controllers the orders.
LEMMA DueTold ==
    ASSUME SlotsTyped, NEW s \in Port, NEW l \in Line,
           queue'[s] = Append(queue[s], l), \A r \in Port : r # s => queue'[r] = queue[r],
           working' = working, told' = told
    PROVE  \E new : /\ new \notin DueMaster /\ DueMaster' = DueMaster \cup {new}
                     /\ new \notin DueSlave
                     /\ DueSlave' = IF l \in Slave THEN DueSlave \cup {new} ELSE DueSlave
<1> DEFINE new == << s, Len(queue[s]) + 1 >>
<1>1. queue \in [Port -> Seq(Line)]
  BY DEF SlotsTyped
<1>3. ASSUME NEW w, NEW ended, NEW lines, NEW x
      PROVE  x \in Due(queue', w, ended, lines) <=>
                x \in Due(queue, w, ended, lines) \/ (x = new /\ l \in lines)
  BY <1>1, DueAppend
<1>6. ASSUME NEW w, NEW ended, NEW lines PROVE new \notin Due(queue, w, ended, lines)
  BY <1>1, DueNew
<1> HIDE DEF new
<1>4. new \notin DueMaster /\ DueMaster' = DueMaster \cup {new}
  BY <1>3, <1>6 DEF DueMaster
<1>5. new \notin DueSlave /\ DueSlave' = IF l \in Slave THEN DueSlave \cup {new} ELSE DueSlave
  <2>1. new \notin DueSlave /\ \A x : x \in DueSlave' <=> x \in DueSlave \/ (x = new /\ l \in Slave)
    BY <1>3, <1>6 DEF DueSlave
  <2> QED BY <2>1
<1> QED BY <1>4, <1>5

\* A server is told of the interrupt or the message is lost.
LEMMA HandleDue ==
    ASSUME SlotsTyped, EInv, NEW l \in Line, NEW busy, Handle(l, busy),
           UNCHANGED <<working, told>>, target[l] # "KERNEL"
    PROVE  /\ serving' = busy /\ IsFiniteSet(DueMaster') /\ lost' \in Nat
           /\ Cardinality(DueMaster') + lost'
                = Cardinality(DueMaster) + lost + IF target[l] = "SERVER" THEN 1 ELSE 0
           /\ Cardinality(DueSlave') + lost'
                >= Cardinality(DueSlave) + lost
                     + IF target[l] = "SERVER" /\ l \in Slave THEN 1 ELSE 0
<1>1. /\ IsFiniteSet(DueMaster) /\ IsFiniteSet(DueSlave) /\ lost \in Nat
      /\ Cardinality(DueMaster) \in Nat /\ Cardinality(DueSlave) \in Nat
  BY DueFinite DEF EInv
<1>2. serving' = busy
  BY DEF Handle, SlotsTyped, Handlers
<1>3. CASE queue' = queue /\ lost' = lost + IF target[l] = "SERVER" THEN 1 ELSE 0
  <2>1. DueMaster' = DueMaster /\ DueSlave' = DueSlave
    BY <1>3 DEF DueMaster, DueSlave
  <2> QED BY <1>1, <1>2, <1>3, <2>1
<1>4. CASE target[l] = "SERVER" /\ lost' = lost /\ queue' = [queue EXCEPT ![server[l]] = Append(@, l)]
  <2>1. target[l] = "SERVER"
    BY <1>4
  <2>2. PICK s \in Port : s = server[l]
    BY <2>1 DEF SlotsTyped
  <2>3. queue' = [queue EXCEPT ![s] = Append(@, l)] /\ lost' = lost
    BY <1>4, <2>2
  <2>4. PICK new : /\ new \notin DueMaster /\ DueMaster' = DueMaster \cup {new}
                   /\ new \notin DueSlave
                   /\ DueSlave' = IF l \in Slave THEN DueSlave \cup {new} ELSE DueSlave
    <3>1. queue'[s] = Append(queue[s], l) /\ \A r \in Port : r # s => queue'[r] = queue[r]
      BY <2>3 DEF SlotsTyped
    <3>2. working' = working /\ told' = told
      OBVIOUS
    <3> QED BY <3>1, <3>2, DueTold
  <2>7. /\ IsFiniteSet(DueMaster') /\ Cardinality(DueMaster') = Cardinality(DueMaster) + 1
    BY <1>1, <2>4, FS_AddElement
  <2>8. Cardinality(DueSlave') = Cardinality(DueSlave) + IF l \in Slave THEN 1 ELSE 0
    <3>1. CASE l \in Slave
      BY <1>1, <2>4, <3>1, FS_AddElement
    <3>2. CASE l \notin Slave
      BY <1>1, <2>4, <3>2
    <3> QED BY <3>1, <3>2
  <2> QED BY <1>1, <1>2, <1>4, <2>1, <2>7, <2>8
<1>5. \/ target[l] = "SERVER" /\ lost' = lost /\ queue' = [queue EXCEPT ![server[l]] = Append(@, l)]
      \/ queue' = queue /\ lost' = lost + IF target[l] = "SERVER" THEN 1 ELSE 0
  <2>1. CASE target[l] = "SERVER"
    BY <2>1 DEF Handle
  <2>2. CASE target[l] = "NONE"
    BY <1>1, <2>2 DEF Handle
  <2> QED BY <2>1, <2>2 DEF SlotsTyped, Handlers
<1> QED BY <1>3, <1>4, <1>5

\* What a controller serves grows by no more than what is due, lost or noise.
Balanced(i, j) ==
    /\ Cardinality(serving' \cap Master) <= Cardinality(serving \cap Master) + i
    /\ Cardinality(DueMaster') + lost' + noise'["slave"]
         >= Cardinality(DueMaster) + lost + noise["slave"] + i
    /\ Cardinality(serving' \cap Slave) <= Cardinality(serving \cap Slave) + j
    /\ Cardinality(DueSlave') + lost' >= Cardinality(DueSlave) + lost + j

\* The balance holds again when both sides changed by as much.
LEMMA EInvLater ==
    ASSUME SlotsTyped, EInv, IsFiniteSet(DueMaster'), lost' \in Nat,
           noise' \in [{"master", "slave"} -> Nat], SlotsTyped',
           NEW i \in Int, NEW j \in Int, Balanced(i, j)
    PROVE  EInv'
<1>1. /\ Cardinality(DueMaster) \in Nat /\ Cardinality(DueSlave) \in Nat
      /\ lost \in Nat /\ noise["slave"] \in Nat
  BY DueFinite DEF EInv
<1>2. Cardinality(DueMaster') \in Nat /\ Cardinality(DueSlave') \in Nat
  <2>1. (SlotsTyped /\ IsFiniteSet(DueMaster) =>
            Cardinality(DueMaster) \in Nat /\ Cardinality(DueSlave) \in Nat)'
    BY DueFinite, PTL
  <2> QED BY <2>1
<1>3. /\ Cardinality(serving \cap Master) \in Nat /\ Cardinality(serving \cap Slave) \in Nat
      /\ Cardinality(serving \cap Master) <= Cardinality(DueMaster) + lost + noise["slave"]
      /\ Cardinality(serving \cap Slave) <= Cardinality(DueSlave) + lost
  BY ServedFinite DEF EInv
<1>4. (Cardinality(serving \cap Master) \in Nat /\ Cardinality(serving \cap Slave) \in Nat)'
  BY ServedFinite, PTL
<1>5. PICK m, n \in Nat : m = Cardinality(serving' \cap Master) /\ n = Cardinality(serving' \cap Slave)
  BY <1>4
<1>6. PICK d, e \in Nat : d = Cardinality(DueMaster') /\ e = Cardinality(DueSlave')
  BY <1>2
<1>7. PICK x, y \in Nat : x = lost' /\ y = noise'["slave"]
  OBVIOUS
<1>8. m <= d + x + y /\ n <= e + x
  <2>1. m <= Cardinality(serving \cap Master) + i /\ d + x + y >= Cardinality(DueMaster) + lost + noise["slave"] + i
    BY <1>5, <1>6, <1>7 DEF Balanced
  <2>2. n <= Cardinality(serving \cap Slave) + j /\ e + x >= Cardinality(DueSlave) + lost + j
    BY <1>5, <1>6, <1>7 DEF Balanced
  <2> QED BY <1>1, <1>3, <2>1, <2>2
<1> QED BY <1>5, <1>6, <1>7, <1>8 DEF EInv

\* An element more counts one at most.
LEMMA OneMore ==
    ASSUME NEW A, IsFiniteSet(A), NEW B, NEW x, \A y : y \in B <=> y \in A \/ y = x
    PROVE  Cardinality(B) <= Cardinality(A) + 1
<1>1. B = A \cup {x} /\ Cardinality(A) \in Nat
  BY FS_CardinalityType
<1>2. CASE x \in A
  <2>1. B = A
    BY <1>1, <1>2
  <2> QED BY <1>1, <2>1
<1>3. CASE x \notin A
  <2>1. Cardinality(A \cup {x}) = Cardinality(A) + 1
    BY <1>3, FS_AddElement
  <2> QED BY <1>1, <2>1
<1> QED BY <1>2, <1>3

\* At boot nothing is in service.
LEMMA InitEnds == Init => EInv
<1> SUFFICES ASSUME Init PROVE EInv
  OBVIOUS
<1>1. DueMaster = {} /\ DueSlave = {}
  BY Controllers DEF Init, DueMaster, DueSlave, Due
<1>2. serving \cap Master = {} /\ serving \cap Slave = {} /\ lost = 0 /\ noise["slave"] = 0
      /\ noise \in [{"master", "slave"} -> Nat]
  BY DEF Init
<1> QED BY <1>1, <1>2, FS_EmptySet DEF EInv

\* Of a step of the hardware after which as much is due as before.
LEMMA SameDue ==
    ASSUME SlotsTyped, SlotsTyped', EInv, UNCHANGED <<queue, working, told, lost, noise>>,
           Cardinality(serving' \cap Master) <= Cardinality(serving \cap Master),
           Cardinality(serving' \cap Slave) <= Cardinality(serving \cap Slave)
    PROVE  EInv'
<1>1. DueMaster' = DueMaster /\ DueSlave' = DueSlave /\ lost' = lost /\ noise' = noise
  BY DEF DueMaster, DueSlave
<1>2. PICK m, d, s, e, x, y \in Nat :
          /\ m = Cardinality(serving \cap Master) /\ s = Cardinality(serving \cap Slave)
          /\ d = Cardinality(DueMaster) /\ e = Cardinality(DueSlave)
          /\ x = lost /\ y = noise["slave"]
  BY ServedFinite, DueFinite DEF EInv
<1>3. Balanced(0, 0)
  BY <1>1, <1>2 DEF Balanced
<1>4. IsFiniteSet(DueMaster') /\ lost' \in Nat /\ noise' \in [{"master", "slave"} -> Nat]
  BY <1>1 DEF EInv
<1> QED BY <1>3, <1>4, EInvLater

\* The orders of one server and of sched_irq end one line or none.
LEMMA OneLess ==
    ASSUME NEW lines \in {Master, Slave}, NEW rest, rest = serving \ EndedAt(lines)
    PROVE  /\ Cardinality(rest \cap lines) <= Cardinality(serving \cap lines)
           /\ Cardinality(serving \cap lines) > 0 =>
                 Cardinality(rest \cap lines) = Cardinality(serving \cap lines) - 1
           /\ Cardinality(serving \cap lines) = 0 => Cardinality(rest \cap lines) = 0
<1>1. Cardinality(serving \cap lines) \in Nat /\ IsFiniteSet(serving \cap lines)
  BY ServedFinite
<1>2. Cardinality(serving \cap lines) = 0 <=> serving \cap lines = {}
  BY <1>1, FS_EmptySet
<1>3. Cardinality(rest \cap lines) =
         IF serving \cap lines = {} THEN 0 ELSE Cardinality(serving \cap lines) - 1
  BY EndsAtController
<1> QED BY <1>1, <1>2, <1>3

\* An order to one controller ends nothing at the other.
LEMMA OtherKept ==
    ASSUME NEW lines \in {Master, Slave}, NEW other \in {Master, Slave}, other # lines
    PROVE  (serving \ EndedAt(lines)) \cap other = serving \cap other
<1>1. other \cap lines = {}
  BY Controllers
<1>2. EndedAt(lines) \subseteq lines
  BY DEF EndedAt, Top
<1> QED BY <1>1, <1>2

\* An interrupt is ended at once, or its order is due.
LEMMA InterruptEnds ==
    ASSUME IInv, SlotsTyped, SlotsTyped', EInv, NEW l \in Line, Interrupt(l)
    PROVE  EInv'
<1>1. /\ Handle(l, serving \cup Meant(l)) /\ working' = working /\ told' = told /\ noise' = noise
      /\ Meant(l) \cap serving = {}
  BY PassedFresh DEF Interrupt
<1>2. target[l] \in {"KERNEL", "SERVER"}
  <2>1. l \in enabled
    BY DEF Interrupt, Top, MasterPasses, SlavePasses, Passed
  <2> QED BY <2>1 DEF IInv, MaskedUnhandled, Handlers
<1>3. CASE target[l] = "KERNEL"
  <2>1. l = Timer /\ l \in Master /\ Meant(l) = {l} /\ l \notin Slave /\ l \notin serving
    BY <1>1, <1>3, Controllers DEF SlotsTyped
  <2>2. serving' = (serving \cup {l}) \ Top((serving \cup {l}) \cap Master)
        /\ queue' = queue /\ lost' = lost
    BY <1>1, <1>3, <2>1 DEF Handle
  <2>3. Top((serving \cup {l}) \cap Master) \subseteq Master /\ l \in Top((serving \cup {l}) \cap Master)
    BY <2>1 DEF Top, Master, Timer
  <2>4. serving' \cap Master \subseteq serving \cap Master /\ serving' \cap Slave = serving \cap Slave
    BY <2>1, <2>2, <2>3, Controllers
  <2>5. Cardinality(serving' \cap Master) <= Cardinality(serving \cap Master)
    BY <2>4, ServedFinite, FS_Subset
  <2>6. Cardinality(serving' \cap Slave) <= Cardinality(serving \cap Slave)
    BY <2>4, ServedFinite
  <2> QED BY <1>1, <2>2, <2>5, <2>6, SameDue
<1>4. CASE target[l] = "SERVER"
  <2>1. /\ serving' = serving \cup Meant(l) /\ IsFiniteSet(DueMaster') /\ lost' \in Nat
        /\ Cardinality(DueMaster') + lost' = Cardinality(DueMaster) + lost + 1
        /\ Cardinality(DueSlave') + lost'
             >= Cardinality(DueSlave) + lost + IF l \in Slave THEN 1 ELSE 0
    BY <1>1, <1>4, HandleDue
  <2>2. Cardinality(serving' \cap Master) <= Cardinality(serving \cap Master) + 1
    <3>1. CASE l \in Slave
      <4>1. \A y : y \in serving' \cap Master <=> y \in serving \cap Master \/ y = Cascade
        BY <2>1, <3>1, Controllers
      <4> QED BY <4>1, ServedFinite, OneMore
    <3>2. CASE l \in Master
      <4>1. \A y : y \in serving' \cap Master <=> y \in serving \cap Master \/ y = l
        BY <2>1, <3>2, Controllers
      <4> QED BY <4>1, ServedFinite, OneMore
    <3> QED BY <3>1, <3>2, Controllers
  <2>3. PICK d, d2, e, e2, x, x2, y \in Nat :
            /\ d = Cardinality(DueMaster) /\ d2 = Cardinality(DueMaster')
            /\ e = Cardinality(DueSlave) /\ e2 = Cardinality(DueSlave')
            /\ x = lost /\ x2 = lost' /\ y = noise["slave"]
    <3>1. Cardinality(DueMaster') \in Nat /\ Cardinality(DueSlave') \in Nat
      <4>1. (SlotsTyped /\ IsFiniteSet(DueMaster) =>
                Cardinality(DueMaster) \in Nat /\ Cardinality(DueSlave) \in Nat)'
        BY DueFinite, PTL
      <4> QED BY <2>1, <4>1
    <3> QED BY <2>1, <3>1, DueFinite DEF EInv
  <2>4. d2 + x2 = d + x + 1 /\ e2 + x2 >= e + x + IF l \in Slave THEN 1 ELSE 0
    BY <2>1, <2>3
  <2>7. noise' \in [{"master", "slave"} -> Nat] /\ 0 \in Int /\ 1 \in Int
    BY <1>1 DEF EInv
  <2>5. CASE l \in Slave
    <3>1. \A z : z \in serving' \cap Slave <=> z \in serving \cap Slave \/ z = l
      BY <2>1, <2>5, Controllers
    <3>2. Cardinality(serving' \cap Slave) <= Cardinality(serving \cap Slave) + 1
      BY <3>1, ServedFinite, OneMore
    <3>3. e2 + x2 >= e + x + 1 /\ d2 + x2 + y >= d + x + y + 1
      BY <2>4, <2>5
    <3>4. Balanced(1, 1)
      BY <1>1, <2>2, <2>3, <3>2, <3>3 DEF Balanced
    <3> QED BY <2>1, <2>7, <3>4, EInvLater
  <2>6. CASE l \notin Slave
    <3>1. \A z : z \in serving' \cap Slave <=> z \in serving \cap Slave
      BY <2>1, <2>6, Controllers
    <3>2. Cardinality(serving' \cap Slave) <= Cardinality(serving \cap Slave) + 0
      <4>1. serving' \cap Slave = serving \cap Slave
        BY <3>1
      <4>2. Cardinality(serving \cap Slave) \in Nat
        BY ServedFinite
      <4> QED BY <4>1, <4>2
    <3>3. e2 + x2 >= e + x + 0 /\ d2 + x2 + y >= d + x + y + 1
      BY <2>4, <2>6
    <3>4. Balanced(1, 0)
      BY <1>1, <2>2, <2>3, <3>2, <3>3 DEF Balanced
    <3> QED BY <2>1, <2>7, <3>4, EInvLater
  <2> QED BY <2>5, <2>6
<1> QED BY <1>2, <1>3, <1>4

\* So is one whose line is dropped before it is asked for.
LEMMA VanishEnds ==
    ASSUME SlotsTyped, SlotsTyped', EInv, NEW c \in {"master", "slave"}, NEW l \in Line,
           Vanish(c, l)
    PROVE  EInv'
<1> DEFINE busy == IF c = "slave" THEN serving \cup {Cascade} ELSE serving
           i == IF c = "slave" THEN 1 ELSE 0
<1>1. /\ working' = working /\ told' = told /\ l \in {7, 15}
      /\ noise' = [noise EXCEPT ![c] = @ + 1] /\ noise \in [{"master", "slave"} -> Nat]
  BY DEF Vanish, EInv
<1>2. target[l] # "KERNEL"
  BY <1>1 DEF SlotsTyped, Timer
<1>3. /\ serving' = busy /\ IsFiniteSet(DueMaster') /\ lost' \in Nat
      /\ Cardinality(DueMaster') + lost' >= Cardinality(DueMaster) + lost
      /\ Cardinality(DueSlave') + lost' >= Cardinality(DueSlave) + lost
  <2>1. PICK d, e, x \in Nat : /\ d = Cardinality(DueMaster) /\ e = Cardinality(DueSlave)
                               /\ x = lost
    BY DueFinite DEF EInv
  <2>2. CASE Spurious(l, busy)
    <3>1. serving' = busy /\ queue' = queue /\ lost' = lost
      BY <2>2 DEF Vanish
    <3>2. DueMaster' = DueMaster /\ DueSlave' = DueSlave
      BY <1>1, <3>1 DEF DueMaster, DueSlave
    <3> QED BY <2>1, <3>1, <3>2 DEF EInv
  <2>3. CASE ~Spurious(l, busy)
    <3>1. Handle(l, busy)
      BY <2>3 DEF Vanish
    <3> HIDE DEF busy
    <3>2. /\ serving' = busy /\ IsFiniteSet(DueMaster') /\ lost' \in Nat
          /\ Cardinality(DueMaster') + lost'
               = Cardinality(DueMaster) + lost + IF target[l] = "SERVER" THEN 1 ELSE 0
          /\ Cardinality(DueSlave') + lost'
               >= Cardinality(DueSlave) + lost
                    + IF target[l] = "SERVER" /\ l \in Slave THEN 1 ELSE 0
      BY <1>1, <1>2, <3>1, HandleDue
    <3>3. Cardinality(DueMaster') \in Nat /\ Cardinality(DueSlave') \in Nat
      <4>1. (SlotsTyped /\ IsFiniteSet(DueMaster) =>
                Cardinality(DueMaster) \in Nat /\ Cardinality(DueSlave) \in Nat)'
        BY DueFinite, PTL
      <4> QED BY <3>2, <4>1
    <3>4. PICK d2, e2, x2 \in Nat : /\ d2 = Cardinality(DueMaster')
                                    /\ e2 = Cardinality(DueSlave') /\ x2 = lost'
      BY <3>2, <3>3
    <3> QED BY <2>1, <3>2, <3>4
  <2> QED BY <2>2, <2>3
<1>4. /\ Cardinality(serving' \cap Master) <= Cardinality(serving \cap Master) + i
      /\ Cardinality(serving' \cap Slave) <= Cardinality(serving \cap Slave) + 0
  <2>1. Cardinality(serving \cap Master) \in Nat /\ Cardinality(serving \cap Slave) \in Nat
    BY ServedFinite
  <2>2. CASE c = "slave"
    <3>1. \A y : y \in serving' \cap Master <=> y \in serving \cap Master \/ y = Cascade
      BY <1>3, <2>2, Controllers
    <3>2. Cardinality(serving' \cap Master) <= Cardinality(serving \cap Master) + 1
      BY <3>1, ServedFinite, OneMore
    <3>3. serving' \cap Slave = serving \cap Slave
      BY <1>3, <2>2, Controllers
    <3>4. i = 1
      BY <2>2
    <3> HIDE DEF i
    <3>5. Cardinality(serving' \cap Slave) <= Cardinality(serving \cap Slave) + 0
      <4>1. PICK n \in Nat : n = Cardinality(serving \cap Slave)
        BY <2>1
      <4>2. Cardinality(serving' \cap Slave) = Cardinality(serving \cap Slave)
        BY <3>3, Zenon
      <4> QED BY <4>1, <4>2
    <3> QED BY <3>2, <3>4, <3>5
  <2>3. CASE c # "slave"
    BY <1>3, <2>1, <2>3
  <2> QED BY <2>2, <2>3
<1>5. /\ noise' \in [{"master", "slave"} -> Nat]
      /\ noise'["slave"] = noise["slave"] + i
  BY <1>1
<1>6. Balanced(i, 0)
  <2>1. PICK d, d2, e, e2, x, x2, y, y2 \in Nat :
            /\ d = Cardinality(DueMaster) /\ d2 = Cardinality(DueMaster')
            /\ e = Cardinality(DueSlave) /\ e2 = Cardinality(DueSlave')
            /\ x = lost /\ x2 = lost' /\ y = noise["slave"] /\ y2 = noise'["slave"]
    <3>1. Cardinality(DueMaster') \in Nat /\ Cardinality(DueSlave') \in Nat
      <4>1. (SlotsTyped /\ IsFiniteSet(DueMaster) =>
                Cardinality(DueMaster) \in Nat /\ Cardinality(DueSlave) \in Nat)'
        BY DueFinite, PTL
      <4> QED BY <1>3, <4>1
    <3>2. lost \in Nat /\ noise["slave"] \in Nat /\ noise'["slave"] \in Nat
      BY <1>5 DEF EInv
    <3>3. Cardinality(DueMaster) \in Nat /\ Cardinality(DueSlave) \in Nat
      BY DueFinite DEF EInv
    <3> QED BY <1>3, <3>1, <3>2, <3>3
  <2> HIDE DEF i
  <2>2. PICK k \in Int : k = i
    BY DEF i
  <2>3. d2 + x2 + y2 >= d + x + y + k
    BY <1>3, <1>5, <2>1, <2>2
  <2>4. e2 + x2 >= e + x + 0
    BY <1>3, <2>1
  <2> QED BY <1>4, <2>1, <2>2, <2>3, <2>4 DEF Balanced
<1>7. i \in Int /\ 0 \in Int
  OBVIOUS
<1> HIDE DEF i
<1> QED BY <1>3, <1>5, <1>6, <1>7, EInvLater

\* The surplus order of the scheduler ends a line more.
LEMMA YieldEnds ==
    ASSUME SlotsTyped, SlotsTyped', EInv, Yield
    PROVE  EInv'
<1>1. serving' = serving \ EndedAt(Master) /\ UNCHANGED << queue, working, told, lost, noise >>
  BY DEF Yield
<1>2. Cardinality(serving' \cap Master) <= Cardinality(serving \cap Master)
  BY <1>1, OneLess
<1>3. Cardinality(serving' \cap Slave) <= Cardinality(serving \cap Slave)
  <2>1. Master # Slave
    BY Controllers
  <2>2. serving' \cap Slave = serving \cap Slave
    BY <1>1, <2>1, OtherKept
  <2> QED BY <2>2, ServedFinite
<1> QED BY <1>1, <1>2, <1>3, SameDue

\* Receiving a notice leaves its orders due.
LEMMA ReceiveEnds ==
    ASSUME SlotsTyped, SlotsTyped', EInv, NEW p \in Port, Receive(p)
    PROVE  EInv'
<1>1. /\ working[p] = NoLine /\ queue[p] # << >> /\ p \notin told
      /\ UNCHANGED << serving, told, lost, noise >>
  BY Controllers DEF Receive, SlotsTyped
<1>2. Taken(queue, working, p, queue', working')
  BY <1>1 DEF Receive, SlotsTyped, Taken
<1>3. IsFiniteSet(DueMaster') /\ Cardinality(DueMaster') = Cardinality(DueMaster)
  <2>1. IsFiniteSet(Due(queue, working, {}, Line)) /\ p \notin {} /\ NoLine \notin Line
    BY Controllers DEF EInv, DueMaster
  <2>2. /\ IsFiniteSet(Due(queue', working', {}, Line))
        /\ Cardinality(Due(queue', working', {}, Line)) =
             Cardinality(Due(queue, working, {}, Line))
    BY <1>2, <2>1, DueReceive
  <2> QED BY <2>2 DEF DueMaster
<1>4. Cardinality(DueSlave') = Cardinality(DueSlave)
  <2>1. IsFiniteSet(Due(queue, working, told, Slave)) /\ NoLine \notin Slave
    BY DueFinite, Controllers DEF EInv, DueSlave
  <2>2. Cardinality(Due(queue', working', told, Slave)) =
             Cardinality(Due(queue, working, told, Slave))
    BY <1>1, <1>2, <2>1, DueReceive
  <2> QED BY <1>1, <2>2 DEF DueSlave
<1>5. lost' \in Nat /\ noise' \in [{"master", "slave"} -> Nat] /\ 0 \in Int
  BY <1>1 DEF EInv
<1>6. PICK m, d, s, e, x, y \in Nat :
          /\ m = Cardinality(serving \cap Master) /\ s = Cardinality(serving \cap Slave)
          /\ d = Cardinality(DueMaster) /\ e = Cardinality(DueSlave)
          /\ x = lost /\ y = noise["slave"]
  BY ServedFinite, DueFinite DEF EInv
<1>7. Balanced(0, 0)
  BY <1>1, <1>3, <1>4, <1>6 DEF Balanced
<1> QED BY <1>3, <1>5, <1>7, EInvLater

\* An element less counts one less.
LEMMA OneFewer ==
    ASSUME NEW A, IsFiniteSet(A), NEW x \in A, NEW B, \A y : y \in B <=> y \in A /\ y # x
    PROVE  IsFiniteSet(B) /\ Cardinality(B) = Cardinality(A) - 1
<1>1. B = A \ {x}
  OBVIOUS
<1>2. IsFiniteSet(A \ {x}) /\ Cardinality(A \ {x}) = Cardinality(A) - 1
  BY FS_RemoveElement
<1> QED BY <1>1, <1>2, Zenon

\* The order to the slave ends one of its lines.
LEMMA FinishSlaveEnds ==
    ASSUME SlotsTyped, SlotsTyped', EInv, NEW p \in Port, FinishSlave(p)
    PROVE  EInv'
<1>1. /\ working[p] \in Slave /\ p \notin told /\ told' = told \cup {p}
      /\ serving' = serving \ EndedAt(Slave) /\ UNCHANGED << queue, working, lost, noise >>
      /\ Slave # Master /\ NoLine \notin Slave /\ queue \in [Port -> Seq(Line)]
  BY Controllers DEF FinishSlave, SlotsTyped
<1>2. DueMaster' = DueMaster
  BY <1>1 DEF DueMaster
<1>3. Cardinality(DueSlave') = Cardinality(DueSlave) - 1
  <2>1. /\ << p, 0 >> \in Due(queue, working, told, Slave)
        /\ \A x : x \in Due(queue, working, told', Slave) <=>
                    x \in Due(queue, working, told, Slave) /\ x # << p, 0 >>
    <3>1. Ended(working, told, p, working, told')
      BY <1>1 DEF Ended
    <3>2. << p, 0 >> \in Due(queue, working, told, Slave)
      BY <1>1, DueMine
    <3> QED BY <1>1, <3>1, <3>2, DueEnd
  <2>2. << p, 0 >> \in DueSlave /\ \A x : x \in DueSlave' <=> x \in DueSlave /\ x # << p, 0 >>
    BY <1>1, <2>1 DEF DueSlave
  <2>3. IsFiniteSet(DueSlave)
    BY DueFinite DEF EInv
  <2> QED BY <2>2, <2>3, OneFewer
<1>4. Cardinality(serving' \cap Master) = Cardinality(serving \cap Master)
  <2>1. serving' \cap Master = serving \cap Master
    BY <1>1, OtherKept
  <2> QED BY <2>1, Zenon
<1>5. PICK m, d, s, e, x, y \in Nat :
          /\ m = Cardinality(serving \cap Master) /\ s = Cardinality(serving \cap Slave)
          /\ d = Cardinality(DueMaster) /\ e = Cardinality(DueSlave)
          /\ x = lost /\ y = noise["slave"]
  BY ServedFinite, DueFinite DEF EInv
<1>6. s <= e + x /\ m <= d + x + y
  BY <1>5 DEF EInv
<1>7. /\ s > 0 => Cardinality(serving' \cap Slave) = s - 1
      /\ s = 0 => Cardinality(serving' \cap Slave) = 0
  BY <1>1, <1>5, OneLess
<1>8. Cardinality(DueSlave') = e - 1 /\ e - 1 \in Nat
  <2>1. IsFiniteSet(DueSlave')
    <3>1. (SlotsTyped /\ IsFiniteSet(DueMaster) => IsFiniteSet(DueSlave))'
      BY DueFinite, PTL
    <3> QED BY <1>2, <3>1 DEF EInv
  <2>2. Cardinality(DueSlave') \in Nat
    BY <2>1, FS_CardinalityType
  <2> QED BY <1>3, <1>5, <2>2
<1>9. Cardinality(serving' \cap Slave) <= Cardinality(DueSlave') + lost'
  <2>1. PICK n \in Int : n = Cardinality(serving' \cap Slave) /\ n <= (e - 1) + x
    BY <1>5, <1>6, <1>7, <1>8
  <2> QED BY <1>1, <1>5, <1>8, <2>1
<1>10. IsFiniteSet(DueMaster') /\ lost' \in Nat /\ noise' \in [{"master", "slave"} -> Nat]
  BY <1>1, <1>2 DEF EInv
<1>11. Cardinality(serving' \cap Master) <= Cardinality(DueMaster') + lost' + noise'["slave"]
  <2>1. Cardinality(DueMaster') = d /\ lost' = x /\ noise'["slave"] = y
    BY <1>1, <1>2, <1>5
  <2> QED BY <1>4, <1>5, <1>6, <2>1
<1> QED BY <1>9, <1>10, <1>11 DEF EInv

\* The order to the master ends one of its lines.
LEMMA FinishEnds ==
    ASSUME SlotsTyped, SlotsTyped', EInv, NEW p \in Port, Finish(p)
    PROVE  EInv'
<1>1. /\ working[p] \in Master \/ p \in told
      /\ working' = [working EXCEPT ![p] = NoLine] /\ told' = told \ {p}
      /\ serving' = serving \ EndedAt(Master) /\ UNCHANGED << queue, lost, noise >>
      /\ Slave # Master /\ NoLine \notin Slave /\ NoLine \notin Line
      /\ queue \in [Port -> Seq(Line)] /\ working \in [Port -> Line \cup {NoLine}]
  BY Controllers DEF Finish, SlotsTyped
<1>2. /\ working[p] \in Line /\ (working[p] \notin Slave \/ p \in told)
      /\ working'[p] = NoLine /\ p \notin told'
      /\ \A r \in Port : r # p => working'[r] = working[r] /\ (r \in told' <=> r \in told)
  <2>1. working[p] \in Line
    <3>1. working[p] # NoLine
      BY <1>1, Controllers DEF SlotsTyped
    <3> QED BY <1>1, <3>1
  <2>2. working[p] \notin Slave \/ p \in told
    BY <1>1, Controllers
  <2>3. /\ working'[p] = NoLine /\ p \notin told'
        /\ \A r \in Port : r # p => working'[r] = working[r] /\ (r \in told' <=> r \in told)
    BY <1>1
  <2> QED BY <2>1, <2>2, <2>3
<1>3. DueSlave' = DueSlave
  <2>1. \A x : x \in Due(queue, working', told', Slave) <=> x \in Due(queue, working, told, Slave)
    <3>1. Ended(working, told, p, working', told')
      BY <1>2 DEF Ended
    <3> QED BY <1>1, <1>2, <3>1, DueEnded
  <2> QED BY <1>1, <2>1 DEF DueSlave
<1>4. IsFiniteSet(DueMaster') /\ Cardinality(DueMaster') = Cardinality(DueMaster) - 1
  <2>1. /\ << p, 0 >> \in Due(queue, working, {}, Line)
        /\ \A x : x \in Due(queue, working', {}, Line) <=>
                    x \in Due(queue, working, {}, Line) /\ x # << p, 0 >>
    <3>1. Ended(working, {}, p, working', {})
      BY <1>2 DEF Ended
    <3>2. << p, 0 >> \in Due(queue, working, {}, Line)
      <4>1. p \notin {}
        OBVIOUS
      <4> QED BY <1>2, <4>1, DueMine
    <3> QED BY <1>1, <3>1, <3>2, DueEnd
  <2>2. << p, 0 >> \in DueMaster /\ \A x : x \in DueMaster' <=> x \in DueMaster /\ x # << p, 0 >>
    BY <1>1, <2>1 DEF DueMaster
  <2>3. IsFiniteSet(DueMaster)
    BY DEF EInv
  <2> QED BY <2>2, <2>3, OneFewer
<1>5. Cardinality(serving' \cap Slave) = Cardinality(serving \cap Slave)
  <2>1. serving' \cap Slave = serving \cap Slave
    BY <1>1, OtherKept
  <2> QED BY <2>1, Zenon
<1>6. PICK m, d, s, e, x, y \in Nat :
          /\ m = Cardinality(serving \cap Master) /\ s = Cardinality(serving \cap Slave)
          /\ d = Cardinality(DueMaster) /\ e = Cardinality(DueSlave)
          /\ x = lost /\ y = noise["slave"]
  BY ServedFinite, DueFinite DEF EInv
<1>7. s <= e + x /\ m <= d + x + y
  BY <1>6 DEF EInv
<1>8. /\ m > 0 => Cardinality(serving' \cap Master) = m - 1
      /\ m = 0 => Cardinality(serving' \cap Master) = 0
  BY <1>1, <1>6, OneLess
<1>9. Cardinality(DueMaster') = d - 1 /\ d - 1 \in Nat
  BY <1>4, <1>6, FS_CardinalityType
<1>10. Cardinality(serving' \cap Master) <= Cardinality(DueMaster') + lost' + noise'["slave"]
  <2>1. PICK n \in Int : n = Cardinality(serving' \cap Master) /\ n <= (d - 1) + x + y
    BY <1>6, <1>7, <1>8, <1>9
  <2> QED BY <1>1, <1>6, <1>9, <2>1
<1>11. Cardinality(serving' \cap Slave) <= Cardinality(DueSlave') + lost'
  <2>1. Cardinality(DueSlave') = e /\ lost' = x
    BY <1>1, <1>3, <1>6
  <2> QED BY <1>5, <1>6, <1>7, <2>1
<1>12. lost' \in Nat /\ noise' \in [{"master", "slave"} -> Nat]
  BY <1>1 DEF EInv
<1> QED BY <1>4, <1>10, <1>11, <1>12 DEF EInv

\* Every step keeps the balance.
LEMMA StepEnds == IInv /\ TInv /\ TInv' /\ EInv /\ [Next]_vars => EInv'
<1> SUFFICES ASSUME IInv, SlotsTyped, SlotsTyped', EInv, [Next]_vars PROVE EInv'
  BY DEF TInv
<1>k. ASSUME UNCHANGED << serving, queue, working, told, lost, noise >> PROVE EInv'
  <2>1. /\ Cardinality(serving' \cap Master) <= Cardinality(serving \cap Master)
        /\ Cardinality(serving' \cap Slave) <= Cardinality(serving \cap Slave)
    BY <1>k, ServedFinite
  <2> QED BY <1>k, <2>1, SameDue
<1>1. CASE UNCHANGED vars
  BY <1>1, <1>k DEF vars
<1>2. ASSUME NEW l \in Line, Raise(l) PROVE EInv'
  BY <1>2, <1>k DEF Raise
<1>3. ASSUME NEW l \in Line, Interrupt(l) PROVE EInv'
  BY <1>3, InterruptEnds
<1>4. ASSUME NEW c \in {"master", "slave"}, NEW l \in Line, Vanish(c, l) PROVE EInv'
  BY <1>4, VanishEnds
<1>5. CASE Yield
  BY <1>5, YieldEnds
<1>6. ASSUME NEW p \in Port, NEW l \in Line, Register(p, l) PROVE EInv'
  BY <1>6, <1>k DEF Register
<1>7. ASSUME NEW p \in Port, Receive(p) PROVE EInv'
  BY <1>7, ReceiveEnds
<1>8. ASSUME NEW p \in Port, FinishSlave(p) PROVE EInv'
  BY <1>8, FinishSlaveEnds
<1>9. ASSUME NEW p \in Port, Finish(p) PROVE EInv'
  BY <1>9, FinishEnds
<1> QED BY <1>1, <1>2, <1>3, <1>4, <1>5, <1>6, <1>7, <1>8, <1>9 DEF Next

\* Whichever lines the orders of pic_send_eoi end, there are enough of them: as
\* many are due as the controllers serve lines, but for the messages irq_handle
\* could not send and the slave's vanished requests.
THEOREM OrdersSuffice == Spec => []EndsSuffice
<1>1. TInv /\ EInv => EndsSuffice
  BY EInvSuffices DEF TInv
<1> QED BY <1>1, InitInvariant, StepInvariant, TInvInit, TInvStep, InitEnds, StepEnds, PTL DEF Spec
-----------------------------------------------------------------------------
(* Devices: messages on ports *)

\* Messages that ask for an answer on port p, and answers for p.
CallsIn(b, p) ==
    {x \in Positions(b) : ItemAt(b, x).kind \in Asking /\ ItemAt(b, x).port = p}
AnswersIn(b, p) == {i \in DOMAIN b[p] : b[p][i].kind \in Answers(p)}
OnPorts(b, p) == Cardinality(AnswersIn(b, p)) + Cardinality(CallsIn(b, p))

\* How many of each kind a message is.
IsCall(m, p) == IF m.kind \in Asking /\ m.port = p THEN 1 ELSE 0
IsAnswer(q, m, p) == IF q = p /\ m.kind \in Answers(p) THEN 1 ELSE 0

\* Ports with lists of messages, few enough to be counted.
Ports(b) == IsFamily(b) /\ \A p : IsFiniteSet(CallsIn(b, p))

\* Of the messages M, the answers for port p and those that ask for one.
AnswersOf(M, p) == {m \in M : m.kind \in Answers(p)}
CallsOf(M, p) == {m \in M : m.kind \in Asking /\ m.port = p}

\* A list of messages becomes another one: the counts go with those of the lists.
LEMMA PortPut ==
    ASSUME NEW b, Ports(b), NEW q \in DOMAIN b, NEW U, NEW s \in Seq(U), NEW p,
           NEW M, ToSet(b[q]) \subseteq M, ToSet(s) \subseteq M,
           NEW A, A = AnswersOf(M, p), NEW C, C = CallsOf(M, p),
           NEW b1, Replaces(b1, b, q, s)
    PROVE  /\ IsFiniteSet(CallsIn(b1, p))
           /\ Cardinality(CallsIn(b, p)) \in Nat /\ Cardinality(CallsIn(b1, p)) \in Nat
           /\ Cardinality(CallsIn(b1, p)) + Tally(b[q], C)
                = Cardinality(CallsIn(b, p)) + Tally(s, C)
           /\ p \in DOMAIN b =>
                /\ Cardinality(AnswersIn(b, p)) \in Nat
                /\ Cardinality(AnswersIn(b1, p)) \in Nat
                /\ q # p => Cardinality(AnswersIn(b1, p)) = Cardinality(AnswersIn(b, p))
                /\ q = p => /\ Cardinality(AnswersIn(b, p)) = Tally(b[q], A)
                            /\ Cardinality(AnswersIn(b1, p)) = Tally(s, A)
<1>1. /\ DOMAIN b1 = DOMAIN b
      /\ \A l \in DOMAIN b : b1[l] = IF l = q THEN s ELSE b[l]
  BY DEF Replaces
<1>2. PICK T : b \in [DOMAIN b -> Seq(T)]
  BY DEF Ports, IsFamily
<1> DEFINE other == {ItemAt(b, x) : x \in {y \in Positions(b) : y[1] # q}}
           D == {m \in other \cup ToSet(b[q]) \cup ToSet(s) : m.kind \in Asking /\ m.port = p}
<1>3. CallsIn(b, p) = Hits(b, D)
  <2>1. ASSUME NEW x \in Positions(b)
        PROVE  ItemAt(b, x) \in D <=> ItemAt(b, x).kind \in Asking /\ ItemAt(b, x).port = p
    <3>1. ItemAt(b, x) \in other \cup ToSet(b[q])
      BY DEF Positions, ItemAt, ToSet
    <3> QED BY <3>1
  <2> HIDE DEF D
  <2> QED BY <2>1 DEF CallsIn, Hits
<1>4. CallsIn(b1, p) = Hits(b1, D)
  <2>1. ASSUME NEW x \in Positions(b1)
        PROVE  ItemAt(b1, x) \in D <=> ItemAt(b1, x).kind \in Asking /\ ItemAt(b1, x).port = p
    <3>1. PICK l \in DOMAIN b : \E i \in DOMAIN b1[l] : x = << l, i >>
      BY <1>1 DEF Positions
    <3>2. PICK i \in DOMAIN b1[l] : x = << l, i >>
      BY <3>1
    <3>3. CASE l = q
      <4>1. ItemAt(b1, x) = s[i] /\ i \in DOMAIN s
        BY <1>1, <3>2, <3>3 DEF ItemAt
      <4>2. ItemAt(b1, x) \in ToSet(s)
        BY <4>1 DEF ToSet
      <4> QED BY <4>2
    <3>4. CASE l # q
      <4>1. b1[l] = b[l]
        BY <1>1, <3>4
      <4>2. x \in Positions(b) /\ x[1] # q /\ ItemAt(b1, x) = ItemAt(b, x)
        BY <3>2, <3>4, <4>1 DEF Positions, ItemAt
      <4> QED BY <4>2
    <3> QED BY <3>3, <3>4
  <2> HIDE DEF D
  <2> QED BY <2>1 DEF CallsIn, Hits
<1>5. ASSUME NEW W, NEW t \in Seq(W), ToSet(t) \subseteq ToSet(b[q]) \cup ToSet(s)
      PROVE  Tally(t, D) = Tally(t, C) /\ {i \in DOMAIN t : t[i].kind \in Answers(p)} = TallyAt(t, A)
  <2>1. \A i \in DOMAIN t : t[i] \in ToSet(t)
    BY DEF ToSet
  <2>2. \A i \in DOMAIN t : t[i] \in D <=> t[i] \in C
    BY <1>5, <2>1 DEF CallsOf
  <2>3. \A i \in DOMAIN t : t[i] \in A <=> t[i].kind \in Answers(p)
    BY <1>5, <2>1 DEF AnswersOf
  <2>4. TallyAt(t, D) = TallyAt(t, C)
    <3> HIDE DEF D
    <3> QED BY <2>2 DEF TallyAt
  <2>5. {i \in DOMAIN t : t[i].kind \in Answers(p)} = TallyAt(t, A)
    BY <2>3 DEF TallyAt
  <2> HIDE DEF D
  <2> QED BY <2>4, <2>5 DEF Tally
<1> HIDE DEF D, other
<1>6. b[q] \in Seq(T) /\ b1[q] = s
  BY <1>1, <1>2
<1>7. /\ IsFiniteSet(Hits(b1, D))
      /\ Cardinality(Hits(b1, D)) + Tally(b[q], D) = Cardinality(Hits(b, D)) + Tally(s, D)
      /\ Cardinality(Hits(b, D)) \in Nat /\ Cardinality(Hits(b1, D)) \in Nat
  <2>1. IsFamily(b) /\ IsFiniteSet(Hits(b, D))
    BY <1>3 DEF Ports
  <2> QED BY <2>1, HitsPut
<1>8. Tally(b[q], D) = Tally(b[q], C) /\ Tally(s, D) = Tally(s, C)
  BY <1>5, <1>6
<1>9. ASSUME p \in DOMAIN b
      PROVE  /\ Cardinality(AnswersIn(b, p)) \in Nat
             /\ Cardinality(AnswersIn(b1, p)) \in Nat
             /\ q # p => Cardinality(AnswersIn(b1, p)) = Cardinality(AnswersIn(b, p))
             /\ q = p => /\ Cardinality(AnswersIn(b, p)) = Tally(b[q], A)
                         /\ Cardinality(AnswersIn(b1, p)) = Tally(s, A)
  <2>1. CASE q # p
    <3>1. b1[p] = b[p] /\ b[p] \in Seq(T)
      BY <1>1, <1>2, <1>9, <2>1
    <3>2. AnswersIn(b1, p) = AnswersIn(b, p)
      BY <3>1 DEF AnswersIn
    <3>3. AnswersIn(b, p) \subseteq 1 .. Len(b[p]) /\ Len(b[p]) \in Nat
      BY <3>1 DEF AnswersIn
    <3>4. IsFiniteSet(AnswersIn(b, p))
      <4>1. IsFiniteSet(1 .. Len(b[p]))
        <5>1. 1 \in Int /\ Len(b[p]) \in Int
          BY <3>3
        <5> QED BY <5>1, FS_Interval, Zenon
      <4> QED BY <3>3, <4>1, FS_Subset
    <3> QED BY <2>1, <3>2, <3>4, FS_CardinalityType
  <2>2. CASE q = p
    <3>1. AnswersIn(b, p) = TallyAt(b[q], A) /\ AnswersIn(b1, p) = TallyAt(s, A)
      BY <1>5, <1>6, <2>2 DEF AnswersIn
    <3>2. Tally(b[q], A) \in Nat /\ Tally(s, A) \in Nat
      BY <1>6, TallyTyped
    <3> QED BY <2>2, <3>1, <3>2 DEF Tally
  <2> QED BY <2>1, <2>2
<1> QED BY <1>3, <1>4, <1>7, <1>8, <1>9

\* Of the notices of an interrupt there is one at most.
OneNotice(s) == \A i, j \in DOMAIN s : s[i].kind = "irq" /\ s[j].kind = "irq" => i = j
NoNotice(s) == \A x \in ToSet(s) : x.kind # "irq"

\* The messages of b are in b1 too, and m on port q; those of b1 but m are in b.
Adds(b1, b, q, m) ==
    /\ \A k \in DOMAIN b :
         /\ ToSet(b[k]) \subseteq ToSet(b1[k])
         /\ OneNotice(b[k]) /\ (k = q /\ m.kind = "irq" => NoNotice(b[k])) => OneNotice(b1[k])
    /\ q \in DOMAIN b => m \in ToSet(b1[q])

Removes(b1, b, q, m) ==
    /\ \A k \in DOMAIN b : \A x \in ToSet(b[k]) : x \in ToSet(b1[k]) \/ (k = q /\ x = m)
    /\ \A k \in DOMAIN b : OneNotice(b[k]) => OneNotice(b1[k])
    /\ OneNotice(b[q]) /\ m.kind = "irq" => NoNotice(b1[q])

\* A message more at the end of a list.
LEMMA NoticeSent ==
    ASSUME NEW U, NEW s \in Seq(U), NEW m \in U, OneNotice(s), m.kind = "irq" => NoNotice(s)
    PROVE  OneNotice(Append(s, m))
<1> DEFINE t == Append(s, m)
<1>1. /\ Len(s) \in Nat /\ DOMAIN s = 1 .. Len(s) /\ DOMAIN t = 1 .. Len(s) + 1
      /\ t[Len(s) + 1] = m /\ \A i \in 1 .. Len(s) : t[i] = s[i]
  OBVIOUS
<1>2. \A i \in 1 .. Len(s) : m.kind = "irq" => s[i].kind # "irq"
  BY <1>1 DEF NoNotice, ToSet
<1> HIDE DEF t
<1> SUFFICES ASSUME NEW i \in DOMAIN t, NEW j \in DOMAIN t, t[i].kind = "irq", t[j].kind = "irq"
             PROVE  i = j
  BY DEF OneNotice, t
<1>3. CASE i \in 1 .. Len(s) /\ j \in 1 .. Len(s)
  BY <1>1, <1>3 DEF OneNotice
<1>4. CASE i \notin 1 .. Len(s) \/ j \notin 1 .. Len(s)
  BY <1>1, <1>2, <1>4
<1> QED BY <1>3, <1>4

\* A message less at its front.
LEMMA NoticeTaken ==
    ASSUME NEW U, NEW s \in Seq(U), s # << >>, OneNotice(s)
    PROVE  OneNotice(Tail(s)) /\ (Head(s).kind = "irq" => NoNotice(Tail(s)))
<1> DEFINE t == Tail(s)
<1>1. /\ Len(s) \in Nat /\ Len(s) > 0 /\ DOMAIN s = 1 .. Len(s) /\ DOMAIN t = 1 .. Len(s) - 1
      /\ Head(s) = s[1] /\ \A i \in 1 .. Len(s) - 1 : t[i] = s[i + 1]
  OBVIOUS
<1> HIDE DEF t
<1>2. \A i \in DOMAIN t : i \in Int /\ i + 1 \in DOMAIN s /\ i + 1 # 1 /\ t[i] = s[i + 1]
  BY <1>1
<1>3. \A i, j \in DOMAIN t : t[i].kind = "irq" /\ t[j].kind = "irq" => i = j
  <2> SUFFICES ASSUME NEW i \in DOMAIN t, NEW j \in DOMAIN t, t[i].kind = "irq", t[j].kind = "irq"
               PROVE  i = j
    OBVIOUS
  <2>1. s[i + 1].kind = "irq" /\ s[j + 1].kind = "irq" /\ i + 1 \in DOMAIN s /\ j + 1 \in DOMAIN s
    BY <1>2
  <2>2. i + 1 = j + 1
    BY <2>1 DEF OneNotice
  <2> QED BY <1>2, <2>2
<1>4. ASSUME Head(s).kind = "irq", NEW i \in DOMAIN t PROVE t[i].kind # "irq"
  <2>1. 1 \in DOMAIN s /\ s[1].kind = "irq"
    BY <1>1, <1>4
  <2> QED BY <1>2, <2>1 DEF OneNotice
<1> QED BY <1>3, <1>4 DEF OneNotice, NoNotice, ToSet, t

\* b1 is b after message m was sent to port q, if there is one: m counts where it is a
\* call or an answer.
MessageSent(b1, b, q, m) ==
    /\ Ports(b1) /\ DOMAIN b1 = DOMAIN b
    /\ Adds(b1, b, q, m)
    /\ \A k \in DOMAIN b : ToSet(b1[k]) \subseteq ToSet(b[k]) \cup IF k = q THEN {m} ELSE {}
    /\ \A p \in DOMAIN b :
         /\ OnPorts(b, p) \in Nat /\ OnPorts(b1, p) \in Nat
         /\ OnPorts(b1, p) = OnPorts(b, p) + (IF q \in DOMAIN b THEN IsCall(m, p) ELSE 0)
                                           + IsAnswer(q, m, p)

\* b1 is b without the first message m of port q.
MessageTaken(b1, b, q, m) ==
    /\ Ports(b1) /\ DOMAIN b1 = DOMAIN b
    /\ Removes(b1, b, q, m)
    /\ m \in ToSet(b[q])
    /\ \A k \in DOMAIN b : ToSet(b1[k]) \subseteq ToSet(b[k])
    /\ \A p \in DOMAIN b :
         /\ OnPorts(b, p) \in Nat /\ OnPorts(b1, p) \in Nat
         /\ OnPorts(b, p) = OnPorts(b1, p) + IsCall(m, p) + IsAnswer(q, m, p)

\* A message more on a port counts once.
LEMMA PortPush ==
    ASSUME NEW b, Ports(b), NEW q \in DOMAIN b, NEW m,
           NEW b1, b1 = [b EXCEPT ![q] = Append(b[q], m)]
    PROVE  MessageSent(b1, b, q, m)
<1>1. PICK T : b \in [DOMAIN b -> Seq(T)]
  BY DEF Ports, IsFamily
<1> DEFINE U == T \cup {m}
           s == Append(b[q], m)
<1>2. b[q] \in Seq(U) /\ m \in U
  BY <1>1, SeqOfMore
<1>3. s \in Seq(U) /\ ToSet(s) = ToSet(b[q]) \cup {m}
  BY <1>2, AppendElements
<1>4. IsFamily(b1) /\ Replaces(b1, b, q, s)
  <2> HIDE DEF U
  <2>1. b1 = [b EXCEPT ![q] = s]
    OBVIOUS
  <2> HIDE DEF s
  <2> QED BY <1>3, <2>1, FamilyPut DEF Ports
<1>5. ASSUME NEW p
      PROVE  /\ IsFiniteSet(CallsIn(b1, p))
             /\ Cardinality(CallsIn(b, p)) \in Nat /\ Cardinality(CallsIn(b1, p)) \in Nat
             /\ Cardinality(CallsIn(b1, p)) = Cardinality(CallsIn(b, p)) + IsCall(m, p)
             /\ p \in DOMAIN b =>
                  /\ Cardinality(AnswersIn(b, p)) \in Nat
                  /\ Cardinality(AnswersIn(b1, p))
                       = Cardinality(AnswersIn(b, p)) + IsAnswer(q, m, p)
  <2> DEFINE M == ToSet(b[q]) \cup {m}
             A == AnswersOf(M, p)
             C == CallsOf(M, p)
  <2>1. ToSet(b[q]) \subseteq M /\ ToSet(s) \subseteq M
    BY <1>3
  <2>2. (m \in A <=> m.kind \in Answers(p)) /\ (m \in C <=> m.kind \in Asking /\ m.port = p)
    BY DEF AnswersOf, CallsOf
  <2>3. /\ Tally(s, A) = Tally(b[q], A) + IF m \in A THEN 1 ELSE 0
        /\ Tally(s, C) = Tally(b[q], C) + IF m \in C THEN 1 ELSE 0
        /\ Tally(b[q], A) \in Nat /\ Tally(b[q], C) \in Nat
    <3> HIDE DEF A, C, U
    <3> QED BY <1>2, TallyAppend, TallyTyped
  <2>0. A = AnswersOf(M, p) /\ C = CallsOf(M, p)
    OBVIOUS
  <2> HIDE DEF A, C, M, U, s
  <2>4. /\ IsFiniteSet(CallsIn(b1, p))
        /\ Cardinality(CallsIn(b, p)) \in Nat /\ Cardinality(CallsIn(b1, p)) \in Nat
        /\ Cardinality(CallsIn(b1, p)) + Tally(b[q], C) = Cardinality(CallsIn(b, p)) + Tally(s, C)
        /\ p \in DOMAIN b =>
             /\ Cardinality(AnswersIn(b, p)) \in Nat
             /\ q # p => Cardinality(AnswersIn(b1, p)) = Cardinality(AnswersIn(b, p))
             /\ q = p => /\ Cardinality(AnswersIn(b, p)) = Tally(b[q], A)
                         /\ Cardinality(AnswersIn(b1, p)) = Tally(s, A)
    BY <1>3, <1>4, <2>0, <2>1, PortPut
  <2>5. Cardinality(CallsIn(b1, p)) = Cardinality(CallsIn(b, p)) + IsCall(m, p)
    BY <2>2, <2>3, <2>4 DEF IsCall
  <2>6. p \in DOMAIN b =>
          Cardinality(AnswersIn(b1, p)) = Cardinality(AnswersIn(b, p)) + IsAnswer(q, m, p)
    BY <2>2, <2>3, <2>4 DEF IsAnswer
  <2> QED BY <2>4, <2>5, <2>6
<1>6. Ports(b1) /\ DOMAIN b1 = DOMAIN b
  BY <1>4, <1>5 DEF Ports, Replaces
<1>7. \A k \in DOMAIN b : ToSet(b1[k]) \subseteq ToSet(b[k]) \cup IF k = q THEN {m} ELSE {}
  <2> HIDE DEF s
  <2> QED BY <1>3, <1>4 DEF Replaces
<1>8. ASSUME NEW p \in DOMAIN b
      PROVE  /\ OnPorts(b, p) \in Nat /\ OnPorts(b1, p) \in Nat
             /\ OnPorts(b1, p) = OnPorts(b, p) + IsCall(m, p) + IsAnswer(q, m, p)
  <2>1. IsCall(m, p) \in Nat /\ IsAnswer(q, m, p) \in Nat
    BY DEF IsCall, IsAnswer
  <2>2. /\ Cardinality(CallsIn(b, p)) \in Nat /\ Cardinality(AnswersIn(b, p)) \in Nat
        /\ Cardinality(CallsIn(b1, p)) = Cardinality(CallsIn(b, p)) + IsCall(m, p)
        /\ Cardinality(AnswersIn(b1, p)) = Cardinality(AnswersIn(b, p)) + IsAnswer(q, m, p)
    BY <1>5, Zenon
  <2>3. /\ OnPorts(b, p) = Cardinality(AnswersIn(b, p)) + Cardinality(CallsIn(b, p))
        /\ OnPorts(b1, p) = Cardinality(AnswersIn(b1, p)) + Cardinality(CallsIn(b1, p))
    BY DEF OnPorts
  <2> QED BY <2>1, <2>2, <2>3
<1>9. Adds(b1, b, q, m)
  <2>1. DOMAIN b1 = DOMAIN b /\ \A k \in DOMAIN b : b1[k] = IF k = q THEN s ELSE b[k]
    BY <1>4 DEF Replaces
  <2>2. OneNotice(b[q]) /\ (m.kind = "irq" => NoNotice(b[q])) => OneNotice(s)
    <3> HIDE DEF U
    <3> QED BY <1>2, NoticeSent
  <2> HIDE DEF s, U
  <2> QED BY <1>3, <2>1, <2>2 DEF Adds
<1> QED BY <1>6, <1>7, <1>8, <1>9 DEF MessageSent

\* The first message of a port is taken off.
LEMMA PortPop ==
    ASSUME NEW b, Ports(b), NEW q \in DOMAIN b, b[q] # << >>,
           NEW b1, b1 = [b EXCEPT ![q] = Tail(b[q])]
    PROVE  MessageTaken(b1, b, q, Head(b[q]))
<1>1. PICK T : b \in [DOMAIN b -> Seq(T)]
  BY DEF Ports, IsFamily
<1> DEFINE s == Tail(b[q])
           m == Head(b[q])
<1>2. b[q] \in Seq(T)
  BY <1>1
<1>3. m \in T /\ s \in Seq(T) /\ ToSet(b[q]) = ToSet(s) \cup {m}
  BY <1>2, PopElements
<1>4. IsFamily(b1) /\ Replaces(b1, b, q, s)
  <2>1. b1 = [b EXCEPT ![q] = s]
    OBVIOUS
  <2> HIDE DEF s
  <2> QED BY <1>3, <2>1, FamilyPut DEF Ports
<1>5. ASSUME NEW p
      PROVE  /\ IsFiniteSet(CallsIn(b1, p))
             /\ Cardinality(CallsIn(b1, p)) \in Nat
             /\ Cardinality(CallsIn(b, p)) = Cardinality(CallsIn(b1, p)) + IsCall(m, p)
             /\ p \in DOMAIN b =>
                  /\ Cardinality(AnswersIn(b1, p)) \in Nat
                  /\ Cardinality(AnswersIn(b, p))
                       = Cardinality(AnswersIn(b1, p)) + IsAnswer(q, m, p)
  <2> DEFINE M == ToSet(b[q])
             A == AnswersOf(M, p)
             C == CallsOf(M, p)
  <2>1. ToSet(b[q]) \subseteq M /\ ToSet(s) \subseteq M
    BY <1>3
  <2>2. (m \in A <=> m.kind \in Answers(p)) /\ (m \in C <=> m.kind \in Asking /\ m.port = p)
    BY <1>3 DEF AnswersOf, CallsOf
  <2>3. /\ Tally(b[q], A) = Tally(s, A) + IF m \in A THEN 1 ELSE 0
        /\ Tally(b[q], C) = Tally(s, C) + IF m \in C THEN 1 ELSE 0
        /\ Tally(s, A) \in Nat /\ Tally(s, C) \in Nat
    <3> HIDE DEF A, C
    <3> QED BY <1>2, <1>3, TallyPop, TallyTyped
  <2>0. A = AnswersOf(M, p) /\ C = CallsOf(M, p)
    OBVIOUS
  <2> HIDE DEF A, C, M, s, m
  <2>4. /\ IsFiniteSet(CallsIn(b1, p))
        /\ Cardinality(CallsIn(b, p)) \in Nat /\ Cardinality(CallsIn(b1, p)) \in Nat
        /\ Cardinality(CallsIn(b1, p)) + Tally(b[q], C) = Cardinality(CallsIn(b, p)) + Tally(s, C)
        /\ p \in DOMAIN b =>
             /\ Cardinality(AnswersIn(b1, p)) \in Nat
             /\ q # p => Cardinality(AnswersIn(b1, p)) = Cardinality(AnswersIn(b, p))
             /\ q = p => /\ Cardinality(AnswersIn(b, p)) = Tally(b[q], A)
                         /\ Cardinality(AnswersIn(b1, p)) = Tally(s, A)
    BY <1>3, <1>4, <2>0, <2>1, PortPut
  <2>5. Cardinality(CallsIn(b, p)) = Cardinality(CallsIn(b1, p)) + IsCall(m, p)
    BY <2>2, <2>3, <2>4 DEF IsCall
  <2>6. p \in DOMAIN b =>
          Cardinality(AnswersIn(b, p)) = Cardinality(AnswersIn(b1, p)) + IsAnswer(q, m, p)
    BY <2>2, <2>3, <2>4 DEF IsAnswer
  <2> QED BY <2>4, <2>5, <2>6
<1>6. Ports(b1) /\ DOMAIN b1 = DOMAIN b
  BY <1>4, <1>5 DEF Ports, Replaces
<1>7. m \in ToSet(b[q]) /\ \A k \in DOMAIN b : ToSet(b1[k]) \subseteq ToSet(b[k])
  <2> HIDE DEF s, m
  <2> QED BY <1>3, <1>4 DEF Replaces
<1>8. ASSUME NEW p \in DOMAIN b
      PROVE  /\ OnPorts(b, p) \in Nat /\ OnPorts(b1, p) \in Nat
             /\ OnPorts(b, p) = OnPorts(b1, p) + IsCall(m, p) + IsAnswer(q, m, p)
  <2>1. IsCall(m, p) \in Nat /\ IsAnswer(q, m, p) \in Nat
    BY DEF IsCall, IsAnswer
  <2> HIDE DEF m
  <2>2. /\ Cardinality(CallsIn(b1, p)) \in Nat /\ Cardinality(AnswersIn(b1, p)) \in Nat
        /\ Cardinality(CallsIn(b, p)) = Cardinality(CallsIn(b1, p)) + IsCall(m, p)
        /\ Cardinality(AnswersIn(b, p)) = Cardinality(AnswersIn(b1, p)) + IsAnswer(q, m, p)
    BY <1>5, Zenon
  <2>3. /\ OnPorts(b, p) = Cardinality(AnswersIn(b, p)) + Cardinality(CallsIn(b, p))
        /\ OnPorts(b1, p) = Cardinality(AnswersIn(b1, p)) + Cardinality(CallsIn(b1, p))
    BY DEF OnPorts
  <2> QED BY <2>1, <2>2, <2>3
<1>9. Removes(b1, b, q, m)
  <2>1. DOMAIN b1 = DOMAIN b /\ \A k \in DOMAIN b : b1[k] = IF k = q THEN s ELSE b[k]
    BY <1>4 DEF Replaces
  <2>2. OneNotice(b[q]) => OneNotice(s) /\ (m.kind = "irq" => NoNotice(s))
    BY <1>2, NoticeTaken
  <2> HIDE DEF s, m
  <2> QED BY <1>3, <2>1, <2>2 DEF Removes
<1> QED BY <1>6, <1>7, <1>8, <1>9 DEF MessageTaken

\* What it is to be a message that asks for an answer.
LEMMA CallPlaces ==
    ASSUME NEW b, NEW p, NEW x
    PROVE  x \in CallsIn(b, p) <=>
             \E l \in DOMAIN b : \E i \in DOMAIN b[l] :
                x = << l, i >> /\ b[l][i].kind \in Asking /\ b[l][i].port = p
  BY DEF CallsIn, Positions, ItemAt

\* Ports that are kept keep the calls on them.
LEMMA CallsOfMore ==
    ASSUME NEW b, NEW b1, NEW p, \A k \in DOMAIN b : k \in DOMAIN b1 /\ b1[k] = b[k]
    PROVE  CallsIn(b, p) \subseteq CallsIn(b1, p)
<1> SUFFICES ASSUME NEW x \in CallsIn(b, p) PROVE x \in CallsIn(b1, p)
  OBVIOUS
<1>1. PICK l \in DOMAIN b : \E i \in DOMAIN b[l] :
        x = << l, i >> /\ b[l][i].kind \in Asking /\ b[l][i].port = p
  BY CallPlaces
<1>2. l \in DOMAIN b1 /\ b1[l] = b[l]
  OBVIOUS
<1> QED BY <1>1, <1>2, CallPlaces

\* The counts of a port are numbers.
LEMMA PortsCount ==
    ASSUME NEW b, Ports(b), NEW p \in DOMAIN b
    PROVE  /\ IsFiniteSet(AnswersIn(b, p)) /\ IsFiniteSet(CallsIn(b, p))
           /\ Cardinality(AnswersIn(b, p)) \in Nat /\ Cardinality(CallsIn(b, p)) \in Nat
           /\ OnPorts(b, p) \in Nat
<1>1. PICK T : b \in [DOMAIN b -> Seq(T)]
  BY DEF Ports, IsFamily
<1>2. b[p] \in Seq(T)
  BY <1>1
<1>3. AnswersIn(b, p) \subseteq 1 .. Len(b[p]) /\ 1 \in Int /\ Len(b[p]) \in Int
  BY <1>2 DEF AnswersIn
<1>4. IsFiniteSet(1 .. Len(b[p]))
  BY <1>3, FS_Interval, Zenon
<1>5. IsFiniteSet(AnswersIn(b, p)) /\ IsFiniteSet(CallsIn(b, p))
  BY <1>3, <1>4, FS_Subset DEF Ports
<1>6. Cardinality(AnswersIn(b, p)) \in Nat /\ Cardinality(CallsIn(b, p)) \in Nat
  BY <1>5, FS_CardinalityType
<1> QED BY <1>5, <1>6 DEF OnPorts

\* Sending counts the message, unless there is no such port.
LEMMA PortSend ==
    ASSUME NEW b, Ports(b), NEW q, NEW m, NEW b1, b1 = Sent(b, q, m)
    PROVE  MessageSent(b1, b, q, m)
<1>1. CASE q \in DOMAIN b
  <2>1. b1 = [b EXCEPT ![q] = Append(b[q], m)]
    BY <1>1 DEF Sent
  <2> QED BY <1>1, <2>1, PortPush
<1>2. CASE q \notin DOMAIN b
  <2>1. b1 = b
    BY <1>2 DEF Sent
  <2>2. ASSUME NEW p \in DOMAIN b PROVE OnPorts(b, p) \in Nat /\ IsAnswer(q, m, p) = 0
    BY <1>2, PortsCount DEF IsAnswer
  <2>3. Adds(b1, b, q, m)
    BY <1>2, <2>1 DEF Adds
  <2> QED BY <1>2, <2>1, <2>2, <2>3 DEF MessageSent
<1> QED BY <1>1, <1>2

\* Ports are gone that nobody is asked to answer on.
LEMMA PortDrop ==
    ASSUME NEW b, Ports(b), NEW q \in DOMAIN b,
           \A m \in ToSet(b[q]) : m.kind \notin Asking,
           NEW b1, b1 = Restrict(b, DOMAIN b \ {q})
    PROVE  /\ Ports(b1) /\ DOMAIN b1 = DOMAIN b \ {q}
           /\ \A k \in DOMAIN b1 : b1[k] = b[k] /\ OnPorts(b1, k) = OnPorts(b, k)
<1>1. DOMAIN b1 = DOMAIN b \ {q} /\ \A k \in DOMAIN b1 : b1[k] = b[k]
  BY DEF Restrict
<1>2. PICK T : b \in [DOMAIN b -> Seq(T)]
  BY DEF Ports, IsFamily
<1>3. IsFamily(b1)
  <2>1. b1 = [k \in DOMAIN b1 |-> b1[k]]
    BY DEF Restrict
  <2>2. b1 \in [DOMAIN b1 -> Seq(T)]
    BY <1>1, <1>2, <2>1
  <2> QED BY <2>2, Zenon DEF IsFamily
<1>4. ASSUME NEW p PROVE CallsIn(b1, p) = CallsIn(b, p)
  <2>1. CallsIn(b1, p) \subseteq CallsIn(b, p)
    <3>1. \A k \in DOMAIN b1 : k \in DOMAIN b /\ b[k] = b1[k]
      BY <1>1
    <3> QED BY <3>1, CallsOfMore
  <2>2. ASSUME NEW x \in CallsIn(b, p) PROVE x \in CallsIn(b1, p)
    <3>1. PICK l \in DOMAIN b : \E i \in DOMAIN b[l] :
            x = << l, i >> /\ b[l][i].kind \in Asking /\ b[l][i].port = p
      BY CallPlaces
    <3>2. l # q
      BY <3>1 DEF ToSet
    <3>3. l \in DOMAIN b1 /\ b1[l] = b[l]
      BY <1>1, <3>2
    <3> QED BY <3>1, <3>3, CallPlaces
  <2> QED BY <2>1, <2>2
<1>5. \A k \in DOMAIN b1 : OnPorts(b1, k) = OnPorts(b, k)
  BY <1>1, <1>4 DEF OnPorts, AnswersIn
<1>6. Ports(b1)
  BY <1>3, <1>4 DEF Ports
<1> QED BY <1>1, <1>5, <1>6

\* b1 is b with the port n more.
Created(b1, b, n) == b1 = [q \in DOMAIN b \cup {n} |-> IF q = n THEN << >> ELSE b[q]]

\* No message asks for an answer on port n.
NobodyAsks(b, n) ==
    \A k \in DOMAIN b : \A m \in ToSet(b[k]) : m.kind \in Asking => m.port # n

\* What b1 is then.
Widened(b1, b, n) ==
    /\ Ports(b1) /\ DOMAIN b1 = DOMAIN b \cup {n}
    /\ ToSet(b1[n]) = {} /\ \A k \in DOMAIN b : b1[k] = b[k]
    /\ \A k \in DOMAIN b : OnPorts(b1, k) = OnPorts(b, k)
    /\ NobodyAsks(b, n) => OnPorts(b1, n) = 0

\* A new port holds nothing, and nothing else changes.
LEMMA PortAdd ==
    ASSUME NEW b, Ports(b), NEW n, n \notin DOMAIN b, NEW b1, Created(b1, b, n)
    PROVE  Widened(b1, b, n)
<1>1. /\ DOMAIN b1 = DOMAIN b \cup {n}
      /\ b1[n] = << >> /\ \A k \in DOMAIN b : b1[k] = b[k]
  BY DEF Created
<1>2. PICK T : b \in [DOMAIN b -> Seq(T)]
  BY DEF Ports, IsFamily
<1>3. IsFamily(b1)
  <2>1. b1 = [k \in DOMAIN b1 |-> b1[k]]
    BY DEF Created
  <2>2. << >> \in Seq(T)
    BY EmptySeq
  <2>3. b1 \in [DOMAIN b1 -> Seq(T)]
    BY <1>1, <1>2, <2>1, <2>2
  <2> QED BY <2>3, Zenon DEF IsFamily
<1>4. ASSUME NEW p PROVE CallsIn(b1, p) = CallsIn(b, p)
  <2>1. DOMAIN b1[n] = {}
    BY <1>1
  <2>2. ASSUME NEW x PROVE x \in CallsIn(b1, p) <=> x \in CallsIn(b, p)
    <3>1. ASSUME x \in CallsIn(b1, p) PROVE x \in CallsIn(b, p)
      <4>1. PICK l \in DOMAIN b1 : \E i \in DOMAIN b1[l] :
              x = << l, i >> /\ b1[l][i].kind \in Asking /\ b1[l][i].port = p
        BY <3>1, CallPlaces
      <4>2. l \in DOMAIN b /\ b1[l] = b[l]
        BY <1>1, <2>1, <4>1
      <4> QED BY <4>1, <4>2, CallPlaces
    <3>2. ASSUME x \in CallsIn(b, p) PROVE x \in CallsIn(b1, p)
      <4>1. PICK l \in DOMAIN b : \E i \in DOMAIN b[l] :
              x = << l, i >> /\ b[l][i].kind \in Asking /\ b[l][i].port = p
        BY <3>2, CallPlaces
      <4>2. l \in DOMAIN b1 /\ b1[l] = b[l]
        BY <1>1
      <4> QED BY <4>1, <4>2, CallPlaces
    <3> QED BY <3>1, <3>2
  <2>3. \A x : x \in CallsIn(b1, p) <=> x \in CallsIn(b, p)
    BY <2>2
  <2> QED BY <2>3, Zenon DEF CallsIn
<1>5. \A k \in DOMAIN b : OnPorts(b1, k) = OnPorts(b, k)
  BY <1>1, <1>4 DEF OnPorts, AnswersIn
<1>6. Ports(b1)
  BY <1>3, <1>4 DEF Ports
<1>7. ASSUME NobodyAsks(b, n)
      PROVE  OnPorts(b1, n) = 0
  <2>1. CallsIn(b, n) = {}
    BY <1>7 DEF NobodyAsks, CallsIn, Positions, ItemAt, ToSet
  <2>2. AnswersIn(b1, n) = {}
    BY <1>1 DEF AnswersIn
  <2>3. CallsIn(b1, n) = {}
    BY <1>4, <2>1, Zenon
  <2>4. Cardinality({}) = 0
    BY FS_EmptySet
  <2>5. Cardinality(AnswersIn(b1, n)) = 0 /\ Cardinality(CallsIn(b1, n)) = 0
    BY <2>2, <2>3, <2>4, Zenon
  <2>6. OnPorts(b1, n) = Cardinality(AnswersIn(b1, n)) + Cardinality(CallsIn(b1, n))
    BY DEF OnPorts
  <2> QED BY <2>5, <2>6
<1>8. ToSet(b1[n]) = {}
  BY <1>1 DEF ToSet
<1> QED BY <1>1, <1>5, <1>6, <1>7, <1>8 DEF Widened

\* How many of the first n envelopes go to port p.
Sendings(envelopes, n, p) == Cardinality({i \in 1 .. n : envelopes[i].to = p})

\* What b holds is in b1 too.
Widens(b1, b) ==
    \A k \in DOMAIN b : ToSet(b[k]) \subseteq ToSet(b1[k]) /\ (OneNotice(b[k]) => OneNotice(b1[k]))

\* b1 is b after the first n envelopes, all of them answers, were sent.
AllSent(b1, b, envelopes, n) ==
    /\ Ports(b1) /\ DOMAIN b1 = DOMAIN b
    /\ Widens(b1, b)
    /\ \A k \in DOMAIN b : \A m \in ToSet(b1[k]) :
         m \in ToSet(b[k]) \/ \E i \in 1 .. n : envelopes[i].to = k /\ m = envelopes[i].msg
    /\ \A p \in DOMAIN b :
         /\ OnPorts(b, p) \in Nat /\ Sendings(envelopes, n, p) \in Nat
         /\ OnPorts(b1, p) = OnPorts(b, p) + Sendings(envelopes, n, p)

AnswerKinds == {"found", "opened", "done"}

\* One envelope more is counted.
LEMMA SendingsMore ==
    ASSUME NEW n \in Nat, NEW envelopes, NEW p
    PROVE  /\ Sendings(envelopes, n, p) \in Nat
           /\ Sendings(envelopes, n + 1, p)
                = Sendings(envelopes, n, p) + IF envelopes[n + 1].to = p THEN 1 ELSE 0
<1> DEFINE S == {i \in 1 .. n : envelopes[i].to = p}
           S1 == {i \in 1 .. n + 1 : envelopes[i].to = p}
<1>1. IsFiniteSet(S) /\ n + 1 \notin S
  <2>1. S \subseteq 1 .. n /\ n + 1 \notin S
    OBVIOUS
  <2>2. IsFiniteSet(1 .. n)
    BY FS_Interval
  <2> HIDE DEF S
  <2> QED BY <2>1, <2>2, FS_Subset
<1>2. S1 = IF envelopes[n + 1].to = p THEN S \cup {n + 1} ELSE S
  OBVIOUS
<1>3. Cardinality(S) \in Nat /\ Cardinality(S \cup {n + 1}) = Cardinality(S) + 1
  <2> HIDE DEF S
  <2> QED BY <1>1, FS_AddElement, FS_CardinalityType
<1>4. Sendings(envelopes, n, p) = Cardinality(S) /\ Sendings(envelopes, n + 1, p) = Cardinality(S1)
  BY DEF Sendings
<1> HIDE DEF S, S1
<1> QED BY <1>2, <1>3, <1>4

\* No envelope, nothing sent.
LEMMA SendingsNone ==
    ASSUME NEW envelopes, NEW p
    PROVE  Sendings(envelopes, 0, p) = 0
<1>1. {i \in 1 .. 0 : envelopes[i].to = p} = {}
  OBVIOUS
<1> QED BY <1>1, FS_EmptySet DEF Sendings

\* One envelope more.
LEMMA OneMoreSent ==
    ASSUME NEW b, NEW envelopes, NEW n \in Nat, NEW b1, AllSent(b1, b, envelopes, n),
           envelopes[n + 1].msg.kind \in AnswerKinds,
           NEW b2, b2 = Sent(b1, envelopes[n + 1].to, envelopes[n + 1].msg)
    PROVE  AllSent(b2, b, envelopes, n + 1)
<1> DEFINE q == envelopes[n + 1].to
           m == envelopes[n + 1].msg
<1>1. Ports(b1) /\ DOMAIN b1 = DOMAIN b
  BY DEF AllSent
<1>2. MessageSent(b2, b1, q, m)
  BY <1>1, PortSend
<1>3. m.kind \in AnswerKinds
  OBVIOUS
<1>4. n + 1 \in 1 .. n + 1 /\ \A i \in 1 .. n : i \in 1 .. n + 1
  OBVIOUS
<1>5. \A k \in DOMAIN b : \A x \in ToSet(b2[k]) :
        x \in ToSet(b[k]) \/ \E i \in 1 .. n + 1 : envelopes[i].to = k /\ x = envelopes[i].msg
  <2> SUFFICES ASSUME NEW k \in DOMAIN b, NEW x \in ToSet(b2[k])
               PROVE  x \in ToSet(b[k])
                        \/ \E i \in 1 .. n + 1 : envelopes[i].to = k /\ x = envelopes[i].msg
    OBVIOUS
  <2>1. x \in ToSet(b1[k]) \/ (k = q /\ x = m)
    BY <1>1, <1>2 DEF MessageSent
  <2>2. CASE x \in ToSet(b1[k])
    <3>1. x \in ToSet(b[k]) \/ \E i \in 1 .. n : envelopes[i].to = k /\ x = envelopes[i].msg
      BY <2>2 DEF AllSent
    <3> QED BY <3>1, <1>4
  <2>3. CASE k = q /\ x = m
    BY <1>4, <2>3
  <2> QED BY <2>1, <2>2, <2>3
<1>6. ASSUME NEW p \in DOMAIN b
      PROVE  /\ OnPorts(b, p) \in Nat /\ Sendings(envelopes, n + 1, p) \in Nat
             /\ OnPorts(b2, p) = OnPorts(b, p) + Sendings(envelopes, n + 1, p)
  <2> HIDE DEF q, m
  <2>1. /\ OnPorts(b, p) \in Nat /\ Sendings(envelopes, n, p) \in Nat
        /\ OnPorts(b1, p) = OnPorts(b, p) + Sendings(envelopes, n, p)
    BY DEF AllSent
  <2>2. Sendings(envelopes, n + 1, p) = Sendings(envelopes, n, p) + IF q = p THEN 1 ELSE 0
    BY SendingsMore DEF q
  <2>3. IsCall(m, p) = 0 /\ IsAnswer(q, m, p) = IF q = p THEN 1 ELSE 0
    BY <1>3 DEF IsCall, IsAnswer, AnswerKinds, Answers, Asking
  <2>4. OnPorts(b2, p) = OnPorts(b1, p) + (IF q \in DOMAIN b1 THEN IsCall(m, p) ELSE 0)
                                       + IsAnswer(q, m, p)
    BY <1>1, <1>2 DEF MessageSent
  <2> QED BY <2>1, <2>2, <2>3, <2>4
<1>7. Ports(b2) /\ DOMAIN b2 = DOMAIN b
  BY <1>1, <1>2 DEF MessageSent
<1>8. Widens(b2, b)
  <2>1. m.kind # "irq"
    BY <1>3 DEF AnswerKinds
  <2>2. Adds(b2, b1, q, m) /\ Widens(b1, b)
    BY <1>2 DEF MessageSent, AllSent
  <2> HIDE DEF q, m
  <2> QED BY <1>1, <2>1, <2>2 DEF Adds, Widens
<1> QED BY <1>5, <1>6, <1>7, <1>8 DEF AllSent

\* Sending a list of answers delivers them all.
LEMMA PortSendAll ==
    ASSUME NEW b, Ports(b), NEW E, NEW envelopes \in Seq(E),
           \A i \in 1 .. Len(envelopes) : envelopes[i].msg.kind \in AnswerKinds,
           NEW b1, b1 = SentAll(b, envelopes)
    PROVE  AllSent(b1, b, envelopes, Len(envelopes))
<1>0. PICK N \in Nat : N = Len(envelopes)
  OBVIOUS
<1>1. PICK T : b \in [DOMAIN b -> Seq(T)]
  BY DEF Ports, IsFamily
<1> DEFINE U == T \cup {envelopes[i].msg : i \in 1 .. N}
           V == [DOMAIN b -> Seq(U)]
           step == [n \in Nat |-> [x \in V |->
                      IF n \in 1 .. N THEN Sent(x, envelopes[n].to, envelopes[n].msg) ELSE x]]
           Up(f) == f = [i \in 0 .. Len(envelopes) |->
                      IF i = 0 THEN b
                      ELSE Sent(f[i - 1], envelopes[i].to, envelopes[i].msg)]
<1>2. b \in V
  <2>1. \A k \in DOMAIN b : b[k] \in Seq(U)
    BY <1>1, SeqOfMore
  <2>2. b = [k \in DOMAIN b |-> b[k]]
    BY <1>1
  <2> HIDE DEF U
  <2> QED BY <2>1, <2>2
<1>3. \A i \in 1 .. N : envelopes[i].msg \in U
  OBVIOUS
<1> HIDE DEF U
<1>4. ASSUME NEW i \in 1 .. N, NEW x \in V
      PROVE  Sent(x, envelopes[i].to, envelopes[i].msg) \in V
  <2>1. envelopes[i].msg \in U
    BY <1>3
  <2>2. CASE envelopes[i].to \in DOMAIN b
    <3>1. Append(x[envelopes[i].to], envelopes[i].msg) \in Seq(U)
      BY <2>1, <2>2
    <3> QED BY <2>2, <3>1 DEF Sent
  <2>3. CASE envelopes[i].to \notin DOMAIN b
    BY <2>3 DEF Sent
  <2> QED BY <2>2, <2>3
<1>5. step \in [Nat -> [V -> V]]
  <2> HIDE DEF V
  <2> QED BY <1>4
<1>6. PICK f : Iterates(f, V, b, step, N)
  <2> HIDE DEF step, V
  <2> QED BY <1>2, <1>5, RecursionUnfolds
<1>7. ASSUME NEW i \in 1 .. N
      PROVE  f[i] = Sent(f[i - 1], envelopes[i].to, envelopes[i].msg)
  <2> HIDE DEF V
  <2>1. i - 1 \in 0 .. N /\ f[i - 1] \in V /\ i \in Nat
    BY <1>6 DEF Iterates
  <2>2. f[i] = step[i][f[i - 1]]
    BY <1>6 DEF Iterates
  <2> QED BY <2>1, <2>2
<1> HIDE DEF step, V
<1>8. Up(f)
  <2>1. ASSUME NEW i \in 0 .. N
        PROVE  f[i] = IF i = 0 THEN b ELSE Sent(f[i - 1], envelopes[i].to, envelopes[i].msg)
    <3>1. CASE i = 0
      BY <1>6, <3>1 DEF Iterates
    <3>2. CASE i # 0
      <4>1. i \in 1 .. N
        BY <3>2
      <4> QED BY <1>7, <3>2, <4>1, Zenon
    <3> QED BY <3>1, <3>2
  <2>2. f = [i \in 0 .. N |-> f[i]]
    BY <1>6 DEF Iterates
  <2> QED BY <1>0, <2>1, <2>2, Zenon
<1> DEFINE h == CHOOSE e : Up(e)
<1>9. Up(h)
  BY <1>8, Zenon
<1>10. b1 = h[N]
  BY <1>0 DEF SentAll
<1>11. \A i \in 0 .. N :
         h[i] = IF i = 0 THEN b ELSE Sent(h[i - 1], envelopes[i].to, envelopes[i].msg)
  BY <1>0, <1>9, Zenon
<1> HIDE DEF h
<1> DEFINE P == {n \in Nat : n \in 0 .. N => AllSent(h[n], b, envelopes, n)}
<1>12. 0 \in P
  <2>1. h[0] = b
    BY <1>11
  <2>2. ASSUME NEW p \in DOMAIN b
        PROVE  OnPorts(b, p) \in Nat /\ Sendings(envelopes, 0, p) = 0
    BY PortsCount, SendingsNone
  <2>3. Widens(h[0], b)
    BY <2>1 DEF Widens
  <2> QED BY <2>1, <2>2, <2>3 DEF AllSent
<1>13. ASSUME NEW n \in Nat, n \in P PROVE n + 1 \in P
  <2> SUFFICES ASSUME n + 1 \in 0 .. N PROVE AllSent(h[n + 1], b, envelopes, n + 1)
    OBVIOUS
  <2>1. n \in 0 .. N /\ n + 1 \in 1 .. N /\ (n + 1) - 1 = n /\ n + 1 # 0
    OBVIOUS
  <2>2. AllSent(h[n], b, envelopes, n)
    BY <1>13, <2>1
  <2>3. h[n + 1] = Sent(h[n], envelopes[n + 1].to, envelopes[n + 1].msg)
    BY <1>11, <2>1
  <2>4. envelopes[n + 1].msg.kind \in AnswerKinds
    BY <1>0, <2>1
  <2> QED BY <2>2, <2>3, <2>4, OneMoreSent
<1>14. N \in P
  <2> HIDE DEF P
  <2> QED BY <1>12, <1>13, CountedUp, Zenon
<1> QED BY <1>0, <1>10, <1>14

-----------------------------------------------------------------------------
(* Devices: those who wait, at the manager and in the queues of the drivers *)

WaitsIn(w, p) == {x \in Positions(w) : ItemAt(w, x) = p}
RequestsIn(r, p) == {x \in Positions(r) : ItemAt(r, x).port = p}

Waits(w) == IsFamily(w) /\ \A p : IsFiniteSet(WaitsIn(w, p))
Requests(r) == IsFamily(r) /\ \A p : IsFiniteSet(RequestsIn(r, p))

\* A list of w becomes s.
LEMMA WaitsPut ==
    ASSUME NEW w, Waits(w), NEW y \in DOMAIN w, NEW U, NEW s \in Seq(U), NEW p,
           NEW S, S = {p}, NEW w1, Replaces(w1, w, y, s)
    PROVE  /\ IsFiniteSet(WaitsIn(w1, p))
           /\ Cardinality(WaitsIn(w1, p)) + Tally(w[y], S) = Cardinality(WaitsIn(w, p)) + Tally(s, S)
           /\ Cardinality(WaitsIn(w, p)) \in Nat /\ Cardinality(WaitsIn(w1, p)) \in Nat
           /\ Tally(w[y], S) \in Nat /\ Tally(s, S) \in Nat
<1>1. WaitsIn(w, p) = Hits(w, S) /\ WaitsIn(w1, p) = Hits(w1, S)
  BY DEF WaitsIn, Hits
<1>2. IsFamily(w) /\ IsFiniteSet(Hits(w, S))
  BY <1>1 DEF Waits
<1>3. /\ IsFiniteSet(Hits(w1, S))
      /\ Cardinality(Hits(w1, S)) + Tally(w[y], S) = Cardinality(Hits(w, S)) + Tally(s, S)
      /\ Cardinality(Hits(w, S)) \in Nat /\ Cardinality(Hits(w1, S)) \in Nat
      /\ Tally(w[y], S) \in Nat /\ Tally(s, S) \in Nat
  BY <1>2, HitsPut
<1> QED BY <1>1, <1>3

\* w1 is w with one more z.
WaitsGain(w1, w, z) ==
    /\ Waits(w1) /\ DOMAIN w1 = DOMAIN w
    /\ \A y \in DOMAIN w : ToSet(w1[y]) \subseteq ToSet(w[y]) \cup {z}
    /\ \A p : /\ Cardinality(WaitsIn(w, p)) \in Nat
              /\ Cardinality(WaitsIn(w1, p))
                   = Cardinality(WaitsIn(w, p)) + IF z = p THEN 1 ELSE 0

\* w1 is w without the list s.
WaitsLose(w1, w, s) ==
    /\ Waits(w1) /\ DOMAIN w1 = DOMAIN w
    /\ \A y \in DOMAIN w : ToSet(w1[y]) \subseteq ToSet(w[y])
    /\ \A p : /\ Cardinality(WaitsIn(w1, p)) \in Nat
              /\ Cardinality({i \in 1 .. Len(s) : s[i] = p}) \in Nat
              /\ Cardinality(WaitsIn(w, p))
                   = Cardinality(WaitsIn(w1, p)) + Cardinality({i \in 1 .. Len(s) : s[i] = p})

\* List s has the elements of q and one more z.
OneLonger(s, q, z) ==
    /\ ToSet(s) = ToSet(q) \cup {z}
    /\ \A p, S : S = {p} => Tally(s, S) = Tally(q, S) + IF z = p THEN 1 ELSE 0

\* A list that is one longer is one waiter more.
LEMMA WaitPut ==
    ASSUME NEW w, Waits(w), NEW y \in DOMAIN w, NEW z, NEW U, NEW s \in Seq(U),
           OneLonger(s, w[y], z), NEW w1, IsFamily(w1), Replaces(w1, w, y, s)
    PROVE  WaitsGain(w1, w, z)
<1>1. ASSUME NEW p
      PROVE  /\ IsFiniteSet(WaitsIn(w1, p)) /\ Cardinality(WaitsIn(w, p)) \in Nat
             /\ Cardinality(WaitsIn(w1, p))
                  = Cardinality(WaitsIn(w, p)) + IF z = p THEN 1 ELSE 0
  <2> DEFINE S == {p}
  <2>0. S = {p} /\ Tally(s, S) = Tally(w[y], S) + IF z = p THEN 1 ELSE 0
    BY DEF OneLonger
  <2> HIDE DEF S
  <2>1. /\ IsFiniteSet(WaitsIn(w1, p))
        /\ Cardinality(WaitsIn(w1, p)) + Tally(w[y], S) = Cardinality(WaitsIn(w, p)) + Tally(s, S)
        /\ Cardinality(WaitsIn(w, p)) \in Nat /\ Cardinality(WaitsIn(w1, p)) \in Nat
        /\ Tally(w[y], S) \in Nat /\ Tally(s, S) \in Nat
    BY <2>0, WaitsPut
  <2> QED BY <2>0, <2>1
<1>2. Waits(w1) /\ DOMAIN w1 = DOMAIN w
      /\ \A l \in DOMAIN w : ToSet(w1[l]) \subseteq ToSet(w[l]) \cup {z}
  BY <1>1 DEF Waits, Replaces, OneLonger
<1> QED BY <1>1, <1>2 DEF WaitsGain

\* One more in front of a list.
LEMMA FamilyPush ==
    ASSUME NEW w, IsFamily(w), NEW y \in DOMAIN w, NEW z,
           NEW w1, w1 = [w EXCEPT ![y] = << z >> \o w[y]]
    PROVE  /\ IsFamily(w1)
           /\ \E U : \E s \in Seq(U) : OneLonger(s, w[y], z) /\ Replaces(w1, w, y, s)
<1>1. PICK T : w \in [DOMAIN w -> Seq(T)]
  BY DEF IsFamily
<1> DEFINE U == T \cup {z}
<1>2. w[y] \in Seq(U) /\ z \in U
  BY <1>1, SeqOfMore
<1> HIDE DEF U
<1>3. PICK t \in Seq(U) : t = << z >>
  <2>1. << z >> \in Seq(U)
    BY <1>2
  <2> QED BY <2>1, Zenon
<1>4. PICK s \in Seq(U) : s = t \o w[y]
  <2>1. t \o w[y] \in Seq(U)
    BY <1>2, ConcatProperties
  <2> QED BY <2>1, Zenon
<1>5. ToSet(s) = ToSet(w[y]) \cup {z}
  <2>1. ToSet(s) = ToSet(t) \cup ToSet(w[y])
    <3>1. /\ Len(s) = Len(t) + Len(w[y]) /\ Len(t) \in Nat /\ Len(w[y]) \in Nat
          /\ DOMAIN t = 1 .. Len(t) /\ DOMAIN w[y] = 1 .. Len(w[y]) /\ DOMAIN s = 1 .. Len(s)
          /\ \A i \in 1 .. Len(t) : s[i] = t[i]
          /\ \A i \in 1 .. Len(w[y]) : s[Len(t) + i] = w[y][i]
      BY <1>2, <1>4, ConcatProperties
    <3>2. ASSUME NEW i \in 1 .. Len(s)
          PROVE  (i \in 1 .. Len(t)) \/ (i - Len(t) \in 1 .. Len(w[y])
                                         /\ Len(t) + (i - Len(t)) = i)
      BY <3>1
    <3>3. ASSUME NEW i \in 1 .. Len(s) PROVE s[i] \in ToSet(t) \cup ToSet(w[y])
      <4>1. CASE i \in 1 .. Len(t)
        BY <3>1, <4>1 DEF ToSet
      <4>2. CASE i - Len(t) \in 1 .. Len(w[y]) /\ Len(t) + (i - Len(t)) = i
        <5>1. s[Len(t) + (i - Len(t))] = w[y][i - Len(t)]
          BY <3>1, <4>2
        <5> QED BY <3>1, <4>2, <5>1 DEF ToSet
      <4> QED BY <3>2, <4>1, <4>2
    <3>4. ToSet(t) \subseteq ToSet(s)
      <4>1. \A i \in 1 .. Len(t) : i \in 1 .. Len(s) /\ s[i] = t[i]
        BY <3>1
      <4> QED BY <3>1, <4>1 DEF ToSet
    <3>5. ToSet(w[y]) \subseteq ToSet(s)
      <4>1. \A i \in 1 .. Len(w[y]) : Len(t) + i \in 1 .. Len(s) /\ s[Len(t) + i] = w[y][i]
        BY <3>1
      <4> QED BY <3>1, <4>1 DEF ToSet
    <3>6. ToSet(s) \subseteq ToSet(t) \cup ToSet(w[y])
      BY <3>1, <3>3 DEF ToSet
    <3> QED BY <3>4, <3>5, <3>6
  <2>2. ToSet(t) = {z}
    BY <1>3 DEF ToSet
  <2> QED BY <2>1, <2>2
<1>6. ASSUME NEW p PROVE Tally(s, {p}) = Tally(w[y], {p}) + IF z = p THEN 1 ELSE 0
  <2> DEFINE S == {p}
  <2>1. Tally(<< z >> \o w[y], S) = Tally(w[y], S) + IF z \in S THEN 1 ELSE 0
    <3> HIDE DEF S
    <3> QED BY <1>2, TallyPush
  <2> QED BY <1>3, <1>4, <2>1
<1>7. IsFamily(w1) /\ Replaces(w1, w, y, s)
  <2>1. w1 = [w EXCEPT ![y] = s]
    BY <1>3, <1>4
  <2> QED BY <2>1, FamilyPut
<1>8. OneLonger(s, w[y], z)
  BY <1>5, <1>6 DEF OneLonger
<1> QED BY <1>7, <1>8, Zenon

\* The manager puts a waiter in front.
LEMMA WaitAdd ==
    ASSUME NEW w, Waits(w), NEW y \in DOMAIN w, NEW z,
           NEW w1, w1 = [w EXCEPT ![y] = << z >> \o w[y]]
    PROVE  WaitsGain(w1, w, z)
<1>1. IsFamily(w)
  BY DEF Waits
<1>2. /\ IsFamily(w1)
      /\ \E U : \E s \in Seq(U) : OneLonger(s, w[y], z) /\ Replaces(w1, w, y, s)
  BY <1>1, FamilyPush, Zenon
<1>3. PICK U : \E s \in Seq(U) : OneLonger(s, w[y], z) /\ Replaces(w1, w, y, s)
  BY <1>2, Zenon
<1>4. PICK s \in Seq(U) : OneLonger(s, w[y], z) /\ Replaces(w1, w, y, s)
  BY <1>3, Zenon
<1> QED BY <1>2, <1>4, WaitPut, Zenon

\* The manager drops the waiters of a type.
LEMMA WaitsEnd ==
    ASSUME NEW w, Waits(w), NEW y \in DOMAIN w, NEW w1, w1 = [w EXCEPT ![y] = << >>]
    PROVE  WaitsLose(w1, w, w[y])
<1>1. PICK T : w \in [DOMAIN w -> Seq(T)]
  BY DEF Waits, IsFamily
<1>2. w[y] \in Seq(T)
  BY <1>1
<1>3. PICK s \in Seq(T) : s = << >>
  <2>1. << >> \in Seq(T)
    BY EmptySeq
  <2> QED BY <2>1, Zenon
<1>4. IsFamily(w1) /\ Replaces(w1, w, y, s)
  <2>1. w1 = [w EXCEPT ![y] = s] /\ IsFamily(w)
    BY <1>3 DEF Waits
  <2> QED BY <2>1, FamilyPut
<1>5. ASSUME NEW p
      PROVE  /\ IsFiniteSet(WaitsIn(w1, p)) /\ Cardinality(WaitsIn(w1, p)) \in Nat
             /\ Cardinality({i \in 1 .. Len(w[y]) : w[y][i] = p}) \in Nat
             /\ Cardinality(WaitsIn(w, p))
                  = Cardinality(WaitsIn(w1, p)) + Cardinality({i \in 1 .. Len(w[y]) : w[y][i] = p})
  <2> DEFINE S == {p}
  <2>3. S = {p} /\ Tally(w[y], S) = Cardinality({i \in 1 .. Len(w[y]) : w[y][i] = p})
    <3>1. {i \in 1 .. Len(w[y]) : w[y][i] = p} = TallyAt(w[y], S)
      BY <1>2 DEF TallyAt
    <3> QED BY <3>1 DEF Tally
  <2> HIDE DEF S
  <2>1. /\ IsFiniteSet(WaitsIn(w1, p))
        /\ Cardinality(WaitsIn(w1, p)) + Tally(w[y], S) = Cardinality(WaitsIn(w, p)) + Tally(s, S)
        /\ Cardinality(WaitsIn(w, p)) \in Nat /\ Cardinality(WaitsIn(w1, p)) \in Nat
        /\ Tally(w[y], S) \in Nat /\ Tally(s, S) \in Nat
    BY <1>4, <2>3, WaitsPut
  <2>2. Tally(s, S) = 0
    BY <1>3, TallyOfNone
  <2> QED BY <2>1, <2>2, <2>3
<1>6. ToSet(s) = {}
  BY <1>3 DEF ToSet
<1>7. Waits(w1) /\ DOMAIN w1 = DOMAIN w
      /\ \A l \in DOMAIN w : ToSet(w1[l]) \subseteq ToSet(w[l])
  BY <1>4, <1>5, <1>6 DEF Waits, Replaces
<1> QED BY <1>5, <1>7, Zenon DEF WaitsLose

\* Of the requests M, those to be answered on port p.
RequestsOf(M, p) == {x \in M : x.port = p}

\* A queue of r becomes s.
LEMMA RequestsPut ==
    ASSUME NEW r, Requests(r), NEW d \in DOMAIN r, NEW U, NEW s \in Seq(U), NEW p,
           NEW M, ToSet(r[d]) \subseteq M, ToSet(s) \subseteq M, NEW S, S = RequestsOf(M, p),
           NEW r1, Replaces(r1, r, d, s)
    PROVE  /\ IsFiniteSet(RequestsIn(r1, p))
           /\ Cardinality(RequestsIn(r1, p)) + Tally(r[d], S)
                = Cardinality(RequestsIn(r, p)) + Tally(s, S)
           /\ Cardinality(RequestsIn(r, p)) \in Nat /\ Cardinality(RequestsIn(r1, p)) \in Nat
           /\ Tally(r[d], S) \in Nat /\ Tally(s, S) \in Nat
<1>1. /\ DOMAIN r1 = DOMAIN r
      /\ \A l \in DOMAIN r : r1[l] = IF l = d THEN s ELSE r[l]
  BY DEF Replaces
<1>2. PICK T : r \in [DOMAIN r -> Seq(T)]
  BY DEF Requests, IsFamily
<1> DEFINE other == {ItemAt(r, x) : x \in {y \in Positions(r) : y[1] # d}}
           D == {m \in other \cup ToSet(r[d]) \cup ToSet(s) : m.port = p}
<1>3. RequestsIn(r, p) = Hits(r, D)
  <2>1. ASSUME NEW x \in Positions(r) PROVE ItemAt(r, x) \in D <=> ItemAt(r, x).port = p
    <3>1. ItemAt(r, x) \in other \cup ToSet(r[d])
      BY DEF Positions, ItemAt, ToSet
    <3> QED BY <3>1
  <2> HIDE DEF D
  <2> QED BY <2>1 DEF RequestsIn, Hits
<1>4. RequestsIn(r1, p) = Hits(r1, D)
  <2>1. ASSUME NEW x \in Positions(r1) PROVE ItemAt(r1, x) \in D <=> ItemAt(r1, x).port = p
    <3>1. PICK l \in DOMAIN r : \E i \in DOMAIN r1[l] : x = << l, i >>
      BY <1>1 DEF Positions
    <3>2. PICK i \in DOMAIN r1[l] : x = << l, i >>
      BY <3>1
    <3>3. CASE l = d
      <4>1. ItemAt(r1, x) = s[i] /\ i \in DOMAIN s
        BY <1>1, <3>2, <3>3 DEF ItemAt
      <4>2. ItemAt(r1, x) \in ToSet(s)
        BY <4>1 DEF ToSet
      <4> QED BY <4>2
    <3>4. CASE l # d
      <4>1. r1[l] = r[l]
        BY <1>1, <3>4
      <4>2. x \in Positions(r) /\ x[1] # d /\ ItemAt(r1, x) = ItemAt(r, x)
        BY <3>2, <3>4, <4>1 DEF Positions, ItemAt
      <4> QED BY <4>2
    <3> QED BY <3>3, <3>4
  <2> HIDE DEF D
  <2> QED BY <2>1 DEF RequestsIn, Hits
<1>5. ASSUME NEW W, NEW t \in Seq(W), ToSet(t) \subseteq M,
             ToSet(t) \subseteq ToSet(r[d]) \cup ToSet(s)
      PROVE  Tally(t, D) = Tally(t, S)
  <2>1. \A i \in DOMAIN t : t[i] \in ToSet(t)
    BY DEF ToSet
  <2>2. \A i \in DOMAIN t : t[i] \in D <=> t[i] \in S
    BY <1>5, <2>1 DEF RequestsOf
  <2> HIDE DEF D
  <2>3. TallyAt(t, D) = TallyAt(t, S)
    BY <2>2 DEF TallyAt
  <2> QED BY <2>3 DEF Tally
<1> HIDE DEF D, other
<1>6. r[d] \in Seq(T)
  BY <1>2
<1>7. /\ IsFiniteSet(Hits(r1, D))
      /\ Cardinality(Hits(r1, D)) + Tally(r[d], D) = Cardinality(Hits(r, D)) + Tally(s, D)
      /\ Cardinality(Hits(r, D)) \in Nat /\ Cardinality(Hits(r1, D)) \in Nat
      /\ Tally(r[d], D) \in Nat /\ Tally(s, D) \in Nat
  <2>1. IsFamily(r) /\ IsFiniteSet(Hits(r, D))
    BY <1>3 DEF Requests
  <2> QED BY <2>1, HitsPut
<1>8. Tally(r[d], D) = Tally(r[d], S) /\ Tally(s, D) = Tally(s, S)
  BY <1>5, <1>6
<1> QED BY <1>3, <1>4, <1>7, <1>8

\* r1 is r with the request m more.
RequestsGain(r1, r, m) ==
    /\ Requests(r1) /\ DOMAIN r1 = DOMAIN r
    /\ \A d \in DOMAIN r : ToSet(r1[d]) \subseteq ToSet(r[d]) \cup {m}
    /\ \A p : /\ Cardinality(RequestsIn(r, p)) \in Nat
              /\ Cardinality(RequestsIn(r1, p))
                   = Cardinality(RequestsIn(r, p)) + IF m.port = p THEN 1 ELSE 0

\* r1 is r without the first n requests of s.
RequestsLose(r1, r, s, n) ==
    /\ Requests(r1) /\ DOMAIN r1 = DOMAIN r
    /\ \A d \in DOMAIN r : ToSet(r1[d]) \subseteq ToSet(r[d])
    /\ \A p : /\ Cardinality(RequestsIn(r1, p)) \in Nat
              /\ Cardinality({i \in 1 .. n : s[i].port = p}) \in Nat
              /\ Cardinality(RequestsIn(r, p))
                   = Cardinality(RequestsIn(r1, p)) + Cardinality({i \in 1 .. n : s[i].port = p})

\* A driver queues a request.
LEMMA RequestAdd ==
    ASSUME NEW r, Requests(r), NEW d \in DOMAIN r, NEW m,
           NEW r1, r1 = [r EXCEPT ![d] = Append(r[d], m)]
    PROVE  RequestsGain(r1, r, m)
<1>1. PICK T : r \in [DOMAIN r -> Seq(T)]
  BY DEF Requests, IsFamily
<1> DEFINE U == T \cup {m}
           s == Append(r[d], m)
<1>2. r[d] \in Seq(U) /\ m \in U
  BY <1>1, SeqOfMore
<1> HIDE DEF U
<1>3. s \in Seq(U) /\ ToSet(s) = ToSet(r[d]) \cup {m}
  BY <1>2, AppendElements
<1>4. IsFamily(r1) /\ Replaces(r1, r, d, s)
  <2>1. r1 = [r EXCEPT ![d] = s]
    OBVIOUS
  <2> HIDE DEF s
  <2> QED BY <1>3, <2>1, FamilyPut DEF Requests
<1>5. ASSUME NEW p
      PROVE  /\ IsFiniteSet(RequestsIn(r1, p)) /\ Cardinality(RequestsIn(r, p)) \in Nat
             /\ Cardinality(RequestsIn(r1, p))
                  = Cardinality(RequestsIn(r, p)) + IF m.port = p THEN 1 ELSE 0
  <2> DEFINE M == ToSet(r[d]) \cup {m}
             S == RequestsOf(M, p)
  <2>1. Tally(s, S) = Tally(r[d], S) + IF m \in S THEN 1 ELSE 0
    <3> HIDE DEF S
    <3> QED BY <1>2, TallyAppend
  <2>2. m \in S <=> m.port = p
    BY DEF RequestsOf
  <2>3. ToSet(r[d]) \subseteq M /\ ToSet(s) \subseteq M /\ S = RequestsOf(M, p)
    BY <1>3
  <2> HIDE DEF M, S, s
  <2>4. /\ IsFiniteSet(RequestsIn(r1, p))
        /\ Cardinality(RequestsIn(r1, p)) + Tally(r[d], S)
             = Cardinality(RequestsIn(r, p)) + Tally(s, S)
        /\ Cardinality(RequestsIn(r, p)) \in Nat /\ Cardinality(RequestsIn(r1, p)) \in Nat
        /\ Tally(r[d], S) \in Nat /\ Tally(s, S) \in Nat
    BY <1>3, <1>4, <2>3, RequestsPut
  <2> QED BY <2>1, <2>2, <2>4
<1> HIDE DEF s
<1>6. Requests(r1) /\ DOMAIN r1 = DOMAIN r
      /\ \A l \in DOMAIN r : ToSet(r1[l]) \subseteq ToSet(r[l]) \cup {m}
  BY <1>3, <1>4, <1>5 DEF Requests, Replaces
<1> QED BY <1>5, <1>6 DEF RequestsGain

\* List s is queue q without its first n requests.
CutOff(s, q, n) ==
    /\ ToSet(s) \subseteq ToSet(q)
    /\ \A p, S : S = RequestsOf(ToSet(q), p) =>
         \E k \in Nat : /\ Cardinality({i \in 1 .. n : q[i].port = p}) = k
                       /\ Tally(q, S) = k + Tally(s, S)

\* What is cut off a queue is counted.
LEMMA RequestsCut ==
    ASSUME NEW r, Requests(r), NEW d \in DOMAIN r, NEW U, NEW s \in Seq(U), NEW n,
           CutOff(s, r[d], n), NEW r1, IsFamily(r1), Replaces(r1, r, d, s)
    PROVE  RequestsLose(r1, r, r[d], n)
<1>1. ASSUME NEW p
      PROVE  /\ IsFiniteSet(RequestsIn(r1, p)) /\ Cardinality(RequestsIn(r1, p)) \in Nat
             /\ Cardinality({i \in 1 .. n : r[d][i].port = p}) \in Nat
             /\ Cardinality(RequestsIn(r, p)) = Cardinality(RequestsIn(r1, p))
                  + Cardinality({i \in 1 .. n : r[d][i].port = p})
  <2> DEFINE M == ToSet(r[d])
             S == RequestsOf(M, p)
  <2>1. PICK k \in Nat : /\ Cardinality({i \in 1 .. n : r[d][i].port = p}) = k
                        /\ Tally(r[d], S) = k + Tally(s, S)
    BY DEF CutOff
  <2>2. ToSet(r[d]) \subseteq M /\ ToSet(s) \subseteq M /\ S = RequestsOf(M, p)
    BY DEF CutOff
  <2> HIDE DEF M, S
  <2>3. /\ IsFiniteSet(RequestsIn(r1, p))
        /\ Cardinality(RequestsIn(r1, p)) + Tally(r[d], S)
             = Cardinality(RequestsIn(r, p)) + Tally(s, S)
        /\ Cardinality(RequestsIn(r, p)) \in Nat /\ Cardinality(RequestsIn(r1, p)) \in Nat
        /\ Tally(r[d], S) \in Nat /\ Tally(s, S) \in Nat
    BY <2>2, RequestsPut
  <2>4. Cardinality(RequestsIn(r, p)) = Cardinality(RequestsIn(r1, p)) + k
    <3> DEFINE w == Tally(r[d], S)
               t == Tally(s, S)
               x == Cardinality(RequestsIn(r, p))
               x1 == Cardinality(RequestsIn(r1, p))
    <3>1. w = k + t /\ x1 + w = x + t /\ t \in Nat /\ x \in Nat /\ x1 \in Nat
      BY <2>1, <2>3
    <3> HIDE DEF w, t, x, x1
    <3>2. x = x1 + k
      BY <3>1
    <3> QED BY <3>2 DEF x, x1
  <2> QED BY <2>1, <2>3, <2>4, Zenon
<1>2. Requests(r1) /\ DOMAIN r1 = DOMAIN r
      /\ \A l \in DOMAIN r : ToSet(r1[l]) \subseteq ToSet(r[l])
  BY <1>1 DEF Requests, Replaces, CutOff
<1> QED BY <1>1, <1>2, Zenon DEF RequestsLose

\* A driver ends the first requests of its queue.
LEMMA RequestsEnd ==
    ASSUME NEW r, Requests(r), NEW d \in DOMAIN r, NEW n \in 0 .. Len(r[d]),
           NEW r1, r1 = [r EXCEPT ![d] = SubSeq(r[d], n + 1, Len(r[d]))]
    PROVE  RequestsLose(r1, r, r[d], n)
<1>1. PICK T : r \in [DOMAIN r -> Seq(T)]
  BY DEF Requests, IsFamily
<1>2. r[d] \in Seq(T) /\ Len(r[d]) \in Nat /\ n \in Nat /\ n <= Len(r[d])
  <2>1. r[d] \in Seq(T)
    BY <1>1
  <2>2. Len(r[d]) \in Nat
    BY <2>1
  <2> QED BY <2>1, <2>2
<1> DEFINE s == SubSeq(r[d], n + 1, Len(r[d]))
           a == SubSeq(r[d], 1, n)
<1>3. /\ s \in Seq(T) /\ a \in Seq(T) /\ Len(a) = n /\ Len(s) = Len(r[d]) - n
      /\ \A i \in 1 .. n : a[i] = r[d][i]
      /\ \A i \in 1 .. Len(r[d]) - n : s[i] = r[d][n + i]
  BY <1>2, SubSeqProperties
<1>4. ASSUME NEW S PROVE Tally(r[d], S) = Tally(a, S) + Tally(s, S)
  BY <1>2, TallyCut
<1>5. r1 = [r EXCEPT ![d] = s]
  OBVIOUS
<1> HIDE DEF s, a
<1>6. ToSet(s) \subseteq ToSet(r[d])
  <2>1. \A i \in 1 .. Len(s) : s[i] = r[d][n + i] /\ n + i \in 1 .. Len(r[d])
    BY <1>2, <1>3
  <2> QED BY <1>2, <1>3, <2>1 DEF ToSet
<1>7. IsFamily(r1) /\ Replaces(r1, r, d, s)
  BY <1>3, <1>5, FamilyPut DEF Requests
<1>8. ASSUME NEW p, NEW S, S = RequestsOf(ToSet(r[d]), p)
      PROVE  \E k \in Nat : /\ Cardinality({i \in 1 .. n : r[d][i].port = p}) = k
                           /\ Tally(r[d], S) = k + Tally(s, S)
  <2>1. TallyAt(a, S) = {i \in 1 .. n : r[d][i].port = p}
    <3>1. \A i \in 1 .. n : r[d][i] \in ToSet(r[d])
      <4>1. \A i \in 1 .. n : i \in DOMAIN r[d]
        BY <1>2
      <4> QED BY <4>1 DEF ToSet
    <3>2. DOMAIN a = 1 .. n
      BY <1>3
    <3>3. \A i \in 1 .. n : a[i] \in S <=> r[d][i].port = p
      BY <1>3, <1>8, <3>1 DEF RequestsOf
    <3> QED BY <3>2, <3>3 DEF TallyAt
  <2>2. Tally(a, S) \in Nat
    BY <1>3, TallyTyped
  <2>3. Cardinality({i \in 1 .. n : r[d][i].port = p}) = Tally(a, S)
    BY <2>1 DEF Tally
  <2>4. Tally(r[d], S) = Tally(a, S) + Tally(s, S)
    BY <1>4
  <2> QED BY <2>2, <2>3, <2>4, Zenon
<1>9. CutOff(s, r[d], n)
  BY <1>6, <1>8, Zenon DEF CutOff
<1>10. s \in Seq(T)
  BY <1>3
<1> QED BY <1>7, <1>9, <1>10, RequestsCut

-----------------------------------------------------------------------------
(* Devices: every request is at one place *)

DriverPorts == {LocalPort[d] : d \in Driver}
Locals == Range(LocalPort)
Waiting == {"lookup", "opening", "waiting"}

\* A port on which somebody may wait: one there has been, and one of an asynchronous
\* client only once it has opened its device.
Token(next, clients, p) ==
    /\ p \in 1 .. next - 1
    /\ p \in Locals =>
         \E c \in AsyncClient : p = LocalPort[c] /\ clients[c].pc \in {"open", "waiting"}

\* What message m on port q says.
Sensible(next, clients, q, m) ==
    /\ m.kind \in {"announce", "irq", "error"} \cup Asking \cup AnswerKinds
    /\ m.kind \in {"announce", "lookup"} => m.type \in Type
    /\ m.kind \in {"announce", "found"} => m.port \in DriverPorts
    /\ m.kind \in Asking => Token(next, clients, m.port)
    /\ m.kind = "lookup" => m.port \notin Locals
    /\ q \notin {ManagerPort} \cup Locals => m.kind \in {"error"} \cup AnswerKinds
    /\ q \in Locals /\ m.kind \in AnswerKinds => Token(next, clients, q)

MailFits == \A q \in DOMAIN box : \A m \in ToSet(box[q]) : Sensible(nextPort, client, q, m)

ListsFit ==
    /\ DOMAIN known = Type /\ DOMAIN waiters = Type /\ DOMAIN pending = Driver
    /\ IsFamily(known) /\ \A y \in Type : \A x \in ToSet(known[y]) : x.port \in DriverPorts
    /\ Waits(waiters) /\ Requests(pending)
    /\ \A y \in Type : \A p \in ToSet(waiters[y]) : Token(nextPort, client, p)
    /\ \A d \in Driver : \A r \in ToSet(pending[d]) : Token(nextPort, client, r.port)

PortsFit ==
    /\ nextPort \in Nat /\ nextPort > 0
    /\ Ports(box) /\ DOMAIN box \subseteq 0 .. nextPort - 1
    /\ {ManagerPort} \cup Locals \subseteq DOMAIN box
    /\ irqPort \in {NoPort} \cup DriverPorts
    /\ \A f \in failed : f.of \in 1 .. nextPort - 1

\* The ports of the clients, each of which has its own.
HasReply(c) == client[c].pc \in Waiting \cup {"open"}

ClientsFit ==
    /\ DOMAIN client = Client /\ wants \in [Client -> Type] /\ typeOf \in [Driver -> Type]
    /\ \A c \in Client :
         /\ client[c].pc \in {"idle", "found", "open"} \cup Waiting
         /\ client[c].pc \in {"found", "opening", "open", "waiting"} =>
              client[c].port \in DriverPorts
         /\ HasReply(c) => client[c].reply \in DOMAIN box \ ({ManagerPort} \cup Locals)
    /\ \A c, e \in Client :
         c # e /\ HasReply(c) /\ HasReply(e) => client[c].reply # client[e].reply
    /\ reads \in [AsyncClient -> [current : {0, 1}, queued : Nat]]

\* How often port p is waited on.
CountsIn(b, w, r, p) ==
    OnPorts(b, p) + Cardinality(WaitsIn(w, p)) + Cardinality(RequestsIn(r, p))

Disturbed == {f.to : f \in failed}

Counted ==
    /\ \A c \in Client : HasReply(c) /\ client[c].reply \notin Disturbed =>
         IF client[c].pc = "open"
         THEN client[c].reply \notin Refused /\ CountsIn(box, waiters, pending, client[c].reply) = 0
         ELSE CountsIn(box, waiters, pending, client[c].reply)
                = IF client[c].reply \in Refused THEN 0 ELSE 1
    /\ \A c \in AsyncClient : LocalPort[c] \notin Refused =>
         CountsIn(box, waiters, pending, LocalPort[c]) = reads[c].current

\* The inductive invariant.
OnceInv == MailFits /\ ListsFit /\ PortsFit /\ ClientsFit /\ Counted

\* What the property counts is what the invariant counts.
LEMMA WhereaboutsCount ==
    ASSUME NEW p
    PROVE  Whereabouts(p) = CountsIn(box, waiters, pending, p)
  BY DEF Whereabouts, CountsIn, OnPorts, AnswersIn, CallsIn, WaitsIn, RequestsIn

\* The invariant implies the property.
LEMMA CountedOnce == Counted => AnswersOnce
<1> SUFFICES ASSUME Counted PROVE AnswersOnce
  OBVIOUS
<1>1. ASSUME NEW c \in Client
      PROVE  /\ client[c].pc \in {"lookup", "opening", "waiting"} /\ Undisturbed(c) =>
                  Whereabouts(client[c].reply) = IF client[c].reply \in Refused THEN 0 ELSE 1
             /\ client[c].pc = "open" /\ Undisturbed(c) => Whereabouts(client[c].reply) = 0
  <2>1. Whereabouts(client[c].reply) = CountsIn(box, waiters, pending, client[c].reply)
    BY WhereaboutsCount
  <2> QED BY <2>1 DEF Counted, HasReply, Waiting, Undisturbed, Disturbed
<1>2. ASSUME NEW c \in AsyncClient, LocalPort[c] \notin Refused
      PROVE  Whereabouts(LocalPort[c]) = reads[c].current
  <2>1. Whereabouts(LocalPort[c]) = CountsIn(box, waiters, pending, LocalPort[c])
    BY WhereaboutsCount
  <2> QED BY <1>2, <2>1 DEF Counted
<1> QED BY <1>1, <1>2, Zenon DEF AnswersOnce

\* All counts are numbers.
LEMMA CountsTyped ==
    ASSUME NEW b, Ports(b), NEW w, Waits(w), NEW r, Requests(r), NEW p \in DOMAIN b
    PROVE  /\ OnPorts(b, p) \in Nat /\ Cardinality(WaitsIn(w, p)) \in Nat
           /\ Cardinality(RequestsIn(r, p)) \in Nat /\ CountsIn(b, w, r, p) \in Nat
<1>1. IsFiniteSet(WaitsIn(w, p)) /\ IsFiniteSet(RequestsIn(r, p))
  BY DEF Waits, Requests
<1>2. Cardinality(WaitsIn(w, p)) \in Nat /\ Cardinality(RequestsIn(r, p)) \in Nat
  BY <1>1, FS_CardinalityType
<1> QED BY <1>2, PortsCount DEF CountsIn

\* A port that somebody may wait on stays one.
LEMMA TokenKept ==
    ASSUME NEW n \in Nat, NEW n1 \in Nat, n <= n1, NEW cl, NEW cl1,
           \A c \in AsyncClient : cl[c].pc \in {"open", "waiting"} => cl1[c].pc \in {"open", "waiting"},
           NEW p, Token(n, cl, p)
    PROVE  Token(n1, cl1, p)
  BY DEF Token

\* What a message says stays true.
LEMMA SensibleKept ==
    ASSUME NEW n \in Nat, NEW n1 \in Nat, n <= n1, NEW cl, NEW cl1,
           \A c \in AsyncClient : cl[c].pc \in {"open", "waiting"} => cl1[c].pc \in {"open", "waiting"},
           NEW q, NEW m, Sensible(n, cl, q, m)
    PROVE  Sensible(n1, cl1, q, m)
<1>1. \A p : Token(n, cl, p) => Token(n1, cl1, p)
  BY DEF Token
<1> QED BY <1>1 DEF Sensible

\* Driver ports and the ports of asynchronous clients are there from the start.
LEMMA AsyncPorts ==
    /\ \A c \in AsyncClient : LocalPort[c] \in Locals
    /\ \A d \in Driver : LocalPort[d] \in DriverPorts
    /\ DriverPorts \subseteq Locals /\ ManagerPort \notin Locals /\ Locals \subseteq Nat
    /\ \A c, e \in AsyncClient : LocalPort[c] = LocalPort[e] => c = e
<1>1. \A x \in Driver \cup AsyncClient : LocalPort[x] \in Range(LocalPort)
  BY DeviceAssumption DEF Range
<1>2. Range(LocalPort) \subseteq Nat \ {0}
  BY DeviceAssumption
<1>3. \A c, e \in AsyncClient : LocalPort[c] = LocalPort[e] => c = e
  BY DeviceAssumption DEF IsInjective
<1> QED BY <1>1, <1>2, <1>3 DEF DriverPorts, Locals, ManagerPort

\* Every port but the manager's is waited on as often as before.
CountsKept ==
    \A p \in DOMAIN box \ {ManagerPort} :
       CountsIn(box, waiters, pending, p)' = CountsIn(box, waiters, pending, p)

\* One request less for port a; an error may have been taken for an answer on port e.
Refusing(a, e) ==
    /\ failed' = failed \cup {[of |-> a, to |-> e]}
    /\ \A p \in DOMAIN box \ {ManagerPort} : p # e \/ p \in Locals =>
         CountsIn(box, waiters, pending, p)
           = CountsIn(box, waiters, pending, p)' + IF p = a THEN 1 ELSE 0

\* Who serves leaves the clients alone.
Serving ==
    /\ UNCHANGED << client, nextPort, setting >> /\ DOMAIN box' = DOMAIN box
    /\ reads' \in [AsyncClient -> [current : {0, 1}, queued : Nat]]
    /\ \A c \in AsyncClient : reads'[c].current = reads[c].current

\* A step of a server after which every port is waited on as before.
LEMMA CountedKept ==
    ASSUME OnceInv, Serving, failed' = failed, CountsKept
    PROVE  ClientsFit' /\ Counted'
<1>1. ClientsFit'
  BY DEF OnceInv, ClientsFit, Serving, HasReply, setting
<1>2. ASSUME NEW c \in Client, HasReply(c)
      PROVE  CountsIn(box', waiters', pending', client[c].reply)
               = CountsIn(box, waiters, pending, client[c].reply)
  BY <1>2 DEF OnceInv, ClientsFit, CountsKept, CountsIn
<1>3. ASSUME NEW c \in AsyncClient
      PROVE  CountsIn(box', waiters', pending', LocalPort[c])
               = CountsIn(box, waiters, pending, LocalPort[c])
  <2>1. LocalPort[c] \in DOMAIN box \ {ManagerPort}
    BY AsyncPorts DEF OnceInv, PortsFit
  <2> QED BY <2>1 DEF CountsKept, CountsIn
<1>4. client' = client /\ \A c \in AsyncClient : reads'[c].current = reads[c].current
  BY DEF Serving
<1>5. Refused' = Refused /\ Disturbed' = Disturbed
  BY DEF Refused, Disturbed
<1>6. \A c \in Client : HasReply(c)' <=> HasReply(c)
  BY <1>4 DEF HasReply
<1>7. Counted
  BY DEF OnceInv
<1>8. ASSUME NEW c \in Client, HasReply(c), client[c].reply \notin Disturbed
      PROVE  IF client[c].pc = "open"
             THEN /\ client[c].reply \notin Refused
                  /\ CountsIn(box', waiters', pending', client[c].reply) = 0
             ELSE CountsIn(box', waiters', pending', client[c].reply)
                    = IF client[c].reply \in Refused THEN 0 ELSE 1
  BY <1>2, <1>7, <1>8 DEF Counted
<1>9. ASSUME NEW c \in AsyncClient, LocalPort[c] \notin Refused
      PROVE  CountsIn(box', waiters', pending', LocalPort[c]) = reads'[c].current
  BY <1>3, <1>4, <1>7, <1>9 DEF Counted
<1>10. Counted'
  BY <1>4, <1>5, <1>6, <1>8, <1>9 DEF Counted
<1> QED BY <1>1, <1>10

\* A step of a server that gives up one request.
LEMMA CountedRefusing ==
    ASSUME OnceInv, PortsFit', ListsFit', Serving, NEW a, NEW e, Refusing(a, e)
    PROVE  ClientsFit' /\ Counted'
<1>1. ClientsFit'
  BY DEF OnceInv, ClientsFit, Serving, HasReply, setting
<1>2. client' = client /\ \A c \in AsyncClient : reads'[c].current = reads[c].current
  BY DEF Serving
<1>3. Refused' = Refused \cup {a} /\ Disturbed' = Disturbed \cup {e}
  <2> DEFINE f0 == [of |-> a, to |-> e]
  <2>1. f0.of = a /\ f0.to = e
    OBVIOUS
  <2>2. failed' = failed \cup {f0}
    BY DEF Refusing
  <2> HIDE DEF f0
  <2>3. {f.of : f \in failed \cup {f0}} = {f.of : f \in failed} \cup {a}
    BY <2>1
  <2>4. {f.to : f \in failed \cup {f0}} = {f.to : f \in failed} \cup {e}
    BY <2>1
  <2> QED BY <2>2, <2>3, <2>4 DEF Refused, Disturbed
<1>4. Counted
  BY DEF OnceInv
<1>5. \A c \in Client : HasReply(c)' <=> HasReply(c)
  BY <1>2 DEF HasReply
<1>6. ASSUME NEW p \in DOMAIN box \ {ManagerPort}, p # e \/ p \in Locals
      PROVE  /\ CountsIn(box, waiters, pending, p)
                  = CountsIn(box', waiters', pending', p) + IF p = a THEN 1 ELSE 0
             /\ CountsIn(box, waiters, pending, p) \in Nat
             /\ CountsIn(box', waiters', pending', p) \in Nat
  <2>1. /\ Ports(box) /\ Waits(waiters) /\ Requests(pending) /\ p \in DOMAIN box
        /\ Ports(box') /\ Waits(waiters') /\ Requests(pending') /\ p \in DOMAIN box'
    BY DEF OnceInv, PortsFit, ListsFit, Serving
  <2>2. CountsIn(box, waiters, pending, p) \in Nat /\ CountsIn(box', waiters', pending', p) \in Nat
    BY <2>1, CountsTyped
  <2> QED BY <1>6, <2>2 DEF Refusing, CountsIn
<1>7. ASSUME NEW c \in Client, HasReply(c), client[c].reply \notin Disturbed'
      PROVE  IF client[c].pc = "open"
             THEN /\ client[c].reply \notin Refused'
                  /\ CountsIn(box', waiters', pending', client[c].reply) = 0
             ELSE CountsIn(box', waiters', pending', client[c].reply)
                    = IF client[c].reply \in Refused' THEN 0 ELSE 1
  <2> DEFINE p == client[c].reply
  <2>1. p \in DOMAIN box \ {ManagerPort} /\ p # e
    BY <1>3, <1>7 DEF OnceInv, ClientsFit
  <2>2. IF client[c].pc = "open"
        THEN p \notin Refused /\ CountsIn(box, waiters, pending, p) = 0
        ELSE CountsIn(box, waiters, pending, p) = IF p \in Refused THEN 0 ELSE 1
    BY <1>3, <1>4, <1>7 DEF Counted
  <2>3. /\ CountsIn(box, waiters, pending, p)
             = CountsIn(box', waiters', pending', p) + IF p = a THEN 1 ELSE 0
        /\ CountsIn(box, waiters, pending, p) \in Nat
        /\ CountsIn(box', waiters', pending', p) \in Nat
    BY <1>6, <2>1
  <2>4. p \in Refused' <=> p \in Refused \/ p = a
    BY <1>3
  <2> HIDE DEF p
  <2>5. IF client[c].pc = "open"
        THEN p \notin Refused' /\ CountsIn(box', waiters', pending', p) = 0
        ELSE CountsIn(box', waiters', pending', p) = IF p \in Refused' THEN 0 ELSE 1
    BY <2>2, <2>3, <2>4
  <2> QED BY <2>5 DEF p
<1>8. ASSUME NEW c \in AsyncClient, LocalPort[c] \notin Refused'
      PROVE  CountsIn(box', waiters', pending', LocalPort[c]) = reads'[c].current
  <2>1. LocalPort[c] \in Locals /\ LocalPort[c] \in DOMAIN box \ {ManagerPort}
    BY AsyncPorts DEF OnceInv, PortsFit
  <2>2. LocalPort[c] # a /\ CountsIn(box, waiters, pending, LocalPort[c]) = reads[c].current
    BY <1>3, <1>4, <1>8 DEF Counted
  <2>3. CountsIn(box', waiters', pending', LocalPort[c])
          = CountsIn(box, waiters, pending, LocalPort[c])
    BY <1>6, <2>1, <2>2
  <2> QED BY <1>2, <2>2, <2>3
<1>9. Counted'
  BY <1>2, <1>5, <1>7, <1>8 DEF Counted
<1> QED BY <1>1, <1>9

-----------------------------------------------------------------------------
(* Devices: those who serve *)

\* Servers send what fits.
LEMMA ServingMail ==
    ASSUME OnceInv, Serving,
           \A k \in DOMAIN box : \A m \in ToSet(box'[k]) :
              m \in ToSet(box[k]) \/ Sensible(nextPort, client, k, m)
    PROVE  MailFits'
<1>1. \A k \in DOMAIN box : \A m \in ToSet(box[k]) : Sensible(nextPort, client, k, m)
  BY DEF OnceInv, MailFits
<1>2. client' = client /\ nextPort' = nextPort /\ DOMAIN box' = DOMAIN box
  BY DEF Serving
<1> QED BY <1>1, <1>2 DEF MailFits

\* Servers keep the ports.
LEMMA ServingPorts ==
    ASSUME OnceInv, Serving, Ports(box'), irqPort' \in {NoPort} \cup DriverPorts,
           \A f \in failed' : f \in failed \/ f.of \in 1 .. nextPort - 1
    PROVE  PortsFit'
  BY DEF OnceInv, PortsFit, Serving

\* A message was taken from a port.
LEMMA TakeMessage ==
    ASSUME OnceInv, NEW q \in DOMAIN box, box[q] # << >>, NEW rest, rest = Received(q)
    PROVE  /\ MessageTaken(rest, box, q, Head(box[q]))
           /\ Sensible(nextPort, client, q, Head(box[q]))
<1>1. rest = [box EXCEPT ![q] = Tail(box[q])]
  BY DEF Received
<1>2. MessageTaken(rest, box, q, Head(box[q]))
  BY <1>1, PortPop DEF OnceInv, PortsFit
<1>3. Head(box[q]) \in ToSet(box[q])
  BY <1>2 DEF MessageTaken
<1> QED BY <1>2, <1>3 DEF OnceInv, MailFits

\* The messages of port q but m stay, and m1 is on port p1.
Swaps(q, m, p1, m1) ==
    /\ m \in ToSet(box[q])
    /\ \A k \in DOMAIN box : \A x \in ToSet(box[k]) : x \in ToSet(box'[k]) \/ (k = q /\ x = m)
    /\ p1 \in DOMAIN box => m1 \in ToSet(box'[p1])
    /\ m1.kind # "irq" =>
         /\ \A k \in DOMAIN box : OneNotice(box[k]) => OneNotice(box'[k])
         /\ OneNotice(box[q]) /\ m.kind = "irq" => NoNotice(box'[q])

\* A message m was taken from port q, and message m1 sent to port p1.
Exchanged(q, m, p1, m1) ==
    /\ Ports(box') /\ DOMAIN box' = DOMAIN box
    /\ Swaps(q, m, p1, m1)
    /\ \A k \in DOMAIN box : \A x \in ToSet(box'[k]) : x \in ToSet(box[k]) \/ (k = p1 /\ x = m1)
    /\ \A p \in DOMAIN box :
         /\ OnPorts(box, p) \in Nat /\ OnPorts(box', p) \in Nat
         /\ OnPorts(box', p) + IsCall(m, p) + IsAnswer(q, m, p)
              = OnPorts(box, p) + (IF p1 \in DOMAIN box THEN IsCall(m1, p) ELSE 0)
                                + IsAnswer(p1, m1, p)

\* A server takes one message and sends another.
LEMMA Exchange ==
    ASSUME OnceInv, NEW q \in DOMAIN box, box[q] # << >>, NEW p1, NEW m1,
           box' = Sent(Received(q), p1, m1)
    PROVE  Exchanged(q, Head(box[q]), p1, m1) /\ Sensible(nextPort, client, q, Head(box[q]))
<1> DEFINE rest == Received(q)
           m == Head(box[q])
<1>1. MessageTaken(rest, box, q, m) /\ Sensible(nextPort, client, q, m)
  BY TakeMessage
<1> HIDE DEF rest, m
<1>2. Ports(rest) /\ DOMAIN rest = DOMAIN box
  BY <1>1 DEF MessageTaken
<1>3. MessageSent(box', rest, p1, m1)
  <2>1. box' = Sent(rest, p1, m1)
    BY DEF rest
  <2> QED BY <1>2, <2>1, PortSend
<1>4. ASSUME NEW p \in DOMAIN box
      PROVE  /\ OnPorts(box, p) \in Nat /\ OnPorts(box', p) \in Nat
             /\ OnPorts(box', p) + IsCall(m, p) + IsAnswer(q, m, p)
                  = OnPorts(box, p) + (IF p1 \in DOMAIN box THEN IsCall(m1, p) ELSE 0)
                                    + IsAnswer(p1, m1, p)
  <2>1. /\ OnPorts(box, p) \in Nat /\ OnPorts(rest, p) \in Nat
        /\ OnPorts(box, p) = OnPorts(rest, p) + IsCall(m, p) + IsAnswer(q, m, p)
    BY <1>1 DEF MessageTaken
  <2>2. /\ OnPorts(box', p) \in Nat
        /\ OnPorts(box', p) = OnPorts(rest, p) + (IF p1 \in DOMAIN box THEN IsCall(m1, p) ELSE 0)
                                               + IsAnswer(p1, m1, p)
    BY <1>2, <1>3 DEF MessageSent
  <2>3. /\ IsCall(m, p) \in {0, 1} /\ IsAnswer(q, m, p) \in {0, 1}
        /\ IsCall(m1, p) \in {0, 1} /\ IsAnswer(p1, m1, p) \in {0, 1}
    BY DEF IsCall, IsAnswer
  <2> QED BY <2>1, <2>2, <2>3
<1>5. \A k \in DOMAIN box : \A x \in ToSet(box'[k]) : x \in ToSet(box[k]) \/ (k = p1 /\ x = m1)
  <2>1. \A k \in DOMAIN box : ToSet(rest[k]) \subseteq ToSet(box[k])
    BY <1>1 DEF MessageTaken
  <2>2. \A k \in DOMAIN box : ToSet(box'[k]) \subseteq ToSet(rest[k]) \cup IF k = p1 THEN {m1} ELSE {}
    BY <1>2, <1>3 DEF MessageSent
  <2> QED BY <2>1, <2>2
<1>6. Exchanged(q, m, p1, m1)
  <2>1. Ports(box') /\ DOMAIN box' = DOMAIN box
    BY <1>2, <1>3 DEF MessageSent
  <2>2. Removes(rest, box, q, m) /\ Adds(box', rest, p1, m1) /\ m \in ToSet(box[q])
    BY <1>1, <1>3 DEF MessageTaken, MessageSent
  <2>3. \A k \in DOMAIN box : \A x \in ToSet(box'[k]) : x \in ToSet(rest[k]) \/ (k = p1 /\ x = m1)
    <3>1. \A k \in DOMAIN box : ToSet(box'[k]) \subseteq ToSet(rest[k]) \cup IF k = p1 THEN {m1} ELSE {}
      BY <1>2, <1>3 DEF MessageSent
    <3> QED BY <3>1
  <2>4. Swaps(q, m, p1, m1)
    <3>1. ASSUME m1.kind # "irq", OneNotice(box[q]), m.kind = "irq"
          PROVE  NoNotice(box'[q])
      <4>1. NoNotice(rest[q])
        BY <2>2, <3>1 DEF Removes
      <4> QED BY <2>3, <3>1, <4>1 DEF NoNotice
    <3>2. m1.kind # "irq" => \A k \in DOMAIN box : OneNotice(box[k]) => OneNotice(box'[k])
      BY <1>2, <2>2 DEF Removes, Adds
    <3>3. \A k \in DOMAIN box : \A x \in ToSet(box[k]) : x \in ToSet(box'[k]) \/ (k = q /\ x = m)
      BY <1>2, <2>2 DEF Removes, Adds
    <3>4. p1 \in DOMAIN box => m1 \in ToSet(box'[p1])
      BY <1>2, <2>2 DEF Adds
    <3> QED BY <2>2, <3>1, <3>2, <3>3, <3>4 DEF Swaps
  <2> QED BY <1>4, <1>5, <2>1, <2>4 DEF Exchanged
<1> QED BY <1>1, <1>6 DEF m

-----------------------------------------------------------------------------
(* Devices: what a step may do to messages, lists and clients *)

\* The ports of the drivers whose devices are of type y.
PortsOf(y) == {LocalPort[d] : d \in {e \in Driver : typeOf[e] = y}}

None == {}
Only(x) == {x}

\* Client c has its device, and asks it for answers on a port of its own.
Bound(clients, c) == clients[c].pc \in {"open", "waiting"}
AskPort(clients, c) == IF c \in SyncClient THEN clients[c].reply ELSE LocalPort[c]
Asker(clients, c, q, p) ==
    Bound(clients, c) /\ clients[c].port = q /\ AskPort(clients, c) = p

LooksUp(clients, c, p) == clients[c].pc = "lookup" /\ clients[c].reply = p
Opens(clients, c, p) == clients[c].pc = "opening" /\ clients[c].reply = p

Announced(y, p) ==
    \E a \in ToSet(box[ManagerPort]) : a.kind = "announce" /\ a.type = y /\ a.port = p
LookedUp(y, p) ==
    \E l \in ToSet(box[ManagerPort]) : l.kind = "lookup" /\ l.type = y /\ l.port = p

\* A driver accepts the call o.
Accepts(d, o) ==
    /\ o \in ToSet(box[LocalPort[d]]) /\ o.kind = "open" /\ CanOpen(d, o)
    /\ conns' = [conns EXCEPT ![d] = Append(@, o.shmem)]
    /\ irqPort' = IF typeOf[d] = "INPUT" THEN LocalPort[d] ELSE irqPort

\* A driver has a request to be answered on port p.
Owes(d, p) ==
    \/ \E m \in ToSet(box[LocalPort[d]]) : m.kind = "request" /\ m.port = p
    \/ \E r \in ToSet(pending[d]) : r.port = p

\* Why there may be a new message m on port k.
Told(k, m) ==
    m.kind = "found" /\ \E y \in Type :
       \/ Announced(y, m.port) /\ k \in ToSet(waiters[y])
       \/ LookedUp(y, k) /\ \E x \in ToSet(known[y]) : x.port = m.port
Requesting(k, m) ==
    m.kind = "request" /\ \E c \in Client :
       /\ Asker(client, c, k, m.port) /\ m.conn = client[c].conn
       /\ wants[c] = "INPUT" => m.op = "READ"

\* Why there may be a new message m on port k: drivers D finish requests, the interrupt
\* is noted on ports I.
Posted(D, I, k, m) ==
    \/ m.kind = "announce" /\ m.port \in PortsOf(m.type)
    \/ m.kind = "irq" /\ k \in I
    \/ /\ m.kind = "lookup" /\ m.port = nextPort
       /\ \E c \in Client : LooksUp(client', c, nextPort) /\ m.type = wants[c]
    \/ /\ m.kind = "open" /\ m.port = nextPort
       /\ \E c \in Client : /\ Opens(client', c, nextPort) /\ k = client'[c].port
                            /\ m.shmem = client'[c].shmem
    \/ Requesting(k, m)
    \/ Told(k, m)
    \/ m.kind = "error" /\ (k \in Disturbed' \/ \E y \in Type : LookedUp(y, k))
    \/ m.kind = "opened" /\ \E d \in Driver : \E o \in ToSet(box[LocalPort[d]]) :
          Accepts(d, o) /\ k = o.port /\ m.conn = Len(conns[d]) + 1
    \/ m.kind = "done" /\ \E d \in D : Owes(d, k)

\* What a step may do to messages: answers to requests are taken from ports T only.
MailStep(D, T, I) ==
    /\ \A k \in DOMAIN box' : \A m \in ToSet(box'[k]) :
         (k \in DOMAIN box /\ m \in ToSet(box[k])) \/ Posted(D, I, k, m)
    /\ \A k \in DOMAIN box' \ I :
         (k \in DOMAIN box => OneNotice(box[k])) => OneNotice(box'[k])
    /\ \A k \in DOMAIN box \ T : \A m \in ToSet(box[k]) :
         m.kind = "done" => k \in DOMAIN box' /\ m \in ToSet(box'[k])

\* A message that is not the answer to a request, or on a port of T, is taken.
LEMMA TakenMail ==
    ASSUME OnceInv, NEW q \in DOMAIN box, box[q] # << >>, box' = Received(q),
           NEW D, NEW T, NEW I, Head(box[q]).kind # "done" \/ q \in T
    PROVE  MailStep(D, T, I)
<1> DEFINE m == Head(box[q])
<1>1. MessageTaken(box', box, q, m)
  BY TakeMessage
<1>2. m.kind # "done" \/ q \in T
  OBVIOUS
<1> HIDE DEF m
<1>3. Removes(box', box, q, m) /\ DOMAIN box' = DOMAIN box
      /\ \A k \in DOMAIN box : ToSet(box'[k]) \subseteq ToSet(box[k])
  BY <1>1 DEF MessageTaken
<1> QED BY <1>2, <1>3 DEF MailStep, Removes

\* A message that may be sent is sent.
LEMMA SentMail ==
    ASSUME OnceInv, NEW q, NEW m, box' = Sent(box, q, m), 
           NEW D, NEW T, NEW I, q \in DOMAIN box => Posted(D, I, q, m), m.kind = "irq" => q \in I
    PROVE  MailStep(D, T, I)
<1>1. MessageSent(box', box, q, m)
  BY PortSend DEF OnceInv, PortsFit
<1>2. Adds(box', box, q, m) /\ DOMAIN box' = DOMAIN box
      /\ \A k \in DOMAIN box : ToSet(box'[k]) \subseteq ToSet(box[k]) \cup IF k = q THEN {m} ELSE {}
  BY <1>1 DEF MessageSent
<1>3. \A k \in DOMAIN box' : \A x \in ToSet(box'[k]) :
        (k \in DOMAIN box /\ x \in ToSet(box[k])) \/ Posted(D, I, k, x)
  BY <1>2
<1> QED BY <1>2, <1>3 DEF MailStep, Adds

\* One is taken, another one sent.
LEMMA SwapMail ==
    ASSUME OnceInv, NEW q \in DOMAIN box, box[q] # << >>, NEW D, NEW T, NEW I, Head(box[q]).kind # "done" \/ q \in T,
           NEW p1, NEW m1, box' = Sent(Received(q), p1, m1), m1.kind # "irq",
           p1 \in DOMAIN box => Posted(D, I, p1, m1)
    PROVE  MailStep(D, T, I)
<1> DEFINE m == Head(box[q])
<1>1. Exchanged(q, m, p1, m1)
  BY Exchange
<1>2. m.kind # "done" \/ q \in T
  OBVIOUS
<1> HIDE DEF m
<1>3. Swaps(q, m, p1, m1) /\ DOMAIN box' = DOMAIN box
      /\ \A k \in DOMAIN box : \A x \in ToSet(box'[k]) : x \in ToSet(box[k]) \/ (k = p1 /\ x = m1)
  BY <1>1 DEF Exchanged
<1> QED BY <1>2, <1>3 DEF MailStep, Swaps

\* Answers are sent to many.
LEMMA FlushMail ==
    ASSUME OnceInv, NEW D, NEW T, NEW I, NEW b, NEW envelopes, NEW n, AllSent(box', b, envelopes, n),
           NEW q, NEW m, Removes(b, box, q, m), m.kind # "done", DOMAIN b = DOMAIN box,
           \A k \in DOMAIN box : ToSet(b[k]) \subseteq ToSet(box[k]),
           \A i \in 1 .. n : Posted(D, I, envelopes[i].to, envelopes[i].msg)
    PROVE  MailStep(D, T, I)
<1>1. DOMAIN box' = DOMAIN box /\ Widens(box', b)
  BY DEF AllSent
<1>2. ASSUME NEW k \in DOMAIN box, NEW x \in ToSet(box'[k])
      PROVE  x \in ToSet(box[k]) \/ Posted(D, I, k, x)
  BY DEF AllSent
<1>3. \A k \in DOMAIN box : (OneNotice(box[k]) => OneNotice(box'[k]))
  BY <1>1 DEF Widens, Removes
<1>4. ASSUME NEW k \in DOMAIN box, NEW x \in ToSet(box[k]), x.kind = "done"
      PROVE  x \in ToSet(box'[k])
  BY <1>1, <1>4 DEF Widens, Removes
<1> QED BY <1>1, <1>2, <1>3, <1>4 DEF MailStep

\* A call is sent, with a new port for the answer.
LEMMA AskedMail ==
    ASSUME OnceInv, NEW q, NEW m, Asked(q, m), NEW D, NEW T, NEW I,
           Posted(D, I, q, m), m.kind # "irq"
    PROVE  MailStep(D, T, I)
<1> DEFINE b == [k \in DOMAIN box \cup {nextPort} |-> IF k = nextPort THEN << >> ELSE box[k]]
<1>1. Ports(box) /\ nextPort \notin DOMAIN box /\ Created(b, box, nextPort)
  BY DEF OnceInv, PortsFit, Created
<1>2. box' = Sent(b, q, m)
  BY DEF Asked
<1> HIDE DEF b
<1>3. Widened(b, box, nextPort)
  BY <1>1, PortAdd
<1>4. MessageSent(box', b, q, m)
  BY <1>2, <1>3, PortSend DEF Widened
<1>5. /\ Adds(box', b, q, m) /\ DOMAIN box' = DOMAIN b
      /\ \A k \in DOMAIN b : ToSet(box'[k]) \subseteq ToSet(b[k]) \cup IF k = q THEN {m} ELSE {}
  BY <1>4 DEF MessageSent
<1>6. /\ DOMAIN b = DOMAIN box \cup {nextPort} /\ ToSet(b[nextPort]) = {}
      /\ \A k \in DOMAIN box : b[k] = box[k]
  BY <1>3 DEF Widened
<1>7. OneNotice(b[nextPort])
  <2>1. b[nextPort] = << >>
    BY <1>1 DEF Created
  <2>2. DOMAIN b[nextPort] = {}
    BY <2>1
  <2> QED BY <2>2 DEF OneNotice
<1>8. \A k \in DOMAIN box' : \A x \in ToSet(box'[k]) :
        (k \in DOMAIN box /\ x \in ToSet(box[k])) \/ Posted(D, I, k, x)
  BY <1>5, <1>6
<1> QED BY <1>5, <1>6, <1>7, <1>8 DEF MailStep, Adds

\* A port of T is given up.
LEMMA DropMail ==
    ASSUME OnceInv, NEW q, box' = Without(q), NEW D, NEW T, NEW I, q \in T
    PROVE  MailStep(D, T, I)
<1>1. DOMAIN box' = DOMAIN box \ {q} /\ \A k \in DOMAIN box' : box'[k] = box[k]
  BY DEF Without, Restrict
<1> QED BY <1>1 DEF MailStep

\* Who touches no message may do so.
LEMMA SameMail == ASSUME box' = box, NEW D, NEW T, NEW I PROVE MailStep(D, T, I)
BY DEF MailStep

-----------------------------------------------------------------------------
(* Devices: what those who serve do *)

\* Messages that nobody answers.
LEMMA IgnoreKeeps ==
    ASSUME OnceInv, NEW q \in {ManagerPort} \cup Locals, box[q] # << >>,
           Head(box[q]).kind \in {"error", "irq", "announce"}, box' = Received(q),
           UNCHANGED << known, waiters, pending, irqPort, client, reads, nextPort, failed, setting >>
    PROVE  OnceInv'
<1> DEFINE m == Head(box[q])
<1>1. q \in DOMAIN box
  BY DEF OnceInv, PortsFit
<1>2. MessageTaken(box', box, q, m) /\ m.kind \in {"error", "irq", "announce"}
  BY <1>1, TakeMessage
<1> HIDE DEF m
<1>3. Serving
  BY <1>2 DEF Serving, MessageTaken, OnceInv, ClientsFit
<1>4. MailFits'
  <2>1. \A k \in DOMAIN box : ToSet(box'[k]) \subseteq ToSet(box[k])
    BY <1>2 DEF MessageTaken
  <2> QED BY <1>3, <2>1, ServingMail
<1>5. ListsFit'
  BY DEF OnceInv, ListsFit
<1>6. PortsFit'
  <2>1. Ports(box') /\ irqPort' \in {NoPort} \cup DriverPorts
    BY <1>2 DEF MessageTaken, OnceInv, PortsFit
  <2> QED BY <1>3, <2>1, ServingPorts
<1>7. CountsKept
  <2> SUFFICES ASSUME NEW p \in DOMAIN box \ {ManagerPort}
               PROVE  CountsIn(box', waiters', pending', p) = CountsIn(box, waiters, pending, p)
    BY DEF CountsKept, CountsIn
  <2>1. IsCall(m, p) = 0 /\ IsAnswer(q, m, p) = 0
    BY <1>2 DEF IsCall, IsAnswer, Answers, Asking, Locals
  <2>2. /\ OnPorts(box', p) \in Nat
        /\ OnPorts(box, p) = OnPorts(box', p) + IsCall(m, p) + IsAnswer(q, m, p)
    BY <1>2 DEF MessageTaken
  <2>3. OnPorts(box, p) = OnPorts(box', p)
    BY <2>1, <2>2
  <2> QED BY <2>3 DEF CountsIn
<1> QED BY <1>3, <1>4, <1>5, <1>6, <1>7, CountedKept DEF OnceInv

\* Messages that ask for nothing.
LEMMA TellingKeeps ==
    ASSUME OnceInv, NEW q \in {ManagerPort} \cup Locals, NEW m, m.kind \in {"announce", "irq"},
           Sensible(nextPort, client, q, m), box' = Sent(box, q, m),
           UNCHANGED << known, waiters, pending, irqPort, client, reads, nextPort, failed, setting >>
    PROVE  OnceInv'
<1>1. q \in DOMAIN box
  BY DEF OnceInv, PortsFit
<1>2. MessageSent(box', box, q, m)
  BY PortSend DEF OnceInv, PortsFit
<1>3. Serving
  BY <1>2 DEF Serving, MessageSent, OnceInv, ClientsFit
<1>4. MailFits'
  <2>1. \A k \in DOMAIN box : \A x \in ToSet(box'[k]) :
          x \in ToSet(box[k]) \/ Sensible(nextPort, client, k, x)
    <3>1. \A k \in DOMAIN box : ToSet(box'[k]) \subseteq ToSet(box[k]) \cup IF k = q THEN {m} ELSE {}
      BY <1>2 DEF MessageSent
    <3> QED BY <3>1
  <2> QED BY <1>3, <2>1, ServingMail
<1>5. ListsFit'
  BY DEF OnceInv, ListsFit
<1>6. PortsFit'
  <2>1. Ports(box') /\ irqPort' \in {NoPort} \cup DriverPorts
    BY <1>2 DEF MessageSent, OnceInv, PortsFit
  <2> QED BY <1>3, <2>1, ServingPorts
<1>7. CountsKept
  <2> SUFFICES ASSUME NEW p \in DOMAIN box \ {ManagerPort}
               PROVE  CountsIn(box', waiters', pending', p) = CountsIn(box, waiters, pending, p)
    BY DEF CountsKept, CountsIn
  <2>1. IsCall(m, p) = 0 /\ IsAnswer(q, m, p) = 0
    BY DEF IsCall, IsAnswer, Answers, Asking
  <2>2. /\ OnPorts(box, p) \in Nat
        /\ OnPorts(box', p) = OnPorts(box, p) + (IF q \in DOMAIN box THEN IsCall(m, p) ELSE 0)
                                              + IsAnswer(q, m, p)
    BY <1>2 DEF MessageSent
  <2>3. OnPorts(box, p) = OnPorts(box', p)
    BY <2>1, <2>2
  <2> QED BY <2>3 DEF CountsIn
<1> QED BY <1>3, <1>4, <1>5, <1>6, <1>7, CountedKept DEF OnceInv

\* A key is no message yet.
LEMMA KeyPressedKeeps == ASSUME OnceInv, KeyPressed PROVE OnceInv'
<1>1. UNCHANGED << box, known, waiters, pending, irqPort, client, reads, nextPort, failed, setting >>
  BY DEF KeyPressed, managerVars, driverVars, clientVars
<1>2. Serving /\ CountsKept
  BY <1>1 DEF Serving, CountsKept, OnceInv, ClientsFit, CountsIn
<1>3. MailFits' /\ ListsFit' /\ PortsFit'
  BY <1>1 DEF OnceInv, MailFits, ListsFit, PortsFit
<1> QED BY <1>1, <1>2, <1>3, CountedKept DEF OnceInv

\* The notification of the interrupt asks for nothing.
LEMMA KeyInterruptKeeps == ASSUME OnceInv, KeyInterrupt PROVE OnceInv'
<1> DEFINE m == [kind |-> "irq"]
<1>1. UNCHANGED << known, waiters, pending, irqPort, client, reads, nextPort, failed, setting >>
  BY DEF KeyInterrupt, managerVars, driverVars, clientVars
<1>2. box' = Sent(box, irqPort, m) /\ irqPort \in Locals
  BY AsyncPorts DEF KeyInterrupt, OnceInv, PortsFit
<1>3. Sensible(nextPort, client, irqPort, m) /\ m.kind \in {"announce", "irq"}
  BY <1>2 DEF Sensible, Asking, AnswerKinds
<1> HIDE DEF m
<1> QED BY <1>1, <1>2, <1>3, TellingKeeps

\* A driver announces its device.
LEMMA AnnounceKeeps == ASSUME OnceInv, NEW d \in Driver, Announce(d) PROVE OnceInv'
<1> DEFINE m == [kind |-> "announce", type |-> typeOf[d], port |-> LocalPort[d], id |-> 0]
<1>1. UNCHANGED << known, waiters, pending, irqPort, client, reads, nextPort, failed, setting >>
  BY DEF Announce, managerVars, keyVars, clientVars
<1>2. box' = Sent(box, ManagerPort, m)
  BY DEF Announce
<1>3. Sensible(nextPort, client, ManagerPort, m) /\ m.kind \in {"announce", "irq"}
  <2>1. m.kind = "announce" /\ m.type \in Type /\ m.port \in DriverPorts
    BY AsyncPorts DEF OnceInv, ClientsFit
  <2> QED BY <2>1, AsyncPorts DEF Sensible, Asking, AnswerKinds
<1> HIDE DEF m
<1> QED BY <1>1, <1>2, <1>3, TellingKeeps

\* The manager drops errors, and devices it has no memory for.
LEMMA ManagerIgnoreKeeps == ASSUME OnceInv, ManagerIgnore \/ ManagerForgets PROVE OnceInv'
<1>1. UNCHANGED << known, waiters, pending, irqPort, client, reads, nextPort, failed, setting >>
  BY DEF ManagerIgnore, ManagerForgets, managerVars, driverVars, keyVars, clientVars
<1> QED BY <1>1, IgnoreKeeps DEF ManagerIgnore, ManagerForgets, Arrived

\* A driver drops errors.
LEMMA HandleIgnoreKeeps == ASSUME OnceInv, NEW d \in Driver, HandleIgnore(d) PROVE OnceInv'
<1>1. UNCHANGED << known, waiters, pending, irqPort, client, reads, nextPort, failed, setting >>
  BY DEF HandleIgnore, managerVars, driverVars, keyVars, clientVars
<1>2. LocalPort[d] \in Locals
  BY AsyncPorts
<1> QED BY <1>1, <1>2, IgnoreKeeps DEF HandleIgnore, Handles, Arrived

\* An asynchronous client drops errors.
LEMMA AsyncIgnoreKeeps == ASSUME OnceInv, NEW c, AsyncIgnore(c) PROVE OnceInv'
<1>1. UNCHANGED << known, waiters, pending, irqPort, client, reads, nextPort, failed, setting >>
  BY DEF AsyncIgnore, managerVars, driverVars, keyVars, clientVars
<1>2. LocalPort[c] \in Locals
  BY AsyncPorts DEF AsyncIgnore
<1> QED BY <1>1, <1>2, IgnoreKeeps DEF AsyncIgnore, Arrived

\* A call is answered.
LEMMA AnsweringKeeps ==
    ASSUME OnceInv, NEW q \in {ManagerPort} \cup Locals, box[q] # << >>,
           NEW m, m = Head(box[q]), m.kind \in Asking,
           NEW m1, m1.kind \in {"error"} \cup AnswerKinds,
           m1.kind = "error" => m.port \notin Locals,
           m1.kind = "found" => m1.port \in DriverPorts,
           box' = Sent(Received(q), m.port, m1),
           irqPort' \in {NoPort} \cup DriverPorts,
           UNCHANGED << known, waiters, pending, client, reads, nextPort, failed, setting >>
    PROVE  OnceInv'
<1>1. q \in DOMAIN box
  BY DEF OnceInv, PortsFit
<1>2. Exchanged(q, m, m.port, m1) /\ Sensible(nextPort, client, q, m)
  BY <1>1, Exchange
<1>3. Token(nextPort, client, m.port)
  BY <1>2 DEF Sensible
<1>4. Sensible(nextPort, client, m.port, m1)
  BY <1>3 DEF Sensible, Asking, AnswerKinds
<1>5. Serving
  BY <1>2 DEF Serving, Exchanged, OnceInv, ClientsFit
<1>6. MailFits'
  BY <1>2, <1>4, <1>5, ServingMail DEF Exchanged
<1>7. ListsFit'
  BY DEF OnceInv, ListsFit
<1>8. PortsFit'
  BY <1>2, <1>5, ServingPorts DEF Exchanged
<1>9. CountsKept
  <2> SUFFICES ASSUME NEW p \in DOMAIN box \ {ManagerPort}
               PROVE  CountsIn(box', waiters', pending', p) = CountsIn(box, waiters, pending, p)
    BY DEF CountsKept, CountsIn
  <2> DEFINE k == IF m.port = p THEN 1 ELSE 0
  <2>1. IsCall(m, p) = k /\ IsAnswer(q, m, p) = 0
    BY DEF IsCall, IsAnswer, Answers, Asking
  <2>2. IsCall(m1, p) = 0 /\ IsAnswer(m.port, m1, p) = k
    BY DEF IsCall, IsAnswer, Answers, Asking, AnswerKinds, Locals
  <2>3. /\ OnPorts(box, p) \in Nat /\ OnPorts(box', p) \in Nat
        /\ OnPorts(box', p) + IsCall(m, p) + IsAnswer(q, m, p)
             = OnPorts(box, p) + (IF m.port \in DOMAIN box THEN IsCall(m1, p) ELSE 0)
                               + IsAnswer(m.port, m1, p)
    BY <1>2 DEF Exchanged
  <2>4. OnPorts(box, p) = OnPorts(box', p)
    <3>1. k \in Nat
      OBVIOUS
    <3> HIDE DEF k
    <3> QED BY <2>1, <2>2, <2>3, <3>1
  <2> QED BY <2>4 DEF CountsIn
<1> QED BY <1>5, <1>6, <1>7, <1>8, <1>9, CountedKept DEF OnceInv

\* A call is refused, with an error for port e.
LEMMA RefusingKeeps ==
    ASSUME OnceInv, NEW q \in {ManagerPort} \cup Locals, box[q] # << >>,
           NEW m, m = Head(box[q]), m.kind \in Asking, NEW e,
           box' = Sent(Received(q), e, Error),
           failed' = failed \cup {[of |-> m.port, to |-> e]},
           UNCHANGED << known, waiters, pending, irqPort, client, reads, nextPort, setting >>
    PROVE  OnceInv'
<1>1. q \in DOMAIN box
  BY DEF OnceInv, PortsFit
<1> DEFINE m1 == Error
<1>2. m1.kind = "error"
  BY DEF Error
<1>3. Exchanged(q, m, e, m1) /\ Sensible(nextPort, client, q, m)
  BY <1>1, Exchange
<1> HIDE DEF m1
<1>4. Token(nextPort, client, m.port)
  BY <1>3 DEF Sensible
<1>5. \A k : Sensible(nextPort, client, k, m1)
  BY <1>2 DEF Sensible, Asking, AnswerKinds
<1>6. Serving
  BY <1>3 DEF Serving, Exchanged, OnceInv, ClientsFit
<1>7. MailFits'
  BY <1>3, <1>5, <1>6, ServingMail DEF Exchanged
<1>8. ListsFit'
  BY DEF OnceInv, ListsFit
<1>9. PortsFit'
  <2> DEFINE f0 == [of |-> m.port, to |-> e]
  <2>1. f0.of \in 1 .. nextPort - 1
    BY <1>4 DEF Token
  <2>2. failed' = failed \cup {f0}
    OBVIOUS
  <2> HIDE DEF f0
  <2>3. \A f \in failed' : f \in failed \/ f.of \in 1 .. nextPort - 1
    BY <2>1, <2>2
  <2>4. Ports(box') /\ irqPort' \in {NoPort} \cup DriverPorts
    BY <1>3 DEF Exchanged, OnceInv, PortsFit
  <2> QED BY <1>6, <2>3, <2>4, ServingPorts
<1>10. Refusing(m.port, e)
  <2> SUFFICES ASSUME NEW p \in DOMAIN box \ {ManagerPort}, p # e \/ p \in Locals
               PROVE  CountsIn(box, waiters, pending, p)
                        = CountsIn(box', waiters', pending', p) + IF p = m.port THEN 1 ELSE 0
    BY DEF Refusing, CountsIn
  <2> DEFINE k == IF p = m.port THEN 1 ELSE 0
  <2>1. IsCall(m, p) = k /\ IsAnswer(q, m, p) = 0
    BY DEF IsCall, IsAnswer, Answers, Asking
  <2>2. IsCall(m1, p) = 0 /\ IsAnswer(e, m1, p) = 0
    BY <1>2 DEF IsCall, IsAnswer, Answers, Asking, Locals
  <2>3. /\ OnPorts(box, p) \in Nat /\ OnPorts(box', p) \in Nat
        /\ OnPorts(box', p) + IsCall(m, p) + IsAnswer(q, m, p)
             = OnPorts(box, p) + (IF e \in DOMAIN box THEN IsCall(m1, p) ELSE 0)
                               + IsAnswer(e, m1, p)
    BY <1>3 DEF Exchanged
  <2>4. Cardinality(WaitsIn(waiters, p)) \in Nat /\ Cardinality(RequestsIn(pending, p)) \in Nat
    BY CountsTyped DEF OnceInv, PortsFit, ListsFit
  <2>5. OnPorts(box, p) = OnPorts(box', p) + k
    <3>1. k \in Nat
      OBVIOUS
    <3> HIDE DEF k
    <3> QED BY <2>1, <2>2, <2>3, <3>1
  <2>6. waiters' = waiters /\ pending' = pending
    OBVIOUS
  <2> QED BY <2>3, <2>4, <2>5, <2>6 DEF CountsIn
<1> QED BY <1>6, <1>7, <1>8, <1>9, <1>10, CountedRefusing DEF OnceInv

\* A call is put off: what left the port is on a list.
LEMMA QueueingKeeps ==
    ASSUME OnceInv, NEW q \in {ManagerPort} \cup Locals, box[q] # << >>,
           NEW m, m = Head(box[q]), m.kind \in Asking, box' = Received(q), ListsFit',
           \A p : Cardinality(WaitsIn(waiters', p)) + Cardinality(RequestsIn(pending', p))
                    = Cardinality(WaitsIn(waiters, p)) + Cardinality(RequestsIn(pending, p))
                        + IF m.port = p THEN 1 ELSE 0,
           UNCHANGED << irqPort, client, reads, nextPort, failed, setting >>
    PROVE  OnceInv'
<1>1. q \in DOMAIN box
  BY DEF OnceInv, PortsFit
<1>2. MessageTaken(box', box, q, m)
  BY <1>1, TakeMessage
<1>3. Serving
  BY <1>2 DEF Serving, MessageTaken, OnceInv, ClientsFit
<1>4. MailFits'
  <2>1. \A k \in DOMAIN box : ToSet(box'[k]) \subseteq ToSet(box[k])
    BY <1>2 DEF MessageTaken
  <2> QED BY <1>3, <2>1, ServingMail
<1>5. PortsFit'
  <2>1. Ports(box') /\ irqPort' \in {NoPort} \cup DriverPorts
    BY <1>2 DEF MessageTaken, OnceInv, PortsFit
  <2> QED BY <1>3, <2>1, ServingPorts
<1>6. CountsKept
  <2> SUFFICES ASSUME NEW p \in DOMAIN box \ {ManagerPort}
               PROVE  CountsIn(box', waiters', pending', p) = CountsIn(box, waiters, pending, p)
    BY DEF CountsKept, CountsIn
  <2> DEFINE k == IF m.port = p THEN 1 ELSE 0
             w == Cardinality(WaitsIn(waiters, p))
             w1 == Cardinality(WaitsIn(waiters', p))
             r == Cardinality(RequestsIn(pending, p))
             r1 == Cardinality(RequestsIn(pending', p))
  <2>1. IsCall(m, p) = k /\ IsAnswer(q, m, p) = 0
    BY DEF IsCall, IsAnswer, Answers, Asking
  <2>2. /\ OnPorts(box, p) \in Nat /\ OnPorts(box', p) \in Nat
        /\ OnPorts(box, p) = OnPorts(box', p) + IsCall(m, p) + IsAnswer(q, m, p)
    BY <1>2 DEF MessageTaken
  <2>3. w \in Nat /\ r \in Nat /\ w1 \in Nat /\ r1 \in Nat
    <3>1. p \in DOMAIN box /\ p \in DOMAIN box'
      BY <1>2 DEF MessageTaken
    <3>2. Ports(box) /\ Waits(waiters) /\ Requests(pending)
          /\ Ports(box') /\ Waits(waiters') /\ Requests(pending')
      BY <1>2 DEF MessageTaken, OnceInv, PortsFit, ListsFit
    <3> QED BY <3>1, <3>2, CountsTyped
  <2>4. w1 + r1 = w + r + k /\ k \in Nat
    OBVIOUS
  <2>5. /\ CountsIn(box, waiters, pending, p) = OnPorts(box, p) + w + r
        /\ CountsIn(box', waiters', pending', p) = OnPorts(box', p) + w1 + r1
    BY DEF CountsIn
  <2> HIDE DEF k, w, w1, r, r1
  <2> QED BY <2>1, <2>2, <2>3, <2>4, <2>5
<1> QED BY <1>3, <1>4, <1>5, <1>6, CountedKept DEF OnceInv

\* The manager answers a look-up, notes the waiter, or refuses with an answer.
LEMMA ManagerLookupKeeps == ASSUME OnceInv, ManagerLookup PROVE OnceInv'
<1> DEFINE m == Head(box[ManagerPort])
           devices == known[m.type]
<1>1. /\ ManagerPort \in DOMAIN box /\ box[ManagerPort] # << >> /\ m.kind = "lookup"
      /\ m.kind \in Asking
      /\ UNCHANGED << known, pending, irqPort, client, reads, nextPort, failed, setting >>
  BY DEF ManagerLookup, Arrived, Asking, driverVars, keyVars, clientVars
<1>2. Sensible(nextPort, client, ManagerPort, m)
  <2>1. \A rest : rest = Received(ManagerPort) => Sensible(nextPort, client, ManagerPort, m)
    BY <1>1, TakeMessage
  <2> QED BY <2>1
<1>3. m.type \in Type /\ Token(nextPort, client, m.port) /\ m.port \notin Locals
  BY <1>1, <1>2 DEF Sensible
<1>4. CASE /\ devices # << >>
           /\ box' = Sent(Received(ManagerPort), m.port,
                          [kind |-> "found", port |-> Head(devices).port, id |-> Head(devices).id])
           /\ UNCHANGED waiters
  <2> DEFINE m1 == [kind |-> "found", port |-> Head(devices).port, id |-> Head(devices).id]
  <2>1. Head(devices).port \in DriverPorts
    <3>1. PICK T : known \in [Type -> Seq(T)]
      BY DEF OnceInv, ListsFit, IsFamily
    <3>2. devices \in Seq(T)
      BY <1>3, <3>1
    <3> HIDE DEF m
    <3>3. Head(devices) \in ToSet(devices)
      <4> HIDE DEF devices
      <4> QED BY <1>4, <3>2, PopElements
    <3> QED BY <1>3, <3>3 DEF OnceInv, ListsFit
  <2>2. m1.kind = "found" /\ m1.port \in DriverPorts /\ m1.kind \in {"error"} \cup AnswerKinds
    BY <2>1 DEF AnswerKinds
  <2>3. box' = Sent(Received(ManagerPort), m.port, m1) /\ waiters' = waiters
    BY <1>4
  <2>4. m = Head(box[ManagerPort]) /\ irqPort' \in {NoPort} \cup DriverPorts
    BY <1>1 DEF OnceInv, PortsFit
  <2> HIDE DEF m, m1
  <2> QED BY <1>1, <2>2, <2>3, <2>4, AnsweringKeeps
<1>5. CASE /\ waiters' = [waiters EXCEPT ![m.type] = << m.port >> \o @]
           /\ box' = Received(ManagerPort)
  <2> DEFINE z == m.port
  <2>1. WaitsGain(waiters', waiters, z)
    <3>1. m.type \in DOMAIN waiters /\ Waits(waiters)
      BY <1>3 DEF OnceInv, ListsFit
    <3>2. waiters' = [waiters EXCEPT ![m.type] = << z >> \o waiters[m.type]]
      BY <1>5
    <3> HIDE DEF m, z
    <3> QED BY <3>1, <3>2, WaitAdd
  <2> HIDE DEF z
  <2>2. Token(nextPort, client, z)
    BY <1>3 DEF z
  <2>3. ListsFit'
    <3>1. Waits(waiters') /\ DOMAIN waiters' = Type
      BY <2>1 DEF WaitsGain, OnceInv, ListsFit
    <3>2. \A y \in Type : \A p \in ToSet(waiters'[y]) : Token(nextPort, client, p)
      BY <2>1, <2>2 DEF WaitsGain, OnceInv, ListsFit
    <3> QED BY <1>1, <3>1, <3>2 DEF OnceInv, ListsFit
  <2>4. ASSUME NEW p
        PROVE  Cardinality(WaitsIn(waiters', p)) + Cardinality(RequestsIn(pending', p))
                 = Cardinality(WaitsIn(waiters, p)) + Cardinality(RequestsIn(pending, p))
                     + IF m.port = p THEN 1 ELSE 0
    <3>1. /\ Cardinality(WaitsIn(waiters, p)) \in Nat
          /\ Cardinality(WaitsIn(waiters', p))
               = Cardinality(WaitsIn(waiters, p)) + IF m.port = p THEN 1 ELSE 0
      BY <2>1 DEF WaitsGain, z
    <3>2. Cardinality(RequestsIn(pending, p)) \in Nat
      <4>1. IsFiniteSet(RequestsIn(pending, p))
        BY DEF OnceInv, ListsFit, Requests
      <4> QED BY <4>1, FS_CardinalityType
    <3>3. pending' = pending
      BY <1>1
    <3> QED BY <3>1, <3>2, <3>3
  <2>5. m = Head(box[ManagerPort]) /\ box' = Received(ManagerPort)
    BY <1>5
  <2> HIDE DEF m
  <2> QED BY <1>1, <2>3, <2>4, <2>5, QueueingKeeps
<1>6. CASE box' = Sent(Received(ManagerPort), m.port, Error) /\ UNCHANGED waiters
  <2> DEFINE m1 == Error
  <2>1. m1.kind = "error"
    BY DEF Error
  <2>2. box' = Sent(Received(ManagerPort), m.port, m1) /\ waiters' = waiters
    BY <1>6
  <2>3. m = Head(box[ManagerPort]) /\ irqPort' \in {NoPort} \cup DriverPorts
    BY <1>1 DEF OnceInv, PortsFit
  <2> HIDE DEF m, m1
  <2> QED BY <1>1, <1>3, <2>1, <2>2, <2>3, AnsweringKeeps
<1> QED BY <1>4, <1>5, <1>6 DEF ManagerLookup

\* A driver answers an open, or reports the failure to another port.
LEMMA HandleOpenKeeps == ASSUME OnceInv, NEW d \in Driver, HandleOpen(d) PROVE OnceInv'
<1> DEFINE q == LocalPort[d]
           m == Head(box[q])
<1>1. /\ q \in Locals /\ q \in DriverPorts /\ box[q] # << >> /\ m.kind \in Asking
      /\ UNCHANGED << known, waiters, pending, client, reads, nextPort, setting >>
  BY AsyncPorts DEF HandleOpen, Handles, Arrived, Asking, managerVars, clientVars
<1>2. CASE /\ irqPort' = IF typeOf[d] = "INPUT" THEN q ELSE irqPort
           /\ box' = Sent(Received(q), m.port, [kind |-> "opened", conn |-> Len(conns[d]) + 1])
           /\ UNCHANGED failed
  <2> DEFINE m1 == [kind |-> "opened", conn |-> Len(conns[d]) + 1]
  <2>1. m1.kind = "opened" /\ m1.kind \in {"error"} \cup AnswerKinds
    BY DEF AnswerKinds
  <2>2. box' = Sent(Received(q), m.port, m1) /\ failed' = failed /\ m = Head(box[q])
    BY <1>2
  <2>3. irqPort' \in {NoPort} \cup DriverPorts
    BY <1>1, <1>2 DEF OnceInv, PortsFit
  <2> HIDE DEF m, m1, q
  <2> QED BY <1>1, <2>1, <2>2, <2>3, AnsweringKeeps
<1>3. CASE /\ box' = Sent(Received(q), m.shmem, Error)
           /\ failed' = failed \cup {[of |-> m.port, to |-> m.shmem]}
           /\ UNCHANGED irqPort
  <2> DEFINE e == m.shmem
  <2>1. /\ box' = Sent(Received(q), e, Error) /\ irqPort' = irqPort /\ m = Head(box[q])
        /\ failed' = failed \cup {[of |-> m.port, to |-> e]}
    BY <1>3
  <2> HIDE DEF e, m, q
  <2> QED BY <1>1, <2>1, RefusingKeeps
<1> QED BY <1>2, <1>3 DEF HandleOpen

\* A driver answers a request, queues it, or drops it.
LEMMA HandleRequestKeeps == ASSUME OnceInv, NEW d \in Driver, HandleRequest(d) PROVE OnceInv'
<1> DEFINE q == LocalPort[d]
           m == Head(box[q])
           r == [op |-> m.op, port |-> m.port, p |-> m.p, shmem |-> conns[d][m.conn]]
<1>1. /\ q \in Locals /\ q \in DOMAIN box /\ box[q] # << >> /\ m.kind \in Asking
      /\ UNCHANGED << known, waiters, irqPort, client, reads, nextPort, setting >>
  BY AsyncPorts DEF HandleRequest, Handles, Arrived, Asking, managerVars, clientVars
<1>2. Token(nextPort, client, m.port)
  <2>1. \A rest : rest = Received(q) => Sensible(nextPort, client, q, m)
    BY <1>1, TakeMessage
  <2> HIDE DEF q, m
  <2> QED BY <1>1, <2>1 DEF Sensible
<1>3. CASE box' = Sent(Received(q), r.port, Answer(r).msg) /\ UNCHANGED << pending, failed >>
  <2> DEFINE m1 == Answer(r).msg
  <2>1. m1.kind = "done" /\ m1.kind \in {"error"} \cup AnswerKinds
    BY DEF AnswerKinds, Answer
  <2>2. box' = Sent(Received(q), m.port, m1) /\ failed' = failed /\ pending' = pending
        /\ m = Head(box[q])
    BY <1>3
  <2>3. irqPort' \in {NoPort} \cup DriverPorts
    BY <1>1 DEF OnceInv, PortsFit
  <2> HIDE DEF m, m1, q
  <2> QED BY <1>1, <2>1, <2>2, <2>3, AnsweringKeeps
<1>4. CASE /\ pending' = [pending EXCEPT ![d] = Append(@, r)] /\ box' = Received(q)
           /\ UNCHANGED failed
  <2>0. r.port = m.port
    OBVIOUS
  <2>1. RequestsGain(pending', pending, r)
    <3>1. d \in DOMAIN pending /\ Requests(pending)
      BY DEF OnceInv, ListsFit
    <3>2. pending' = [pending EXCEPT ![d] = Append(pending[d], r)]
      BY <1>4
    <3> HIDE DEF r
    <3> QED BY <3>1, <3>2, RequestAdd
  <2> HIDE DEF r
  <2>2. ListsFit'
    <3>1. Requests(pending') /\ DOMAIN pending' = Driver
      BY <2>1 DEF RequestsGain, OnceInv, ListsFit
    <3>2. \A k \in Driver : \A x \in ToSet(pending'[k]) : Token(nextPort, client, x.port)
      BY <1>2, <2>0, <2>1 DEF RequestsGain, OnceInv, ListsFit
    <3> QED BY <1>1, <3>1, <3>2 DEF OnceInv, ListsFit
  <2>3. ASSUME NEW p
        PROVE  Cardinality(WaitsIn(waiters', p)) + Cardinality(RequestsIn(pending', p))
                 = Cardinality(WaitsIn(waiters, p)) + Cardinality(RequestsIn(pending, p))
                     + IF m.port = p THEN 1 ELSE 0
    <3>1. /\ Cardinality(RequestsIn(pending, p)) \in Nat
          /\ Cardinality(RequestsIn(pending', p))
               = Cardinality(RequestsIn(pending, p)) + IF m.port = p THEN 1 ELSE 0
      BY <2>0, <2>1 DEF RequestsGain
    <3>2. Cardinality(WaitsIn(waiters, p)) \in Nat
      <4>1. IsFiniteSet(WaitsIn(waiters, p))
        BY DEF OnceInv, ListsFit, Waits
      <4> QED BY <4>1, FS_CardinalityType
    <3>3. waiters' = waiters
      BY <1>1
    <3> QED BY <3>1, <3>2, <3>3
  <2>4. m = Head(box[q]) /\ box' = Received(q) /\ failed' = failed
    BY <1>4
  <2> HIDE DEF m, q
  <2> QED BY <1>1, <2>2, <2>3, <2>4, QueueingKeeps
<1>5. ASSUME NEW e, box' = Sent(Received(q), e, Error),
             failed' = failed \cup {[of |-> m.port, to |-> e]}, UNCHANGED pending
      PROVE  OnceInv'
  <2>1. m = Head(box[q])
    OBVIOUS
  <2> HIDE DEF m, q
  <2> QED BY <1>1, <1>5, <2>1, RefusingKeeps
<1> QED BY <1>3, <1>4, <1>5 DEF HandleRequest

\* Answers for those who were on a list.
LEMMA FlushingKeeps ==
    ASSUME OnceInv, NEW b, Ports(b), DOMAIN b = DOMAIN box,
           \A k \in DOMAIN box : ToSet(b[k]) \subseteq ToSet(box[k]),
           \A p \in DOMAIN box \ {ManagerPort} : OnPorts(b, p) = OnPorts(box, p),
           NEW envelopes, NEW n, AllSent(box', b, envelopes, n),
           \A i \in 1 .. n : Sensible(nextPort, client, envelopes[i].to, envelopes[i].msg),
           ListsFit',
           \A p : Cardinality(WaitsIn(waiters, p)) + Cardinality(RequestsIn(pending, p))
                    = Cardinality(WaitsIn(waiters', p)) + Cardinality(RequestsIn(pending', p))
                        + Sendings(envelopes, n, p),
           UNCHANGED << irqPort, client, reads, nextPort, failed, setting >>
    PROVE  OnceInv'
<1>1. Ports(box') /\ DOMAIN box' = DOMAIN box
  BY DEF AllSent
<1>2. Serving
  BY <1>1 DEF Serving, OnceInv, ClientsFit
<1>3. MailFits'
  <2>1. ASSUME NEW k \in DOMAIN box, NEW m \in ToSet(box'[k])
        PROVE  m \in ToSet(box[k]) \/ Sensible(nextPort, client, k, m)
    <3>1. m \in ToSet(b[k]) \/ \E i \in 1 .. n : envelopes[i].to = k /\ m = envelopes[i].msg
      BY <2>1 DEF AllSent
    <3> QED BY <3>1
  <2> QED BY <1>2, <2>1, ServingMail
<1>4. PortsFit'
  <2>1. irqPort' \in {NoPort} \cup DriverPorts
    BY DEF OnceInv, PortsFit
  <2> QED BY <1>1, <1>2, <2>1, ServingPorts
<1>5. CountsKept
  <2> SUFFICES ASSUME NEW p \in DOMAIN box \ {ManagerPort}
               PROVE  CountsIn(box', waiters', pending', p) = CountsIn(box, waiters, pending, p)
    BY DEF CountsKept, CountsIn
  <2> DEFINE k == Sendings(envelopes, n, p)
             w == Cardinality(WaitsIn(waiters, p))
             w1 == Cardinality(WaitsIn(waiters', p))
             r == Cardinality(RequestsIn(pending, p))
             r1 == Cardinality(RequestsIn(pending', p))
  <2>1. /\ OnPorts(box', p) = OnPorts(box, p) + k /\ OnPorts(box, p) \in Nat /\ k \in Nat
        /\ OnPorts(box', p) \in Nat
    BY DEF AllSent
  <2>2. w \in Nat /\ r \in Nat /\ w1 \in Nat /\ r1 \in Nat
    <3>1. Ports(box) /\ Waits(waiters) /\ Requests(pending)
          /\ Ports(box') /\ Waits(waiters') /\ Requests(pending')
      BY <1>1 DEF OnceInv, PortsFit, ListsFit
    <3> QED BY <1>1, <3>1, CountsTyped
  <2>3. w + r = w1 + r1 + k
    OBVIOUS
  <2>4. /\ CountsIn(box, waiters, pending, p) = OnPorts(box, p) + w + r
        /\ CountsIn(box', waiters', pending', p) = OnPorts(box', p) + w1 + r1
    BY DEF CountsIn
  <2> HIDE DEF k, w, w1, r, r1
  <2> QED BY <2>1, <2>2, <2>3, <2>4
<1> QED BY <1>2, <1>3, <1>4, <1>5, CountedKept DEF OnceInv

\* The manager tells the waiters of a new device.
LEMMA ManagerAnnounceKeeps ==
    ASSUME OnceInv, ManagerAnnounce
    PROVE  /\ OnceInv' /\ MailStep(None, None, None)
           /\ \A y \in Type : /\ ToSet(waiters'[y]) \subseteq ToSet(waiters[y])
                             /\ \A x \in ToSet(known'[y]) :
                                  x \in ToSet(known[y]) \/ Announced(y, x.port)
<1> DEFINE m == Head(box[ManagerPort])
           device == [port |-> m.port, id |-> m.id]
           list == waiters[m.type]
           b == Received(ManagerPort)
           msg(g) == [kind |-> "found", port |-> m.port, id |-> g]
<1>1. /\ ManagerPort \in DOMAIN box /\ box[ManagerPort] # << >> /\ m.kind = "announce"
      /\ known' = [known EXCEPT ![m.type] = << device >> \o known[m.type]]
      /\ waiters' = [waiters EXCEPT ![m.type] = << >>]
      /\ UNCHANGED << pending, irqPort, client, reads, nextPort, failed, setting >>
  BY DEF ManagerAnnounce, Arrived, driverVars, keyVars, clientVars
<1>2. PICK g : box' = SentAll(b, [i \in DOMAIN list |-> [to |-> list[i], msg |-> msg(g)]])
  BY DEF ManagerAnnounce
<1> DEFINE envelopes == [i \in DOMAIN list |-> [to |-> list[i], msg |-> msg(g)]]
<1>3. msg(g).kind = "found" /\ msg(g).port = m.port /\ device.port = m.port
  OBVIOUS
<1> HIDE DEF device, msg
<1>4. MessageTaken(b, box, ManagerPort, m) /\ Sensible(nextPort, client, ManagerPort, m)
  <2>1. b = Received(ManagerPort)
    OBVIOUS
  <2> HIDE DEF b
  <2> QED BY <1>1, <2>1, TakeMessage
<1>5. m.type \in Type /\ m.port \in DriverPorts
  BY <1>1, <1>4 DEF Sensible
<1>6. PICK T : waiters \in [Type -> Seq(T)]
  BY DEF OnceInv, ListsFit, Waits, IsFamily
<1>7. list \in Seq(T)
  BY <1>5, <1>6
<1> HIDE DEF m, b
<1>8. /\ Len(list) \in Nat /\ envelopes \in Seq({envelopes[i] : i \in 1 .. Len(list)})
      /\ Len(envelopes) = Len(list)
      /\ \A i \in 1 .. Len(list) : envelopes[i].to = list[i] /\ envelopes[i].msg = msg(g)
  <2> HIDE DEF list
  <2>1. Len(list) \in Nat /\ DOMAIN list = 1 .. Len(list)
    BY <1>7
  <2>2. \A i \in 1 .. Len(list) : envelopes[i].to = list[i] /\ envelopes[i].msg = msg(g)
    BY <2>1
  <2>3. DOMAIN envelopes = 1 .. Len(list) /\ envelopes = [i \in 1 .. Len(list) |-> envelopes[i]]
    BY <2>1
  <2> HIDE DEF envelopes
  <2> QED BY <2>1, <2>2, <2>3
<1>9. ToSet(list) = {list[i] : i \in 1 .. Len(list)}
  <2> HIDE DEF list
  <2> QED BY <1>7 DEF ToSet
<1>10. \A i \in 1 .. Len(list) : Token(nextPort, client, list[i])
  BY <1>5, <1>9 DEF OnceInv, ListsFit
<1>11. WaitsLose(waiters', waiters, list)
  <2>1. m.type \in DOMAIN waiters /\ Waits(waiters)
    BY <1>5 DEF OnceInv, ListsFit
  <2> QED BY <1>1, <2>1, WaitsEnd
<1> HIDE DEF list, envelopes
<1>12. AllSent(box', b, envelopes, Len(list))
  <2>1. Ports(b)
    BY <1>4 DEF MessageTaken
  <2>2. \A i \in 1 .. Len(envelopes) : envelopes[i].msg.kind \in AnswerKinds
    BY <1>3, <1>8 DEF AnswerKinds
  <2>3. box' = SentAll(b, envelopes)
    BY <1>2 DEF envelopes
  <2>4. AllSent(box', b, envelopes, Len(envelopes))
    BY <1>8, <2>1, <2>2, <2>3, PortSendAll
  <2> QED BY <1>8, <2>4
<1>13. \A i \in 1 .. Len(list) : Sensible(nextPort, client, envelopes[i].to, envelopes[i].msg)
  BY <1>3, <1>5, <1>8, <1>10 DEF Sensible, Asking, AnswerKinds
<1>14. /\ DOMAIN b = DOMAIN box
       /\ \A k \in DOMAIN box : ToSet(b[k]) \subseteq ToSet(box[k])
       /\ \A p \in DOMAIN box \ {ManagerPort} : OnPorts(b, p) = OnPorts(box, p)
  <2>1. ASSUME NEW p \in DOMAIN box \ {ManagerPort} PROVE OnPorts(b, p) = OnPorts(box, p)
    <3>1. IsCall(m, p) = 0 /\ IsAnswer(ManagerPort, m, p) = 0
      BY <1>1 DEF IsCall, IsAnswer, Asking
    <3>2. /\ OnPorts(b, p) \in Nat
          /\ OnPorts(box, p) = OnPorts(b, p) + IsCall(m, p) + IsAnswer(ManagerPort, m, p)
      BY <1>4 DEF MessageTaken
    <3> QED BY <3>1, <3>2
  <2> QED BY <1>4, <2>1 DEF MessageTaken
<1>15. /\ ListsFit' /\ \A y \in Type : ToSet(waiters'[y]) \subseteq ToSet(waiters[y])
       /\ \A y \in Type : \A x \in ToSet(known'[y]) :
            x \in ToSet(known[y]) \/ (y = m.type /\ x.port = m.port)
  <2>1. /\ IsFamily(known') /\ DOMAIN known' = Type
        /\ \A y \in Type : \A x \in ToSet(known'[y]) :
             /\ x.port \in DriverPorts
             /\ x \in ToSet(known[y]) \/ (y = m.type /\ x.port = m.port)
    <3>1. IsFamily(known) /\ m.type \in DOMAIN known
      BY <1>5 DEF OnceInv, ListsFit
    <3>2. /\ IsFamily(known')
          /\ \E U : \E s \in Seq(U) : OneLonger(s, known[m.type], device)
                                       /\ Replaces(known', known, m.type, s)
      BY <1>1, <3>1, FamilyPush
    <3>3. PICK U : \E s \in Seq(U) : OneLonger(s, known[m.type], device)
                                       /\ Replaces(known', known, m.type, s)
      BY <3>2, Zenon
    <3>4. PICK s \in Seq(U) : OneLonger(s, known[m.type], device)
                                /\ Replaces(known', known, m.type, s)
      BY <3>3, Zenon
    <3>5. DOMAIN known' = Type
          /\ \A y \in Type : known'[y] = IF y = m.type THEN s ELSE known[y]
      BY <3>4 DEF Replaces, OnceInv, ListsFit
    <3>6. ToSet(s) = ToSet(known[m.type]) \cup {device}
      BY <3>4 DEF OneLonger
    <3>7. \A y \in Type : \A x \in ToSet(known[y]) : x.port \in DriverPorts
      BY DEF OnceInv, ListsFit
    <3> QED BY <1>3, <1>5, <3>2, <3>5, <3>6, <3>7
  <2>2. /\ Waits(waiters') /\ DOMAIN waiters' = Type
        /\ \A y \in Type : \A p \in ToSet(waiters'[y]) : Token(nextPort, client, p)
        /\ \A y \in Type : ToSet(waiters'[y]) \subseteq ToSet(waiters[y])
    BY <1>11 DEF WaitsLose, OnceInv, ListsFit
  <2> QED BY <1>1, <2>1, <2>2 DEF OnceInv, ListsFit
<1>16. ASSUME NEW p
       PROVE  Cardinality(WaitsIn(waiters, p)) + Cardinality(RequestsIn(pending, p))
                = Cardinality(WaitsIn(waiters', p)) + Cardinality(RequestsIn(pending', p))
                    + Sendings(envelopes, Len(list), p)
  <2>1. Sendings(envelopes, Len(list), p) = Cardinality({i \in 1 .. Len(list) : list[i] = p})
    <3>1. {i \in 1 .. Len(list) : envelopes[i].to = p} = {i \in 1 .. Len(list) : list[i] = p}
      BY <1>8
    <3> QED BY <3>1 DEF Sendings
  <2>2. /\ Cardinality(WaitsIn(waiters', p)) \in Nat
        /\ Sendings(envelopes, Len(list), p) \in Nat
        /\ Cardinality(WaitsIn(waiters, p))
             = Cardinality(WaitsIn(waiters', p)) + Sendings(envelopes, Len(list), p)
    BY <1>11, <2>1 DEF WaitsLose
  <2>3. Cardinality(RequestsIn(pending, p)) \in Nat
    <3>1. IsFiniteSet(RequestsIn(pending, p))
      BY DEF OnceInv, ListsFit, Requests
    <3> QED BY <3>1, FS_CardinalityType
  <2>4. pending' = pending
    BY <1>1
  <2> QED BY <2>2, <2>3, <2>4
<1>17. Ports(b)
  BY <1>4 DEF MessageTaken
<1> DEFINE n == Len(list)
<1>18. /\ AllSent(box', b, envelopes, n)
       /\ \A i \in 1 .. n : Sensible(nextPort, client, envelopes[i].to, envelopes[i].msg)
       /\ \A p : Cardinality(WaitsIn(waiters, p)) + Cardinality(RequestsIn(pending, p))
                   = Cardinality(WaitsIn(waiters', p)) + Cardinality(RequestsIn(pending', p))
                       + Sendings(envelopes, n, p)
  BY <1>12, <1>13, <1>16
<1>19. m \in ToSet(box[ManagerPort]) /\ m.kind = "announce" /\ Removes(b, box, ManagerPort, m)
  BY <1>1, <1>4 DEF MessageTaken
<1>20. \A i \in 1 .. n : Posted(None, None, envelopes[i].to, envelopes[i].msg)
  <2> SUFFICES ASSUME NEW i \in 1 .. n
               PROVE  Posted(None, None, envelopes[i].to, envelopes[i].msg)
    OBVIOUS
  <2>1. /\ envelopes[i].msg.kind = "found" /\ envelopes[i].msg.port = m.port
        /\ envelopes[i].to \in ToSet(waiters[m.type])
    BY <1>3, <1>8, <1>9 DEF list
  <2> QED BY <1>5, <1>19, <2>1 DEF Posted, Told, Announced
<1>21. Announced(m.type, m.port)
  BY <1>19 DEF Announced
<1> HIDE DEF n
<1>22. OnceInv'
  BY <1>1, <1>14, <1>15, <1>17, <1>18, FlushingKeeps
<1>23. MailStep(None, None, None)
  <2>1. m.kind # "done"
    BY <1>1
  <2> QED BY <1>14, <1>18, <1>19, <1>20, <2>1, FlushMail
<1> QED BY <1>15, <1>21, <1>22, <1>23

\* The current request ends at least, and no more than there are.
LEMMA EndTogetherBounds ==
    ASSUME NEW d, NEW T, pending[d] \in Seq(T), pending[d] # << >>
    PROVE  EndTogether(d) \in 1 .. Len(pending[d])
<1> DEFINE stay == {i \in DOMAIN pending[d] : i > 1 /\ ~AtOnce(d, pending[d][i])}
<1>1. Len(pending[d]) \in Nat /\ Len(pending[d]) >= 1 /\ DOMAIN pending[d] = 1 .. Len(pending[d])
  OBVIOUS
<1>2. CASE stay = {}
  BY <1>1, <1>2 DEF EndTogether
<1>3. CASE stay # {}
  <2>1. stay \in SUBSET Nat /\ \A i \in stay : i \in 2 .. Len(pending[d])
    BY <1>1
  <2>2. \E i \in stay : \A k \in stay : i <= k
    <3> HIDE DEF stay
    <3> QED BY <1>3, <2>1, LeastNatural
  <2>3. Min(stay) \in stay
    <3> HIDE DEF stay
    <3> QED BY <2>2 DEF Min
  <2>4. EndTogether(d) = Min(stay) - 1
    BY <1>3 DEF EndTogether
  <2> HIDE DEF stay
  <2>5. Min(stay) \in 2 .. Len(pending[d])
    BY <2>1, <2>3
  <2> QED BY <1>1, <2>4, <2>5
<1> QED BY <1>2, <1>3

\* Input for a terminal ends its reads.
LEMMA InputAvailableKeeps ==
    ASSUME OnceInv, NEW d \in Driver, InputAvailable(d)
    PROVE  /\ OnceInv' /\ MailStep(Only(d), None, None)
           /\ \A e \in Driver : ToSet(pending'[e]) \subseteq ToSet(pending[e])
<1> DEFINE list == pending[d]
           n == EndTogether(d)
           envelopes == [i \in 1 .. n |-> Answer(list[i])]
<1>1. /\ list # << >> /\ box' = SentAll(box, envelopes)
      /\ pending' = [pending EXCEPT ![d] = SubSeq(list, n + 1, Len(list))]
      /\ UNCHANGED << known, waiters, irqPort, client, reads, nextPort, failed, setting >>
  BY DEF InputAvailable, managerVars, keyVars, clientVars
<1>2. PICK T : pending \in [Driver -> Seq(T)]
  BY DEF OnceInv, ListsFit, Requests, IsFamily
<1>3. list \in Seq(T)
  BY <1>2
<1>4. n \in 1 .. Len(list) /\ Len(list) \in Nat /\ n \in Nat
  <2>1. n \in 1 .. Len(list)
    BY <1>1, <1>3, EndTogetherBounds
  <2>2. Len(list) \in Nat
    BY <1>3
  <2> HIDE DEF n, list
  <2> QED BY <2>1, <2>2
<1> HIDE DEF n
<1>5. /\ envelopes \in Seq({envelopes[i] : i \in 1 .. n}) /\ Len(envelopes) = n
      /\ \A i \in 1 .. n : envelopes[i] = Answer(list[i])
  <2> HIDE DEF list
  <2>1. DOMAIN envelopes = 1 .. n /\ envelopes = [i \in 1 .. n |-> envelopes[i]]
        /\ \A i \in 1 .. n : envelopes[i] = Answer(list[i])
    OBVIOUS
  <2> HIDE DEF envelopes
  <2> QED BY <1>4, <2>1
<1> HIDE DEF envelopes
<1>6. ASSUME NEW i \in 1 .. n
      PROVE  envelopes[i].to = list[i].port /\ envelopes[i].msg.kind = "done"
  <2>1. Answer(list[i]).to = list[i].port /\ Answer(list[i]).msg.kind = "done"
    BY DEF Answer
  <2> QED BY <1>5, <2>1
<1>7. \A i \in 1 .. n : Token(nextPort, client, list[i].port) /\ list[i] \in ToSet(list)
  <2>1. \A i \in 1 .. n : list[i] \in ToSet(list)
    <3>1. \A i \in 1 .. n : i \in DOMAIN list
      BY <1>3, <1>4
    <3> QED BY <3>1 DEF ToSet
  <2> QED BY <2>1 DEF OnceInv, ListsFit
<1>8. RequestsLose(pending', pending, list, n)
  <2>1. d \in DOMAIN pending /\ Requests(pending)
    BY DEF OnceInv, ListsFit
  <2>2. n \in 0 .. Len(pending[d])
    BY <1>4
  <2> QED BY <1>1, <2>1, <2>2, RequestsEnd
<1>14. ASSUME NEW i \in 1 .. n PROVE Posted(Only(d), None, envelopes[i].to, envelopes[i].msg)
  BY <1>6, <1>7 DEF Posted, Owes, Only
<1> HIDE DEF list
<1>9. AllSent(box', box, envelopes, n)
  <2>1. \A i \in 1 .. Len(envelopes) : envelopes[i].msg.kind \in AnswerKinds
    BY <1>5, <1>6 DEF AnswerKinds
  <2>2. Ports(box)
    BY DEF OnceInv, PortsFit
  <2>3. AllSent(box', box, envelopes, Len(envelopes))
    BY <1>1, <1>5, <2>1, <2>2, PortSendAll
  <2> QED BY <1>5, <2>3
<1>10. \A i \in 1 .. n : Sensible(nextPort, client, envelopes[i].to, envelopes[i].msg)
  BY <1>6, <1>7 DEF Sensible, Asking, AnswerKinds
<1>11. ListsFit'
  <2>1. Requests(pending') /\ DOMAIN pending' = Driver
        /\ \A k \in Driver : \A r \in ToSet(pending'[k]) : Token(nextPort, client, r.port)
    BY <1>8 DEF RequestsLose, OnceInv, ListsFit
  <2> QED BY <1>1, <2>1 DEF OnceInv, ListsFit
<1>12. ASSUME NEW p
       PROVE  Cardinality(WaitsIn(waiters, p)) + Cardinality(RequestsIn(pending, p))
                = Cardinality(WaitsIn(waiters', p)) + Cardinality(RequestsIn(pending', p))
                    + Sendings(envelopes, n, p)
  <2>1. Sendings(envelopes, n, p) = Cardinality({i \in 1 .. n : list[i].port = p})
    <3>1. {i \in 1 .. n : envelopes[i].to = p} = {i \in 1 .. n : list[i].port = p}
      BY <1>6
    <3> QED BY <3>1 DEF Sendings
  <2>2. /\ Cardinality(RequestsIn(pending', p)) \in Nat
        /\ Sendings(envelopes, n, p) \in Nat
        /\ Cardinality(RequestsIn(pending, p))
             = Cardinality(RequestsIn(pending', p)) + Sendings(envelopes, n, p)
    BY <1>8, <2>1 DEF RequestsLose
  <2>3. Cardinality(WaitsIn(waiters, p)) \in Nat
    <3>1. IsFiniteSet(WaitsIn(waiters, p))
      BY DEF OnceInv, ListsFit, Waits
    <3> QED BY <3>1, FS_CardinalityType
  <2>4. waiters' = waiters
    BY <1>1
  <2> QED BY <2>2, <2>3, <2>4
<1>13. /\ Ports(box)
       /\ \A k \in DOMAIN box : ToSet(box[k]) \subseteq ToSet(box[k])
       /\ \A p \in DOMAIN box \ {ManagerPort} : OnPorts(box, p) = OnPorts(box, p)
  BY DEF OnceInv, PortsFit
<1>15. MailStep(Only(d), None, None)
  <2>1. Removes(box, box, ManagerPort, Error) /\ Error.kind # "done"
    BY DEF Removes, Error
  <2> HIDE DEF envelopes
  <2> QED BY <1>9, <1>13, <1>14, <2>1, FlushMail
<1>16. \A e \in Driver : ToSet(pending'[e]) \subseteq ToSet(pending[e])
  BY <1>8 DEF RequestsLose, OnceInv, ListsFit
<1> QED BY <1>1, <1>9, <1>10, <1>11, <1>12, <1>13, <1>15, <1>16, FlushingKeeps

\* A key from the controller ends the read that waits.
LEMMA HandleInterruptKeeps == ASSUME OnceInv, NEW d \in Driver, HandleInterrupt(d) PROVE OnceInv'
<1> DEFINE q == LocalPort[d]
           m == Head(box[q])
           list == pending[d]
           n == 1
           b == Received(q)
           envelopes == [i \in 1 .. n |-> Answer(list[i])]
<1>1. /\ q \in Locals /\ q \in DOMAIN box /\ box[q] # << >> /\ m.kind = "irq"
      /\ UNCHANGED << known, waiters, irqPort, client, reads, nextPort, failed, setting >>
  BY AsyncPorts DEF HandleInterrupt, Handles, Arrived, managerVars, clientVars
<1>2. CASE list = << >>
  <2>1. pending' = pending /\ box' = Received(q)
    BY <1>2 DEF HandleInterrupt
  <2>2. m = Head(box[q])
    OBVIOUS
  <2> HIDE DEF m, q
  <2> QED BY <1>1, <2>1, <2>2, IgnoreKeeps
<1>3. CASE list # << >>
  <2>1. /\ box' = Sent(b, Head(list).port, Answer(Head(list)).msg)
        /\ pending' = [pending EXCEPT ![d] = Tail(list)]
    BY <1>3 DEF HandleInterrupt
  <2>2. PICK T : pending \in [Driver -> Seq(T)]
    BY DEF OnceInv, ListsFit, Requests, IsFamily
  <2>3. list \in Seq(T)
    BY <2>2
  <2> DEFINE r == Head(list)
             m1 == Answer(r).msg
  <2>4. /\ n \in 0 .. Len(list) /\ r = list[1] /\ Tail(list) = SubSeq(list, n + 1, Len(list))
        /\ r \in ToSet(list)
    <3> HIDE DEF list
    <3>1. Len(list) \in Nat /\ Len(list) >= 1 /\ r = list[1]
      BY <1>3, <2>3
    <3>2. Tail(list) = SubSeq(list, 2, Len(list))
      BY <1>3, <2>3, TailIsSubSeq
    <3>3. r \in ToSet(list)
      BY <1>3, <2>3, PopElements
    <3> QED BY <3>1, <3>2, <3>3
  <2>5. RequestsLose(pending', pending, list, n)
    <3>1. d \in DOMAIN pending /\ Requests(pending) /\ n \in 0 .. Len(pending[d])
      BY <2>4 DEF OnceInv, ListsFit
    <3>2. pending' = [pending EXCEPT ![d] = SubSeq(pending[d], n + 1, Len(pending[d]))]
      BY <2>1, <2>4
    <3> HIDE DEF n
    <3> QED BY <3>1, <3>2, RequestsEnd
  <2>6. Token(nextPort, client, r.port)
    BY <2>4 DEF OnceInv, ListsFit
  <2>7. m1.kind = "done"
    BY DEF Answer
  <2>8. Sensible(nextPort, client, r.port, m1)
    BY <2>6, <2>7 DEF Sensible, Asking, AnswerKinds
  <2>9. Exchanged(q, m, r.port, m1)
    <3> DEFINE z == r.port
    <3>1. box' = Sent(Received(q), z, m1) /\ m = Head(box[q])
      BY <2>1
    <3> HIDE DEF m, q, m1, r, z
    <3>2. Exchanged(q, m, z, m1)
      BY <1>1, <3>1, Exchange
    <3> QED BY <3>2 DEF z
  <2>10. \A p : Cardinality({i \in 1 .. n : list[i].port = p}) = IF r.port = p THEN 1 ELSE 0
    <3> SUFFICES ASSUME NEW p
                 PROVE  Cardinality({i \in 1 .. n : list[i].port = p}) = IF r.port = p THEN 1 ELSE 0
      OBVIOUS
    <3>1. r = list[1]
      BY <2>4
    <3> HIDE DEF list, r
    <3>2. {i \in 1 .. 1 : list[i].port = p} = IF r.port = p THEN {1} ELSE {}
      BY <3>1
    <3> QED BY <3>2, FS_Singleton, FS_EmptySet
  <2> HIDE DEF m, q, m1, r, n, b, list
  <2>11. Serving
    BY <1>1, <2>9 DEF Serving, Exchanged, OnceInv, ClientsFit
  <2>12. MailFits'
    BY <2>8, <2>9, <2>11, ServingMail DEF Exchanged
  <2>13. ListsFit'
    <3>1. Requests(pending') /\ DOMAIN pending' = Driver
          /\ \A k \in Driver : \A x \in ToSet(pending'[k]) : Token(nextPort, client, x.port)
      BY <2>5 DEF RequestsLose, OnceInv, ListsFit
    <3> QED BY <1>1, <3>1 DEF OnceInv, ListsFit
  <2>14. PortsFit'
    <3>1. Ports(box') /\ irqPort' \in {NoPort} \cup DriverPorts
      BY <1>1, <2>9 DEF Exchanged, OnceInv, PortsFit
    <3> QED BY <1>1, <2>11, <3>1, ServingPorts
  <2>15. CountsKept
    <3> SUFFICES ASSUME NEW p \in DOMAIN box \ {ManagerPort}
                 PROVE  CountsIn(box', waiters', pending', p) = CountsIn(box, waiters, pending, p)
      BY DEF CountsKept, CountsIn
    <3> DEFINE k == IF r.port = p THEN 1 ELSE 0
               w == Cardinality(WaitsIn(waiters, p))
               x == Cardinality(RequestsIn(pending, p))
               x1 == Cardinality(RequestsIn(pending', p))
    <3>1. IsCall(m, p) = 0 /\ IsAnswer(q, m, p) = 0 /\ IsCall(m1, p) = 0 /\ IsAnswer(r.port, m1, p) = k
      BY <1>1, <2>7 DEF IsCall, IsAnswer, Asking, Answers
    <3>2. /\ OnPorts(box, p) \in Nat /\ OnPorts(box', p) \in Nat
          /\ OnPorts(box', p) + IsCall(m, p) + IsAnswer(q, m, p)
               = OnPorts(box, p) + (IF r.port \in DOMAIN box THEN IsCall(m1, p) ELSE 0)
                                 + IsAnswer(r.port, m1, p)
      BY <2>9 DEF Exchanged
    <3>3. x1 \in Nat /\ x = x1 + k
      BY <2>5, <2>10 DEF RequestsLose
    <3>4. w \in Nat /\ waiters' = waiters /\ k \in Nat
      <4>1. IsFiniteSet(WaitsIn(waiters, p))
        BY DEF OnceInv, ListsFit, Waits
      <4>2. w \in Nat
        BY <4>1, FS_CardinalityType
      <4> QED BY <1>1, <4>2
    <3>5. /\ CountsIn(box, waiters, pending, p) = OnPorts(box, p) + w + x
          /\ CountsIn(box', waiters', pending', p) = OnPorts(box', p) + w + x1
      BY <3>4 DEF CountsIn
    <3> HIDE DEF k, w, x, x1
    <3>6. OnPorts(box', p) = OnPorts(box, p) + k
      BY <3>1, <3>2, <3>4
    <3> QED BY <3>2, <3>3, <3>4, <3>5, <3>6
  <2> QED BY <1>1, <2>11, <2>12, <2>13, <2>14, <2>15, CountedKept DEF OnceInv
<1> QED BY <1>2, <1>3

-----------------------------------------------------------------------------
(* Devices: the clients *)

\* Client c has another state.
Turns(c, new) ==
    /\ client' = [client EXCEPT ![c] = new]
    /\ UNCHANGED << known, waiters, pending, irqPort, reads, failed, setting >>
    /\ nextPort <= nextPort' /\ nextPort' \in Nat
    /\ client[c].pc \in {"open", "waiting"} => new.pc \in {"open", "waiting"}

\* Ports are waited on as often as before, but for that of c.
OthersKept(c) ==
    \A p \in DOMAIN box \ {ManagerPort} : (HasReply(c) => p # client[c].reply) =>
       CountsIn(box, waiters, pending, p)' = CountsIn(box, waiters, pending, p)

\* What Counted says of a client in state s.
CountedFor(s) ==
    s.pc \in Waiting \cup {"open"} /\ s.reply \notin Disturbed =>
      IF s.pc = "open"
      THEN s.reply \notin Refused /\ CountsIn(box', waiters', pending', s.reply) = 0
      ELSE CountsIn(box', waiters', pending', s.reply) = IF s.reply \in Refused THEN 0 ELSE 1

\* The step changes no other client.
LEMMA ClientTurns ==
    ASSUME OnceInv, NEW c \in Client, NEW new, Turns(c, new)
    PROVE  /\ DOMAIN client' = Client /\ client'[c] = new
           /\ \A e \in Client : e # c => client'[e] = client[e]
           /\ \A e \in AsyncClient :
                client[e].pc \in {"open", "waiting"} => client'[e].pc \in {"open", "waiting"}
<1>1. AsyncClient \subseteq Client /\ DOMAIN client = Client
  BY DEF Client, OnceInv, ClientsFit
<1>2. client' = [client EXCEPT ![c] = new]
  BY DEF Turns
<1>3. client'[c] = new /\ \A e \in Client : e # c => client'[e] = client[e]
  BY <1>1, <1>2
<1> QED BY <1>1, <1>2, <1>3 DEF Turns

\* It keeps the counts when it keeps those of the others and c fits.
LEMMA TurnsCounted ==
    ASSUME OnceInv, NEW c \in Client, NEW new, Turns(c, new), OthersKept(c), CountedFor(new)
    PROVE  Counted'
<1>1. /\ DOMAIN client' = Client /\ client'[c] = new
      /\ \A e \in Client : e # c => client'[e] = client[e]
  BY ClientTurns
<1>2. Refused' = Refused /\ Disturbed' = Disturbed /\ reads' = reads
  BY DEF Turns, Refused, Disturbed
<1>3. ASSUME NEW e \in Client, HasReply(e)', client'[e].reply \notin Disturbed
      PROVE  IF client'[e].pc = "open"
             THEN /\ client'[e].reply \notin Refused
                  /\ CountsIn(box', waiters', pending', client'[e].reply) = 0
             ELSE CountsIn(box', waiters', pending', client'[e].reply)
                    = IF client'[e].reply \in Refused THEN 0 ELSE 1
  <2>1. CASE e = c
    BY <1>1, <1>3, <2>1 DEF CountedFor, HasReply
  <2>2. CASE e # c
    <3>1. client'[e] = client[e] /\ HasReply(e)
      BY <1>1, <1>3, <2>2 DEF HasReply
    <3>2. client[e].reply \in DOMAIN box \ {ManagerPort}
          /\ (HasReply(c) => client[e].reply # client[c].reply)
      BY <2>2, <3>1 DEF OnceInv, ClientsFit
    <3>3. CountsIn(box', waiters', pending', client[e].reply)
            = CountsIn(box, waiters, pending, client[e].reply)
      BY <3>2 DEF OthersKept, CountsIn
    <3> QED BY <1>3, <3>1, <3>3 DEF OnceInv, Counted
  <2> QED BY <2>1, <2>2
<1>4. ASSUME NEW e \in AsyncClient, LocalPort[e] \notin Refused
      PROVE  CountsIn(box', waiters', pending', LocalPort[e]) = reads'[e].current
  <2>1. LocalPort[e] \in DOMAIN box \ {ManagerPort} /\ LocalPort[e] \in Locals
    BY AsyncPorts DEF OnceInv, PortsFit
  <2>2. HasReply(c) => LocalPort[e] # client[c].reply
    BY <2>1 DEF OnceInv, ClientsFit
  <2>3. CountsIn(box', waiters', pending', LocalPort[e])
          = CountsIn(box, waiters, pending, LocalPort[e])
    BY <2>1, <2>2 DEF OthersKept, CountsIn
  <2> QED BY <1>2, <1>4, <2>3 DEF OnceInv, Counted
<1> QED BY <1>2, <1>3, <1>4 DEF Counted

\* It keeps what messages say when new messages fit.
LEMMA TurnsMail ==
    ASSUME OnceInv, NEW c \in Client, NEW new, Turns(c, new),
           \A k \in DOMAIN box' : \A m \in ToSet(box'[k]) :
              (k \in DOMAIN box /\ m \in ToSet(box[k])) \/ Sensible(nextPort', client', k, m)
    PROVE  MailFits'
<1> SUFFICES ASSUME NEW k \in DOMAIN box', NEW m \in ToSet(box'[k])
             PROVE  Sensible(nextPort', client', k, m)
  BY DEF MailFits
<1>1. CASE k \in DOMAIN box /\ m \in ToSet(box[k])
  <2>1. Sensible(nextPort, client, k, m)
    BY <1>1 DEF OnceInv, MailFits
  <2>2. nextPort \in Nat /\ nextPort' \in Nat /\ nextPort <= nextPort'
    BY DEF OnceInv, PortsFit, Turns
  <2>3. \A e \in AsyncClient :
          client[e].pc \in {"open", "waiting"} => client'[e].pc \in {"open", "waiting"}
    BY ClientTurns
  <2> QED BY <2>1, <2>2, <2>3, SensibleKept
<1> QED BY <1>1

\* It keeps the lists, which it leaves alone.
LEMMA TurnsLists ==
    ASSUME OnceInv, NEW c \in Client, NEW new, Turns(c, new)
    PROVE  ListsFit'
<1>1. \A e \in AsyncClient :
        client[e].pc \in {"open", "waiting"} => client'[e].pc \in {"open", "waiting"}
  BY ClientTurns
<1>2. nextPort \in Nat /\ nextPort' \in Nat /\ nextPort <= nextPort'
  BY DEF OnceInv, PortsFit, Turns
<1>3. \A p : Token(nextPort, client, p) => Token(nextPort', client', p)
  BY <1>1, <1>2, TokenKept
<1> QED BY <1>3 DEF OnceInv, ListsFit, Turns

\* The state a client takes is one it may be in.
TurnsClients(c, new) ==
    /\ new.pc \in {"idle", "found", "open"} \cup Waiting
    /\ new.pc \in {"found", "opening", "open", "waiting"} => new.port \in DriverPorts
    /\ new.pc \in Waiting \cup {"open"} =>
         /\ new.reply \in DOMAIN box' \ ({ManagerPort} \cup Locals)
         /\ \A e \in Client \ {c} : HasReply(e) => client[e].reply # new.reply
    /\ \A e \in Client \ {c} : HasReply(e) => client[e].reply \in DOMAIN box'

\* It keeps the ports of the clients apart.
LEMMA TurnsFit ==
    ASSUME OnceInv, NEW c \in Client, NEW new, Turns(c, new), TurnsClients(c, new)
    PROVE  ClientsFit'
<1>1. /\ DOMAIN client' = Client /\ client'[c] = new
      /\ \A e \in Client : e # c => client'[e] = client[e]
  BY ClientTurns
<1>2. wants' = wants /\ typeOf' = typeOf /\ reads' = reads
  BY DEF Turns, setting
<1>3. \A e \in Client : HasReply(e)' <=> IF e = c THEN new.pc \in Waiting \cup {"open"}
                                                  ELSE HasReply(e)
  BY <1>1 DEF HasReply
<1>4. ASSUME NEW e \in Client
      PROVE  /\ client'[e].pc \in {"idle", "found", "open"} \cup Waiting
             /\ client'[e].pc \in {"found", "opening", "open", "waiting"} =>
                  client'[e].port \in DriverPorts
             /\ HasReply(e)' => client'[e].reply \in DOMAIN box' \ ({ManagerPort} \cup Locals)
  <2>1. CASE e = c
    BY <1>1, <1>3, <2>1 DEF TurnsClients
  <2>2. CASE e # c
    BY <1>1, <1>3, <2>2 DEF TurnsClients, OnceInv, ClientsFit
  <2> QED BY <2>1, <2>2
<1>5. ASSUME NEW e \in Client, NEW f \in Client, e # f, HasReply(e)', HasReply(f)'
      PROVE  client'[e].reply # client'[f].reply
  <2>1. CASE e = c
    BY <1>1, <1>3, <1>5, <2>1 DEF TurnsClients
  <2>2. CASE f = c
    BY <1>1, <1>3, <1>5, <2>2 DEF TurnsClients
  <2>3. CASE e # c /\ f # c
    BY <1>1, <1>3, <1>5, <2>3 DEF OnceInv, ClientsFit
  <2> QED BY <2>1, <2>2, <2>3
<1>6. wants \in [Client -> Type] /\ typeOf \in [Driver -> Type]
      /\ reads \in [AsyncClient -> [current : {0, 1}, queued : Nat]]
  BY DEF OnceInv, ClientsFit
<1> QED BY <1>1, <1>2, <1>4, <1>5, <1>6 DEF ClientsFit

\* A client asks on a port of its own, which is new.
LEMMA AskingKeeps ==
    ASSUME OnceInv, NEW c \in Client, client[c].pc \in {"idle", "found"},
           NEW q \in {ManagerPort} \cup Locals, NEW m,
           m.kind \in {"lookup", "open"}, m.port = nextPort, m.kind = "lookup" => m.type \in Type,
           NEW new, new.pc \in {"lookup", "opening"}, new.reply = nextPort,
           new.pc = "opening" => new.port \in DriverPorts,
           Turns(c, new), Asked(q, m)
    PROVE  OnceInv'
<1> DEFINE n == nextPort
           b == [k \in DOMAIN box \cup {n} |-> IF k = n THEN << >> ELSE box[k]]
<1>0. /\ n \in Nat /\ n > 0 /\ Ports(box) /\ DOMAIN box \subseteq 0 .. n - 1
      /\ {ManagerPort} \cup Locals \subseteq DOMAIN box
      /\ \A f \in failed : f.of \in 1 .. n - 1
  BY DEF OnceInv, PortsFit
<1>1. n \notin DOMAIN box /\ nextPort' = n + 1 /\ box' = Sent(b, q, m)
  BY <1>0 DEF Asked
<1>2. NobodyAsks(box, n)
  <2>1. \A p : Token(n, client, p) => p # n
    BY <1>0 DEF Token
  <2> QED BY <2>1 DEF NobodyAsks, OnceInv, MailFits, Sensible
<1>3. /\ Ports(b) /\ DOMAIN b = DOMAIN box \cup {n}
      /\ ToSet(b[n]) = {} /\ \A k \in DOMAIN box : b[k] = box[k]
      /\ \A k \in DOMAIN box : OnPorts(b, k) = OnPorts(box, k)
      /\ OnPorts(b, n) = 0
  <2>1. Created(b, box, n)
    BY DEF Created
  <2> HIDE DEF b, n
  <2>2. Ports(box) /\ n \notin DOMAIN box
    BY <1>0, <1>1
  <2>3. Widened(b, box, n)
    BY <2>1, <2>2, PortAdd
  <2> QED BY <1>2, <2>3 DEF Widened
<1> HIDE DEF b
<1>4. MessageSent(box', b, q, m)
  BY <1>1, <1>3, PortSend
<1>5. UNCHANGED << known, waiters, pending, irqPort, reads, failed, setting >>
  BY DEF Turns
<1> HIDE DEF n
<1>6. /\ Ports(box') /\ DOMAIN box' = DOMAIN box \cup {n}
      /\ \A k \in DOMAIN box' : ToSet(box'[k]) \subseteq ToSet(b[k]) \cup IF k = q THEN {m} ELSE {}
  BY <1>3, <1>4 DEF MessageSent
<1>7. Sensible(nextPort', client', q, m)
  <2>1. Token(nextPort', client', n)
    BY <1>0, <1>1 DEF Token
  <2>2. n \notin Locals
    BY <1>0, <1>1
  <2> QED BY <2>1, <2>2 DEF Sensible, Asking, AnswerKinds, n
<1>8. MailFits'
  <2>2. \A k \in DOMAIN box' : \A x \in ToSet(box'[k]) :
          (k \in DOMAIN box /\ x \in ToSet(box[k])) \/ Sensible(nextPort', client', k, x)
    BY <1>3, <1>6, <1>7
  <2> QED BY <2>2, TurnsMail
<1>9. ListsFit'
  BY TurnsLists
<1>10. PortsFit'
  <2>1. nextPort' \in Nat /\ nextPort' > 0 /\ DOMAIN box' \subseteq 0 .. nextPort' - 1
        /\ \A f \in failed : f.of \in 1 .. nextPort' - 1
    BY <1>0, <1>1, <1>6
  <2>2. {ManagerPort} \cup Locals \subseteq DOMAIN box'
    BY <1>0, <1>6
  <2>3. irqPort \in {NoPort} \cup DriverPorts
    BY DEF OnceInv, PortsFit
  <2> QED BY <1>5, <1>6, <2>1, <2>2, <2>3 DEF PortsFit
<1>11. ClientsFit'
  <2>1. n \in DOMAIN box' \ ({ManagerPort} \cup Locals)
    BY <1>0, <1>1, <1>6
  <2>2. \A e \in Client : HasReply(e) => client[e].reply \in DOMAIN box
    BY DEF OnceInv, ClientsFit
  <2>3. TurnsClients(c, new)
    BY <1>1, <1>6, <2>1, <2>2 DEF TurnsClients, Waiting, n
  <2> QED BY <2>3, TurnsFit
<1>12. OthersKept(c)
  <2> SUFFICES ASSUME NEW p \in DOMAIN box \ {ManagerPort}
               PROVE  CountsIn(box', waiters', pending', p) = CountsIn(box, waiters, pending, p)
    BY DEF OthersKept, CountsIn
  <2>1. p # n /\ p \in DOMAIN b
    BY <1>1, <1>3
  <2>2. IsCall(m, p) = 0 /\ IsAnswer(q, m, p) = 0
    BY <2>1 DEF IsCall, IsAnswer, Answers, Asking, n
  <2>3. /\ OnPorts(b, p) \in Nat
        /\ OnPorts(box', p) = OnPorts(b, p) + (IF q \in DOMAIN b THEN IsCall(m, p) ELSE 0)
                                            + IsAnswer(q, m, p)
    BY <1>4, <2>1 DEF MessageSent
  <2>4. OnPorts(box', p) = OnPorts(box, p)
    BY <1>3, <2>2, <2>3
  <2> QED BY <1>5, <2>4 DEF CountsIn
<1>13. CountedFor(new)
  <2>1. OnPorts(box', n) = 1
    <3>1. IsCall(m, n) = 1 /\ IsAnswer(q, m, n) = 0 /\ q \in DOMAIN b
      BY <1>0, <1>1, <1>3 DEF IsCall, IsAnswer, Answers, Asking, n
    <3>2. OnPorts(box', n) = OnPorts(b, n) + (IF q \in DOMAIN b THEN IsCall(m, n) ELSE 0)
                                           + IsAnswer(q, m, n)
      BY <1>3, <1>4 DEF MessageSent
    <3> QED BY <1>3, <3>1, <3>2
  <2>2. \A p : Token(n, client, p) => p # n
    BY <1>0 DEF Token, n
  <2>3. Cardinality(WaitsIn(waiters, n)) = 0
    <3>1. \A y \in Type : \A i \in DOMAIN waiters[y] : waiters[y][i] # n
      BY <2>2 DEF OnceInv, ListsFit, ToSet, n
    <3>2. WaitsIn(waiters, n) = {}
      BY <3>1 DEF WaitsIn, Positions, ItemAt, OnceInv, ListsFit
    <3> QED BY <3>2, FS_EmptySet
  <2>4. Cardinality(RequestsIn(pending, n)) = 0
    <3>1. \A d \in Driver : \A i \in DOMAIN pending[d] : pending[d][i].port # n
      BY <2>2 DEF OnceInv, ListsFit, ToSet, n
    <3>2. RequestsIn(pending, n) = {}
      BY <3>1 DEF RequestsIn, Positions, ItemAt, OnceInv, ListsFit
    <3> QED BY <3>2, FS_EmptySet
  <2>5. CountsIn(box', waiters', pending', n) = 1
    <3>1. waiters' = waiters /\ pending' = pending
      BY <1>5
    <3> QED BY <2>1, <2>3, <2>4, <3>1 DEF CountsIn
  <2>6. n \notin Refused
    BY <1>0 DEF Refused, n
  <2> QED BY <2>5, <2>6 DEF CountedFor, n
<1>14. Counted'
  BY <1>12, <1>13, TurnsCounted
<1> QED BY <1>8, <1>9, <1>10, <1>11, <1>14 DEF OnceInv

\* device_lookup asks the manager.
LEMMA LookupKeeps == ASSUME OnceInv, NEW c \in Client, Lookup(c) PROVE OnceInv'
<1>1. PICK w \in BOOLEAN :
        Asked(ManagerPort, [kind |-> "lookup", type |-> wants[c], wait |-> w, port |-> nextPort])
  BY DEF Lookup
<1> DEFINE m == [kind |-> "lookup", type |-> wants[c], wait |-> w, port |-> nextPort]
           new == [pc |-> "lookup", reply |-> nextPort]
<1>2. /\ client[c].pc \in {"idle", "found"} /\ client' = [client EXCEPT ![c] = new]
      /\ UNCHANGED << known, waiters, pending, irqPort, reads, failed, setting >>
  BY DEF Lookup, managerVars, driverVars, keyVars
<1>3. m.kind = "lookup" /\ m.port = nextPort /\ m.type \in Type
  BY DEF OnceInv, ClientsFit
<1>4. new.pc = "lookup" /\ new.reply = nextPort
  OBVIOUS
<1>5. Asked(ManagerPort, m)
  BY <1>1
<1>6. Turns(c, new)
  BY <1>2, <1>5 DEF Turns, Asked, OnceInv, PortsFit, Lookup
<1> HIDE DEF m, new
<1> QED BY <1>2, <1>3, <1>4, <1>5, <1>6, AskingKeeps

\* device_open asks a driver.
LEMMA OpenKeeps == ASSUME OnceInv, NEW c \in Client, Open(c) PROVE OnceInv'
<1> DEFINE m == [kind |-> "open", id |-> client[c].id, shmem |-> nextShmem, port |-> nextPort]
           new == [pc |-> "opening", port |-> client[c].port, shmem |-> nextShmem,
                   reply |-> nextPort]
           q == client[c].port
<1>1. /\ client[c].pc = "found" /\ client' = [client EXCEPT ![c] = new] /\ Asked(q, m)
      /\ UNCHANGED << known, waiters, pending, irqPort, reads, failed, setting >>
  BY DEF Open, managerVars, driverVars, keyVars
<1>2. q \in DriverPorts /\ q \in Locals
  BY <1>1, AsyncPorts DEF OnceInv, ClientsFit
<1>3. m.kind = "open" /\ m.port = nextPort
  OBVIOUS
<1>4. new.pc = "opening" /\ new.reply = nextPort /\ new.port \in DriverPorts
  BY <1>2
<1>5. client[c].pc \in {"idle", "found"}
  BY <1>1
<1>6. Turns(c, new)
  BY <1>1 DEF Turns, Asked, OnceInv, PortsFit
<1> HIDE DEF m, new, q
<1> QED BY <1>1, <1>2, <1>3, <1>4, <1>5, <1>6, AskingKeeps

\* A client gives up its port, with an answer for it or an error.
LEMMA LeavingKeeps ==
    ASSUME OnceInv, NEW c \in Client, client[c].pc \in {"lookup", "opening"},
           NEW new, new.pc \in {"idle", "found"}, new.pc = "found" => new.port \in DriverPorts,
           Turns(c, new), nextPort' = nextPort, box' = Without(client[c].reply)
    PROVE  OnceInv'
<1> DEFINE q == client[c].reply
<1>1. HasReply(c) /\ q \in DOMAIN box /\ q \notin {ManagerPort} \cup Locals
  BY DEF OnceInv, ClientsFit, HasReply, Waiting
<1>2. \A m \in ToSet(box[q]) : m.kind \notin Asking
  BY <1>1 DEF OnceInv, MailFits, Sensible, Asking, AnswerKinds
<1>3. /\ Ports(box') /\ DOMAIN box' = DOMAIN box \ {q}
      /\ \A k \in DOMAIN box' : box'[k] = box[k] /\ OnPorts(box', k) = OnPorts(box, k)
  <2>1. Ports(box) /\ box' = Restrict(box, DOMAIN box \ {q})
    BY DEF OnceInv, PortsFit, Without
  <2> HIDE DEF q
  <2> QED BY <1>1, <1>2, <2>1, PortDrop
<1>4. UNCHANGED << known, waiters, pending, irqPort, reads, failed, setting >>
  BY DEF Turns
<1>5. MailFits'
  <2>1. \A k \in DOMAIN box' : \A m \in ToSet(box'[k]) :
          (k \in DOMAIN box /\ m \in ToSet(box[k])) \/ Sensible(nextPort', client', k, m)
    BY <1>3
  <2> QED BY <2>1, TurnsMail
<1>6. ListsFit'
  BY TurnsLists
<1>7. PortsFit'
  BY <1>1, <1>3, <1>4 DEF OnceInv, PortsFit
<1>8. ClientsFit'
  <2>1. \A e \in Client \ {c} : HasReply(e) => client[e].reply \in DOMAIN box /\ client[e].reply # q
    BY <1>1 DEF OnceInv, ClientsFit
  <2>2. TurnsClients(c, new)
    BY <1>3, <2>1 DEF TurnsClients, Waiting
  <2> QED BY <2>2, TurnsFit
<1>9. OthersKept(c)
  BY <1>1, <1>3, <1>4 DEF OthersKept, CountsIn
<1>10. CountedFor(new)
  BY DEF CountedFor, Waiting
<1>11. Counted'
  BY <1>9, <1>10, TurnsCounted
<1> QED BY <1>5, <1>6, <1>7, <1>8, <1>11 DEF OnceInv

\* A client takes the answer from its port.
LEMMA TakingKeeps ==
    ASSUME OnceInv, NEW c \in Client, client[c].pc \in {"opening", "waiting"}, Answered(c),
           NEW new, new.pc = "open", new.port = client[c].port, new.reply = client[c].reply,
           Turns(c, new), nextPort' = nextPort, box' = Received(client[c].reply)
    PROVE  OnceInv'
<1> DEFINE q == client[c].reply
           m == Head(box[q])
<1>1. /\ HasReply(c) /\ q \in DOMAIN box /\ q \notin {ManagerPort} \cup Locals
      /\ client[c].port \in DriverPorts /\ box[q] # << >>
  BY DEF OnceInv, ClientsFit, HasReply, Waiting, Answered
<1>2. MessageTaken(box', box, q, m) /\ Sensible(nextPort, client, q, m)
  <2>1. box' = Received(q) /\ m = Head(box[q])
    OBVIOUS
  <2> HIDE DEF q, m
  <2> QED BY <1>1, <2>1, TakeMessage
<1> HIDE DEF m
<1>3. /\ Ports(box') /\ DOMAIN box' = DOMAIN box
      /\ \A k \in DOMAIN box : ToSet(box'[k]) \subseteq ToSet(box[k])
  BY <1>2 DEF MessageTaken
<1>4. UNCHANGED << known, waiters, pending, irqPort, reads, failed, setting >>
  BY DEF Turns
<1>5. MailFits'
  <2>1. \A k \in DOMAIN box' : \A x \in ToSet(box'[k]) :
          (k \in DOMAIN box /\ x \in ToSet(box[k])) \/ Sensible(nextPort', client', k, x)
    BY <1>3
  <2> QED BY <2>1, TurnsMail
<1>6. ListsFit'
  BY TurnsLists
<1>7. PortsFit'
  BY <1>3, <1>4 DEF OnceInv, PortsFit
<1>8. ClientsFit'
  <2>1. \A e \in Client \ {c} : HasReply(e) => client[e].reply \in DOMAIN box /\ client[e].reply # q
    BY <1>1 DEF OnceInv, ClientsFit
  <2>2. TurnsClients(c, new)
    BY <1>1, <1>3, <2>1 DEF TurnsClients, Waiting
  <2> QED BY <2>2, TurnsFit
<1>9. m.kind \in {"error"} \cup AnswerKinds
  BY <1>1, <1>2 DEF Sensible
<1>10. OthersKept(c)
  <2> SUFFICES ASSUME NEW p \in DOMAIN box \ {ManagerPort}, p # q
               PROVE  CountsIn(box', waiters', pending', p) = CountsIn(box, waiters, pending, p)
    BY <1>1 DEF OthersKept, CountsIn
  <2>1. IsCall(m, p) = 0 /\ IsAnswer(q, m, p) = 0
    BY <1>9 DEF IsCall, IsAnswer, Asking, AnswerKinds
  <2>2. /\ OnPorts(box', p) \in Nat
        /\ OnPorts(box, p) = OnPorts(box', p) + IsCall(m, p) + IsAnswer(q, m, p)
    BY <1>2 DEF MessageTaken
  <2>3. OnPorts(box, p) = OnPorts(box', p)
    BY <2>1, <2>2
  <2> QED BY <1>4, <2>3 DEF CountsIn
<1>11. CountedFor(new)
  <2> SUFFICES ASSUME q \notin Disturbed
               PROVE  q \notin Refused /\ CountsIn(box', waiters', pending', q) = 0
    BY DEF CountedFor
  <2> DEFINE w == Cardinality(WaitsIn(waiters, q))
             r == Cardinality(RequestsIn(pending, q))
  <2>1. IsCall(m, q) = 0 /\ IsAnswer(q, m, q) = 1
    BY <1>1, <1>9 DEF IsCall, IsAnswer, Asking, AnswerKinds, Answers, Locals
  <2>2. /\ OnPorts(box', q) \in Nat
        /\ OnPorts(box, q) = OnPorts(box', q) + IsCall(m, q) + IsAnswer(q, m, q)
    BY <1>1, <1>2 DEF MessageTaken
  <2>3. w \in Nat /\ r \in Nat
    BY <1>1, CountsTyped DEF OnceInv, PortsFit, ListsFit
  <2>4. /\ CountsIn(box, waiters, pending, q) = OnPorts(box, q) + w + r
        /\ CountsIn(box', waiters', pending', q) = OnPorts(box', q) + w + r
    BY <1>4 DEF CountsIn
  <2>5. CountsIn(box, waiters, pending, q) = IF q \in Refused THEN 0 ELSE 1
    BY <1>1 DEF OnceInv, Counted
  <2> HIDE DEF w, r, q
  <2> QED BY <2>1, <2>2, <2>3, <2>4, <2>5
<1>12. Counted'
  BY <1>10, <1>11, TurnsCounted
<1> QED BY <1>5, <1>6, <1>7, <1>8, <1>12 DEF OnceInv

\* device_lookup returns.
LEMMA LookupAnsweredKeeps ==
    ASSUME OnceInv, NEW c \in Client, LookupAnswered(c)
    PROVE  OnceInv'
<1> DEFINE q == client[c].reply
           m == Head(box[q])
           found == [pc |-> "found", port |-> m.port, id |-> m.id]
           idle == [pc |-> "idle"]
           new == IF m.kind = "found" THEN found ELSE idle
<1>1. /\ client[c].pc \in {"lookup", "opening"} /\ client[c].pc \notin {"open", "waiting"}
      /\ client' = [client EXCEPT ![c] = new] /\ box' = Without(client[c].reply)
      /\ nextPort' = nextPort /\ box[q] # << >>
      /\ UNCHANGED << known, waiters, pending, irqPort, reads, failed, setting >>
  BY DEF LookupAnswered, Answered, managerVars, driverVars, keyVars
<1>2. q \in DOMAIN box /\ nextPort \in Nat
  BY <1>1 DEF OnceInv, ClientsFit, HasReply, Waiting, PortsFit
<1>3. Sensible(nextPort, client, q, m)
  <2>1. m = Head(box[q])
    OBVIOUS
  <2> HIDE DEF m, q
  <2> QED BY <1>1, <1>2, <2>1, TakeMessage
<1>4. new.pc \in {"idle", "found"} /\ (new.pc = "found" => new.port \in DriverPorts)
  <2>1. m.kind = "found" => m.port \in DriverPorts
    BY <1>3 DEF Sensible
  <2>2. found.pc = "found" /\ found.port = m.port /\ idle.pc = "idle"
    OBVIOUS
  <2> HIDE DEF m, found, idle
  <2> QED BY <2>1, <2>2
<1> HIDE DEF new
<1>5. Turns(c, new)
  BY <1>1, <1>2 DEF Turns
<1> QED BY <1>1, <1>4, <1>5, LeavingKeeps

\* device_open returns: with the device, or without the port.
LEMMA OpenAnsweredKeeps ==
    ASSUME OnceInv, NEW c \in Client, OpenAnswered(c)
    PROVE  OnceInv'
<1> DEFINE m == Head(box[client[c].reply])
<1>1. /\ client[c].pc = "opening" /\ nextPort' = nextPort /\ Answered(c)
      /\ UNCHANGED << known, waiters, pending, irqPort, reads, failed, setting >>
  BY DEF OpenAnswered, managerVars, driverVars, keyVars
<1>2. nextPort \in Nat
  BY DEF OnceInv, PortsFit
<1>3. CASE m.kind = "opened"
  <2> DEFINE new == [pc |-> "open", port |-> client[c].port, conn |-> m.conn,
                     shmem |-> client[c].shmem, reply |-> client[c].reply]
  <2>1. client' = [client EXCEPT ![c] = new] /\ box' = Received(client[c].reply)
    BY <1>3 DEF OpenAnswered
  <2>2. new.pc = "open" /\ new.port = client[c].port /\ new.reply = client[c].reply
    OBVIOUS
  <2> HIDE DEF new
  <2>3. Turns(c, new)
    BY <1>1, <1>2, <2>1 DEF Turns
  <2> QED BY <1>1, <2>1, <2>2, <2>3, TakingKeeps
<1>4. CASE m.kind # "opened"
  <2> DEFINE new == [pc |-> "idle"]
  <2>1. client' = [client EXCEPT ![c] = new] /\ box' = Without(client[c].reply)
    BY <1>4 DEF OpenAnswered
  <2>2. new.pc \in {"idle", "found"} /\ (new.pc = "found" => new.port \in DriverPorts)
    OBVIOUS
  <2> HIDE DEF new
  <2>3. Turns(c, new)
    BY <1>1, <1>2, <2>1 DEF Turns
  <2> QED BY <1>1, <2>1, <2>2, <2>3, LeavingKeeps
<1> QED BY <1>3, <1>4

\* A synchronous read or write returns.
LEMMA RequestAnsweredKeeps ==
    ASSUME OnceInv, NEW c \in Client, RequestAnswered(c)
    PROVE  OnceInv'
<1> DEFINE new == [client[c] EXCEPT !.pc = "open"]
<1>1. /\ client[c].pc = "waiting" /\ nextPort' = nextPort /\ Answered(c)
      /\ client' = [client EXCEPT ![c] = new] /\ box' = Received(client[c].reply)
      /\ UNCHANGED << known, waiters, pending, irqPort, reads, failed, setting >>
  BY DEF RequestAnswered, managerVars, driverVars, keyVars
<1>2. nextPort \in Nat
  BY DEF OnceInv, PortsFit
<1>3. new.pc = "open" /\ new.port = client[c].port /\ new.reply = client[c].reply
  OBVIOUS
<1> HIDE DEF new
<1>4. Turns(c, new)
  BY <1>1, <1>2, <1>3 DEF Turns
<1> QED BY <1>1, <1>3, <1>4, TakingKeeps

\* A client that has opened a device sends a request.
LEMMA SendRequestKeeps == ASSUME OnceInv, NEW c \in Client, SendRequest(c) PROVE OnceInv'
<1> DEFINE n == client[c].reply
           q == client[c].port
           new == [client[c] EXCEPT !.pc = "waiting"]
<1>1. PICK op \in Uses(wants[c]) : box' = Sent(box, q, Requested(c, op, n, Unset))
  BY DEF SendRequest
<1> DEFINE m == Requested(c, op, n, Unset)
<1>2. /\ client[c].pc = "open" /\ nextPort' = nextPort /\ nextPort \in Nat
      /\ client' = [client EXCEPT ![c] = new]
      /\ UNCHANGED << known, waiters, pending, irqPort, reads, failed, setting >>
  BY DEF SendRequest, managerVars, driverVars, keyVars, OnceInv, PortsFit
<1>3. new.pc = "waiting" /\ new.port = q /\ new.reply = n
  OBVIOUS
<1>4. m.kind = "request" /\ m.port = n
  BY DEF Requested
<1>5. /\ HasReply(c) /\ n \in DOMAIN box /\ n \notin {ManagerPort} \cup Locals
      /\ q \in DriverPorts /\ q \in DOMAIN box
  BY <1>2, AsyncPorts DEF OnceInv, ClientsFit, PortsFit, HasReply, Waiting
<1> HIDE DEF new
<1>6. Turns(c, new)
  BY <1>2, <1>3 DEF Turns
<1>7. MessageSent(box', box, q, m)
  <2>1. box' = Sent(box, q, m)
    BY <1>1
  <2> HIDE DEF q, m
  <2> QED BY <2>1, PortSend DEF OnceInv, PortsFit
<1> HIDE DEF m, q
<1>8. /\ Ports(box') /\ DOMAIN box' = DOMAIN box
      /\ \A k \in DOMAIN box : ToSet(box'[k]) \subseteq ToSet(box[k]) \cup IF k = q THEN {m} ELSE {}
  BY <1>7 DEF MessageSent
<1>9. Sensible(nextPort', client', q, m)
  <2>1. Token(nextPort', client', n)
    BY <1>2, <1>5 DEF Token, OnceInv, PortsFit, ManagerPort
  <2>2. q \in Locals
    BY <1>5, AsyncPorts
  <2> QED BY <1>4, <2>1, <2>2 DEF Sensible, Asking, AnswerKinds
<1>10. MailFits'
  <2>1. \A k \in DOMAIN box' : \A x \in ToSet(box'[k]) :
          (k \in DOMAIN box /\ x \in ToSet(box[k])) \/ Sensible(nextPort', client', k, x)
    BY <1>8, <1>9
  <2> QED BY <1>6, <2>1, TurnsMail
<1>11. ListsFit'
  BY <1>6, TurnsLists
<1>12. PortsFit'
  BY <1>2, <1>8 DEF OnceInv, PortsFit
<1>13. ClientsFit'
  <2>1. \A e \in Client \ {c} : HasReply(e) => client[e].reply \in DOMAIN box /\ client[e].reply # n
    BY <1>5 DEF OnceInv, ClientsFit
  <2>2. TurnsClients(c, new)
    BY <1>3, <1>5, <1>8, <2>1 DEF TurnsClients, Waiting
  <2> QED BY <1>6, <2>2, TurnsFit
<1>14. OthersKept(c)
  <2> SUFFICES ASSUME NEW p \in DOMAIN box \ {ManagerPort}, p # n
               PROVE  CountsIn(box', waiters', pending', p) = CountsIn(box, waiters, pending, p)
    BY <1>5 DEF OthersKept, CountsIn
  <2>1. IsCall(m, p) = 0 /\ IsAnswer(q, m, p) = 0
    BY <1>4 DEF IsCall, IsAnswer, Answers
  <2>2. /\ OnPorts(box, p) \in Nat
        /\ OnPorts(box', p) = OnPorts(box, p) + (IF q \in DOMAIN box THEN IsCall(m, p) ELSE 0)
                                              + IsAnswer(q, m, p)
    BY <1>7 DEF MessageSent
  <2>3. OnPorts(box, p) = OnPorts(box', p)
    BY <2>1, <2>2
  <2> QED BY <1>2, <2>3 DEF CountsIn
<1>15. CountedFor(new)
  <2> SUFFICES ASSUME n \notin Disturbed
               PROVE  n \notin Refused /\ CountsIn(box', waiters', pending', n) = 1
    BY <1>3 DEF CountedFor
  <2> DEFINE w == Cardinality(WaitsIn(waiters, n))
             r == Cardinality(RequestsIn(pending, n))
  <2>1. IsCall(m, n) = 1 /\ IsAnswer(q, m, n) = 0
    BY <1>4 DEF IsCall, IsAnswer, Asking, Answers
  <2>2. /\ OnPorts(box, n) \in Nat
        /\ OnPorts(box', n) = OnPorts(box, n) + (IF q \in DOMAIN box THEN IsCall(m, n) ELSE 0)
                                              + IsAnswer(q, m, n)
    BY <1>5, <1>7 DEF MessageSent
  <2>3. w \in Nat /\ r \in Nat
    BY <1>5, CountsTyped DEF OnceInv, PortsFit, ListsFit
  <2>4. /\ CountsIn(box, waiters, pending, n) = OnPorts(box, n) + w + r
        /\ CountsIn(box', waiters', pending', n) = OnPorts(box', n) + w + r
    BY <1>2 DEF CountsIn
  <2>5. n \notin Refused /\ CountsIn(box, waiters, pending, n) = 0
    BY <1>2, <1>5 DEF OnceInv, Counted
  <2> HIDE DEF w, r, n
  <2> QED BY <1>5, <2>1, <2>2, <2>3, <2>4, <2>5
<1>16. Counted'
  BY <1>6, <1>14, <1>15, TurnsCounted
<1> QED BY <1>10, <1>11, <1>12, <1>13, <1>16 DEF OnceInv

\* The current read of an asynchronous client is sent.
LEMMA FirstReadKeeps ==
    ASSUME OnceInv, NEW c \in AsyncClient, client[c].pc = "open", reads[c].current = 0,
           NEW m, m.kind = "request", m.port = LocalPort[c],
           box' = Sent(box, client[c].port, m),
           reads' \in [AsyncClient -> [current : {0, 1}, queued : Nat]],
           reads'[c].current = 1,
           \A e \in AsyncClient : e # c => reads'[e].current = reads[e].current,
           UNCHANGED << known, waiters, pending, irqPort, client, nextPort, failed, setting >>
    PROVE  OnceInv'
<1> DEFINE n == LocalPort[c]
           q == client[c].port
<1>1. /\ n \in Locals /\ n \in DOMAIN box \ {ManagerPort} /\ q \in DriverPorts
      /\ q \in Locals /\ q \in DOMAIN box /\ nextPort \in Nat
  BY AsyncPorts DEF OnceInv, ClientsFit, PortsFit, Client
<1>2. MessageSent(box', box, q, m)
  BY PortSend DEF OnceInv, PortsFit
<1>3. /\ Ports(box') /\ DOMAIN box' = DOMAIN box
      /\ \A k \in DOMAIN box : ToSet(box'[k]) \subseteq ToSet(box[k]) \cup IF k = q THEN {m} ELSE {}
  BY <1>2 DEF MessageSent
<1>4. Sensible(nextPort, client, q, m)
  <2>1. Token(nextPort, client, n)
    BY <1>1 DEF Token, OnceInv, PortsFit, ManagerPort
  <2> QED BY <1>1, <2>1 DEF Sensible, Asking, AnswerKinds
<1>5. MailFits'
  <2>1. \A k \in DOMAIN box : \A x \in ToSet(box[k]) : Sensible(nextPort, client, k, x)
    BY DEF OnceInv, MailFits
  <2> QED BY <1>3, <1>4, <2>1 DEF MailFits
<1>6. ListsFit'
  BY DEF OnceInv, ListsFit
<1>7. PortsFit'
  BY <1>3 DEF OnceInv, PortsFit
<1>8. ClientsFit'
  BY <1>3 DEF OnceInv, ClientsFit, HasReply, setting
<1>9. ASSUME NEW p \in DOMAIN box \ {ManagerPort}
      PROVE  /\ CountsIn(box, waiters, pending, p) \in Nat
             /\ CountsIn(box', waiters', pending', p)
                  = CountsIn(box, waiters, pending, p) + IF n = p THEN 1 ELSE 0
  <2> DEFINE w == Cardinality(WaitsIn(waiters, p))
             r == Cardinality(RequestsIn(pending, p))
             k == IF n = p THEN 1 ELSE 0
  <2>1. IsCall(m, p) = k /\ IsAnswer(q, m, p) = 0 /\ k \in Nat
    BY DEF IsCall, IsAnswer, Asking, Answers
  <2>2. /\ OnPorts(box, p) \in Nat
        /\ OnPorts(box', p) = OnPorts(box, p) + (IF q \in DOMAIN box THEN IsCall(m, p) ELSE 0)
                                              + IsAnswer(q, m, p)
    BY <1>2 DEF MessageSent
  <2>3. w \in Nat /\ r \in Nat
    BY CountsTyped DEF OnceInv, PortsFit, ListsFit
  <2>4. /\ CountsIn(box, waiters, pending, p) = OnPorts(box, p) + w + r
        /\ CountsIn(box', waiters', pending', p) = OnPorts(box', p) + w + r
    BY DEF CountsIn
  <2> HIDE DEF w, r, n, q, k
  <2>5. /\ CountsIn(box, waiters, pending, p) \in Nat
        /\ CountsIn(box', waiters', pending', p) = CountsIn(box, waiters, pending, p) + k
    BY <1>1, <2>1, <2>2, <2>3, <2>4
  <2> QED BY <2>5 DEF k
<1>10. Refused' = Refused /\ Disturbed' = Disturbed /\ \A e \in Client : HasReply(e)' <=> HasReply(e)
  BY DEF Refused, Disturbed, HasReply
<1>11. ASSUME NEW e \in Client, HasReply(e), client[e].reply \notin Disturbed
       PROVE  IF client[e].pc = "open"
              THEN /\ client[e].reply \notin Refused
                   /\ CountsIn(box', waiters', pending', client[e].reply) = 0
              ELSE CountsIn(box', waiters', pending', client[e].reply)
                     = IF client[e].reply \in Refused THEN 0 ELSE 1
  <2>1. client[e].reply \in DOMAIN box \ {ManagerPort} /\ client[e].reply # n
    BY <1>1, <1>11 DEF OnceInv, ClientsFit
  <2>2. CountsIn(box', waiters', pending', client[e].reply)
          = CountsIn(box, waiters, pending, client[e].reply)
    <3> DEFINE x == client[e].reply
    <3>1. x \in DOMAIN box \ {ManagerPort} /\ n # x
      BY <2>1
    <3> HIDE DEF n, x
    <3>2. /\ CountsIn(box, waiters, pending, x) \in Nat
          /\ CountsIn(box', waiters', pending', x) = CountsIn(box, waiters, pending, x) + 0
      BY <1>9, <3>1
    <3>3. CountsIn(box', waiters', pending', x) = CountsIn(box, waiters, pending, x)
      BY <3>2
    <3> QED BY <3>3 DEF x
  <2> QED BY <1>11, <2>2 DEF OnceInv, Counted
<1>12. ASSUME NEW e \in AsyncClient, LocalPort[e] \notin Refused
       PROVE  CountsIn(box', waiters', pending', LocalPort[e]) = reads'[e].current
  <2> DEFINE x == LocalPort[e]
  <2>1. x \in DOMAIN box \ {ManagerPort} /\ (n = x <=> c = e)
    BY AsyncPorts DEF OnceInv, PortsFit
  <2>2. CountsIn(box, waiters, pending, x) = reads[e].current
    BY <1>12 DEF OnceInv, Counted
  <2>3. reads'[e].current = IF c = e THEN 1 ELSE reads[e].current
    OBVIOUS
  <2> HIDE DEF n, x
  <2>4. /\ CountsIn(box, waiters, pending, x) \in Nat
        /\ CountsIn(box', waiters', pending', x)
             = CountsIn(box, waiters, pending, x) + IF n = x THEN 1 ELSE 0
    BY <1>9, <2>1
  <2>5. CountsIn(box', waiters', pending', x) = reads'[e].current
    BY <2>1, <2>2, <2>3, <2>4
  <2> QED BY <2>5 DEF x
<1>13. Counted'
  BY <1>10, <1>11, <1>12 DEF Counted
<1> QED BY <1>5, <1>6, <1>7, <1>8, <1>13 DEF OnceInv

\* An asynchronous read is sent, or queued behind the current one.
LEMMA ReadAsyncKeeps == ASSUME OnceInv, NEW c \in Client, ReadAsync(c) PROVE OnceInv'
<1> DEFINE m == Requested(c, "READ", LocalPort[c], c)
<1>1. /\ c \in AsyncClient /\ client[c].pc = "open"
      /\ UNCHANGED << known, waiters, pending, irqPort, client, nextPort, failed, setting >>
  BY DEF ReadAsync, managerVars, driverVars, keyVars
<1>2. reads \in [AsyncClient -> [current : {0, 1}, queued : Nat]]
  BY DEF OnceInv, ClientsFit
<1>3. reads[c].current \in {0, 1} /\ reads[c].queued \in Nat
  BY <1>1, <1>2
<1>4. CASE reads[c].current = 0
  <2>1. box' = Sent(box, client[c].port, m) /\ reads' = [reads EXCEPT ![c].current = 1]
    BY <1>4 DEF ReadAsync
  <2>2. m.kind = "request" /\ m.port = LocalPort[c]
    BY DEF Requested
  <2>3. /\ reads' \in [AsyncClient -> [current : {0, 1}, queued : Nat]]
        /\ reads'[c].current = 1
        /\ \A e \in AsyncClient : e # c => reads'[e].current = reads[e].current
    BY <1>1, <1>2, <2>1
  <2> HIDE DEF m
  <2> QED BY <1>1, <1>4, <2>1, <2>2, <2>3, FirstReadKeeps
<1>5. CASE reads[c].current # 0
  <2>1. box' = box /\ reads' = [reads EXCEPT ![c].queued = @ + 1]
    BY <1>5 DEF ReadAsync
  <2>2. /\ reads' \in [AsyncClient -> [current : {0, 1}, queued : Nat]]
        /\ \A e \in AsyncClient : reads'[e].current = reads[e].current
    BY <1>1, <1>2, <1>3, <2>1
  <2>3. Serving /\ CountsKept
    BY <1>1, <2>1, <2>2 DEF Serving, CountsKept, CountsIn
  <2>4. MailFits' /\ ListsFit' /\ PortsFit'
    BY <1>1, <2>1 DEF OnceInv, MailFits, ListsFit, PortsFit
  <2> QED BY <1>1, <2>3, <2>4, CountedKept DEF OnceInv
<1> QED BY <1>4, <1>5

\* A read that ends is followed by the next.
LEMMA CompleteKeeps == ASSUME OnceInv, NEW c, Complete(c) PROVE OnceInv'
<1> DEFINE n == LocalPort[c]
           q == client[c].port
           m == Head(box[n])
           m1 == Requested(c, "READ", n, c)
<1>1. /\ c \in AsyncClient /\ n \in DOMAIN box /\ box[n] # << >> /\ m.kind = "done"
      /\ box' = Sent(Received(n), q, m1)
      /\ UNCHANGED << known, waiters, pending, irqPort, client, nextPort, failed, setting >>
  BY DEF Complete, Arrived, managerVars, driverVars, keyVars
<1>2. /\ reads' \in [AsyncClient -> [current : {0, 1}, queued : Nat]]
      /\ \A e \in AsyncClient : reads'[e].current = reads[e].current
  <2>1. reads \in [AsyncClient -> [current : {0, 1}, queued : Nat]]
    BY DEF OnceInv, ClientsFit
  <2>2. reads[c].queued \in Nat
    BY <1>1, <2>1
  <2>3. reads' = [reads EXCEPT ![c].queued = (reads[c].queued + 1) - 1]
    BY DEF Complete
  <2> QED BY <1>1, <2>1, <2>2, <2>3
<1>3. n \in Locals /\ n \in DOMAIN box \ {ManagerPort}
  BY <1>1, AsyncPorts
<1>4. m1.kind = "request" /\ m1.port = n
  BY DEF Requested
<1>5. Exchanged(n, m, q, m1) /\ Sensible(nextPort, client, n, m)
  <2>1. m = Head(box[n])
    OBVIOUS
  <2> HIDE DEF m, m1, n, q
  <2> QED BY <1>1, <2>1, Exchange
<1> HIDE DEF m, m1
<1>6. client[c].pc \in {"open", "waiting"} /\ Token(nextPort, client, n)
  <2>1. Token(nextPort, client, n)
    BY <1>1, <1>3, <1>5 DEF Sensible, AnswerKinds
  <2> QED BY <1>1, <1>3, <2>1, AsyncPorts DEF Token
<1>7. q \in DriverPorts /\ q \in Locals /\ q \in DOMAIN box
  BY <1>1, <1>6, AsyncPorts DEF OnceInv, ClientsFit, PortsFit, Client
<1>8. Sensible(nextPort, client, q, m1)
  BY <1>4, <1>6, <1>7 DEF Sensible, Asking, AnswerKinds
<1>9. Serving
  BY <1>1, <1>2, <1>5 DEF Serving, Exchanged
<1>10. MailFits'
  BY <1>5, <1>8, <1>9, ServingMail DEF Exchanged
<1>11. ListsFit'
  BY <1>1 DEF OnceInv, ListsFit
<1>12. PortsFit'
  BY <1>1, <1>5 DEF Exchanged, OnceInv, PortsFit
<1>13. CountsKept
  <2> SUFFICES ASSUME NEW p \in DOMAIN box \ {ManagerPort}
               PROVE  CountsIn(box', waiters', pending', p) = CountsIn(box, waiters, pending, p)
    BY DEF CountsKept, CountsIn
  <2> DEFINE k == IF n = p THEN 1 ELSE 0
  <2>1. /\ IsCall(m, p) = 0 /\ IsAnswer(n, m, p) = k
        /\ IsCall(m1, p) = k /\ IsAnswer(q, m1, p) = 0
    BY <1>1, <1>4 DEF IsCall, IsAnswer, Answers, Asking
  <2>2. /\ OnPorts(box, p) \in Nat /\ OnPorts(box', p) \in Nat
        /\ OnPorts(box', p) + IsCall(m, p) + IsAnswer(n, m, p)
             = OnPorts(box, p) + (IF q \in DOMAIN box THEN IsCall(m1, p) ELSE 0)
                               + IsAnswer(q, m1, p)
    BY <1>5 DEF Exchanged
  <2>3. OnPorts(box, p) = OnPorts(box', p)
    <3>1. k \in Nat
      OBVIOUS
    <3> HIDE DEF k, n, q
    <3> QED BY <1>7, <2>1, <2>2, <3>1
  <2> QED BY <1>1, <2>3 DEF CountsIn
<1> QED BY <1>1, <1>9, <1>10, <1>11, <1>12, <1>13, CountedKept DEF OnceInv

\* Nobody waits at the start.
LEMMA OnceInit == DeviceInit => OnceInv
<1> SUFFICES ASSUME DeviceInit PROVE OnceInv
  OBVIOUS
<1> DEFINE N == Cardinality(Driver \cup AsyncClient)
<1>1. N \in Nat /\ Locals = 1 .. N
  BY DeviceAssumption, FS_CardinalityType DEF Locals
<1>2. /\ DOMAIN box = 0 .. N /\ nextPort = N + 1 /\ failed = {} /\ irqPort = NoPort
      /\ \A p \in 0 .. N : box[p] = << >>
      /\ \A y \in Type : known[y] = << >> /\ waiters[y] = << >>
      /\ \A d \in Driver : pending[d] = << >>
      /\ DOMAIN known = Type /\ DOMAIN waiters = Type /\ DOMAIN pending = Driver
      /\ DOMAIN client = Client /\ \A c \in Client : client[c].pc = "idle"
  BY DEF DeviceInit
<1>3. \A f : (\A k \in DOMAIN f : f[k] = << >>) =>
        /\ \A k \in DOMAIN f : ToSet(f[k]) = {}
        /\ Positions(f) = {}
  BY DEF ToSet, Positions
<1>4. IsFamily(box) /\ IsFamily(known) /\ IsFamily(waiters) /\ IsFamily(pending)
  <2>1. << >> \in Seq({})
    BY EmptySeq
  <2>2. /\ box \in [DOMAIN box -> Seq({})] /\ known \in [DOMAIN known -> Seq({})]
        /\ waiters \in [DOMAIN waiters -> Seq({})] /\ pending \in [DOMAIN pending -> Seq({})]
    BY <2>1 DEF DeviceInit
  <2> QED BY <2>2, Zenon DEF IsFamily
<1>5. \A p : CallsIn(box, p) = {} /\ WaitsIn(waiters, p) = {} /\ RequestsIn(pending, p) = {}
  BY <1>2, <1>3 DEF CallsIn, WaitsIn, RequestsIn
<1>6. Ports(box) /\ Waits(waiters) /\ Requests(pending)
  BY <1>4, <1>5, FS_EmptySet DEF Ports, Waits, Requests
<1>7. MailFits
  BY <1>2, <1>3 DEF MailFits
<1>8. ListsFit
  BY <1>2, <1>3, <1>4, <1>6 DEF ListsFit
<1>9. PortsFit
  <2> HIDE DEF N
  <2> QED BY <1>1, <1>2, <1>6 DEF PortsFit, ManagerPort
<1>10. ClientsFit
  <2>1. typeOf \in [Driver -> Type] /\ wants \in [Client -> Type]
    BY DEF DeviceInit, Range
  <2>2. reads \in [AsyncClient -> [current : {0, 1}, queued : Nat]]
    BY DEF DeviceInit
  <2> QED BY <1>2, <2>1, <2>2 DEF ClientsFit, HasReply, Waiting
<1>11. Counted
  <2>1. ASSUME NEW c \in AsyncClient
        PROVE  CountsIn(box, waiters, pending, LocalPort[c]) = reads[c].current
    <3> DEFINE p == LocalPort[c]
    <3>0. p \in Locals
      BY AsyncPorts
    <3> HIDE DEF p, N
    <3>1. p \in 0 .. N
      BY <1>1, <3>0
    <3>2. AnswersIn(box, p) = {}
      BY <1>2, <3>1 DEF AnswersIn
    <3>3. OnPorts(box, p) = 0
      BY <1>5, <3>2, FS_EmptySet DEF OnPorts
    <3>4. Cardinality(WaitsIn(waiters, p)) = 0 /\ Cardinality(RequestsIn(pending, p)) = 0
      BY <1>5, FS_EmptySet
    <3>5. CountsIn(box, waiters, pending, p) = 0
      BY <3>3, <3>4 DEF CountsIn
    <3>6. reads[c].current = 0
      BY DEF DeviceInit
    <3> QED BY <3>5, <3>6 DEF p
  <2>2. \A c \in Client : ~HasReply(c)
    BY <1>2 DEF HasReply, Waiting
  <2> QED BY <2>1, <2>2 DEF Counted
<1> QED BY <1>7, <1>8, <1>9, <1>10, <1>11 DEF OnceInv

\* The invariant is inductive: one lemma above for each action.
LEMMA OnceStep == OnceInv /\ [DeviceNext]_deviceVars => OnceInv'
<1> SUFFICES ASSUME OnceInv, [DeviceNext]_deviceVars PROVE OnceInv'
  OBVIOUS
<1>1. CASE Manager
  BY <1>1, ManagerAnnounceKeeps, ManagerLookupKeeps, ManagerIgnoreKeeps DEF Manager
<1>2. ASSUME NEW d \in Driver, Announce(d) \/ DriverStep(d) \/ InputAvailable(d)
      PROVE  OnceInv'
  BY <1>2, AnnounceKeeps, HandleOpenKeeps, HandleRequestKeeps, HandleIgnoreKeeps,
     HandleInterruptKeeps, InputAvailableKeeps DEF DriverStep
<1>3. CASE KeyPressed \/ KeyInterrupt
  BY <1>3, KeyPressedKeeps, KeyInterruptKeeps
<1>4. ASSUME NEW c \in Client,
             Lookup(c) \/ Open(c) \/ SendRequest(c) \/ ReadAsync(c) \/ Continue(c)
      PROVE  OnceInv'
  BY <1>4, LookupKeeps, OpenKeeps, SendRequestKeeps, ReadAsyncKeeps, LookupAnsweredKeeps,
     OpenAnsweredKeeps, RequestAnsweredKeeps, CompleteKeeps, AsyncIgnoreKeeps DEF Continue
<1>5. CASE UNCHANGED deviceVars \/ EndedEarly
  <2>1. UNCHANGED << box, known, waiters, pending, irqPort, client, reads, nextPort, failed,
                     setting >>
    BY <1>5 DEF EndedEarly, deviceVars, managerVars, driverVars, keyVars, clientVars
  <2>2. Serving /\ CountsKept
    BY <2>1 DEF Serving, CountsKept, OnceInv, ClientsFit, CountsIn
  <2>3. MailFits' /\ ListsFit' /\ PortsFit'
    BY <2>1 DEF OnceInv, MailFits, ListsFit, PortsFit
  <2> QED BY <2>1, <2>2, <2>3, CountedKept DEF OnceInv
<1> QED BY <1>1, <1>2, <1>3, <1>4, <1>5 DEF DeviceNext

\* Whatever the drivers, clients and devices: a request that a client waits for is at
\* one place, on its way, with a waiter, in a driver's queue or answered, unless it was
\* refused, and nothing is left over that the client could take for a later answer.
THEOREM RequestsAnsweredOnce == DeviceSpec => []AnswersOnce
<1>1. OnceInv => AnswersOnce
  BY CountedOnce DEF OnceInv
<1> QED BY <1>1, OnceInit, OnceStep, PTL DEF DeviceSpec

-----------------------------------------------------------------------------
(* Devices: what a step may do to lists and clients *)

Queued(d, r) == \E m \in ToSet(box[LocalPort[d]]) :
    /\ m.kind = "request" /\ r.op = m.op /\ r.port = m.port /\ r.shmem = conns[d][m.conn]

\* A call to be answered on port p cannot be served.
Refuses(p) == \E d \in Driver : \E m \in ToSet(box[LocalPort[d]]) :
    m.port = p /\ (m.kind = "open" \/ (m.kind = "request" /\ Len(pending[d]) = room))

ListStep ==
    /\ UNCHANGED setting
    /\ \A y \in Type : \A x \in ToSet(known'[y]) : x \in ToSet(known[y]) \/ Announced(y, x.port)
    /\ \A y \in Type : \A p \in ToSet(waiters'[y]) : p \in ToSet(waiters[y]) \/ LookedUp(y, p)
    /\ \A d \in Driver : \A r \in ToSet(pending'[d]) : r \in ToSet(pending[d]) \/ Queued(d, r)
    /\ (conns' = conns /\ irqPort' = irqPort)
       \/ \E d \in Driver : \E o \in ToSet(box[LocalPort[d]]) : Accepts(d, o)
    /\ failed \subseteq failed' /\ \A f \in failed' : f \in failed \/ Refuses(f.of)

\* What client c may do.
Moves(c) ==
    \/ /\ client[c].pc = "idle" /\ client'[c].pc = "lookup"
       /\ client'[c].reply = nextPort /\ nextPort' = nextPort + 1
    \/ /\ client[c].pc = "lookup" /\ client'[c].pc = "found"
       /\ \E m \in ToSet(box[client[c].reply]) : m.kind = "found" /\ client'[c].port = m.port
    \/ client[c].pc \in {"lookup", "opening"} /\ client'[c].pc = "idle"
    \/ /\ client[c].pc = "found" /\ client'[c].pc = "opening" /\ client'[c].port = client[c].port
       /\ client'[c].reply = nextPort /\ nextPort' = nextPort + 1
       /\ client'[c].shmem = nextShmem /\ nextShmem' = nextShmem + 1
    \/ /\ client[c].pc = "opening" /\ client'[c].pc = "open" /\ client'[c].port = client[c].port
       /\ client'[c].reply = client[c].reply /\ client'[c].shmem = client[c].shmem
       /\ \E m \in ToSet(box[client[c].reply]) : m.kind = "opened" /\ client'[c].conn = m.conn
    \/ /\ Bound(client, c) /\ Bound(client', c) /\ client'[c].port = client[c].port
       /\ client'[c].reply = client[c].reply /\ client'[c].shmem = client[c].shmem
       /\ client'[c].conn = client[c].conn

ClientStep ==
    /\ client' = client
       \/ \E c \in Client : Moves(c) /\ \A e \in Client : e # c => client'[e] = client[e]
    /\ nextPort' \in {nextPort, nextPort + 1}
    /\ \/ nextShmem' = nextShmem /\ DOMAIN data' = DOMAIN data
       \/ nextShmem' = nextShmem + 1 /\ DOMAIN data' = DOMAIN data \cup {nextShmem}

Steps(D, T, I) == MailStep(D, T, I) /\ ListStep /\ ClientStep

\* Nor what else a server keeps.
LEMMA SameLists ==
    ASSUME UNCHANGED << known, waiters, pending, conns, irqPort, failed, setting >> PROVE ListStep
BY DEF ListStep

\* Nor clients and regions.
LEMMA SameClients ==
    ASSUME UNCHANGED << client, nextPort, nextShmem >>, DOMAIN data' = DOMAIN data PROVE ClientStep
BY DEF ClientStep

\* One client moves.
LEMMA OneMoves ==
    ASSUME OnceInv, NEW c \in Client, NEW new, client' = [client EXCEPT ![c] = new],
           Moves(c), nextPort' \in {nextPort, nextPort + 1},
           \/ nextShmem' = nextShmem /\ DOMAIN data' = DOMAIN data
           \/ nextShmem' = nextShmem + 1 /\ DOMAIN data' = DOMAIN data \cup {nextShmem}
    PROVE  ClientStep
<1>1. \A e \in Client : e # c => client'[e] = client[e]
  BY DEF OnceInv, ClientsFit
<1> QED BY <1>1 DEF ClientStep

\* Nothing changes, or nothing but what the interrupt controller serves.
LEMMA StutterSteps == ASSUME UNCHANGED deviceVars \/ EndedEarly PROVE Steps(None, None, None)
<1>1. UNCHANGED << box, known, waiters, pending, conns, irqPort, failed, client, nextPort,
                   nextShmem, data >> /\ UNCHANGED setting
  BY DEF EndedEarly, deviceVars, managerVars, driverVars, keyVars, clientVars
<1> QED BY <1>1, SameMail, SameLists, SameClients DEF Steps

\* A process ignores a message.
LEMMA IgnoreSteps ==
    ASSUME OnceInv, NEW q \in DOMAIN box, box[q] # << >>, Head(box[q]).kind # "done",
           box' = Received(q),
           UNCHANGED << known, waiters, pending, conns, irqPort, failed, client, nextPort,
                        nextShmem >>, UNCHANGED setting, DOMAIN data' = DOMAIN data
    PROVE  Steps(None, None, None)
BY TakenMail, SameLists, SameClients DEF Steps

\* The manager answers look-ups, and who waited when a device is announced.
LEMMA ManagerSteps == ASSUME OnceInv, Manager PROVE Steps(None, None, None)
<1> DEFINE q == ManagerPort
           m == Head(box[q])
<1>1. /\ UNCHANGED << pending, conns, irqPort, failed, client, nextPort, nextShmem, data >>
      /\ UNCHANGED setting /\ q \in DOMAIN box /\ box[q] # << >>
      /\ m.kind \in {"announce", "lookup", "error"}
  BY DEF Manager, ManagerAnnounce, ManagerForgets, ManagerLookup, ManagerIgnore, Arrived,
         driverVars, keyVars, clientVars
<1>2. m \in ToSet(box[q]) /\ Sensible(nextPort, client, q, m)
  <2>1. PICK rest : rest = Received(q)
    OBVIOUS
  <2> QED BY <1>1, <2>1, TakeMessage DEF MessageTaken
<1>3. ClientStep
  BY <1>1, SameClients
<1>4. CASE ManagerAnnounce
  <2>1. /\ MailStep(None, None, None)
        /\ \A y \in Type : /\ ToSet(waiters'[y]) \subseteq ToSet(waiters[y])
                          /\ \A x \in ToSet(known'[y]) : x \in ToSet(known[y]) \/ Announced(y, x.port)
    BY <1>4, ManagerAnnounceKeeps
  <2>2. ListStep
    BY <1>1, <2>1 DEF ListStep
  <2> QED BY <1>3, <2>1, <2>2 DEF Steps
<1>5. CASE ManagerIgnore \/ ManagerForgets
  <2>1. box' = Received(q) /\ UNCHANGED << known, waiters >>
    BY <1>5 DEF ManagerIgnore, ManagerForgets, managerVars
  <2>2. m.kind # "done"
    BY <1>1
  <2> QED BY <1>1, <2>1, <2>2, IgnoreSteps
<1>6. CASE ManagerLookup
  <2> DEFINE devices == known[m.type]
             found == [kind |-> "found", port |-> Head(devices).port, id |-> Head(devices).id]
  <2>1. m.kind = "lookup" /\ known' = known /\ m.type \in Type /\ LookedUp(m.type, m.port)
    BY <1>2, <1>6 DEF ManagerLookup, Arrived, Sensible, LookedUp
  <2>2. CASE devices # << >> /\ box' = Sent(Received(q), m.port, found) /\ UNCHANGED waiters
    <3>1. found.kind = "found" /\ found.port = Head(devices).port
      OBVIOUS
    <3>2. Head(devices) \in ToSet(devices)
      <4>1. PICK T : known \in [Type -> Seq(T)]
        BY DEF OnceInv, ListsFit, IsFamily
      <4>2. devices \in Seq(T)
        BY <2>1, <4>1
      <4> HIDE DEF devices
      <4> QED BY <2>2, <4>2, PopElements
    <3>3. Posted(None, None, m.port, found)
      BY <2>1, <3>1, <3>2 DEF Posted, Told
    <3>4. box' = Sent(Received(q), m.port, found)
      BY <2>2
    <3> HIDE DEF found, devices
    <3>5. MailStep(None, None, None)
      BY <1>1, <2>1, <3>1, <3>3, <3>4, SwapMail
    <3> QED BY <1>1, <1>3, <2>1, <2>2, <3>5, SameLists DEF Steps
  <2>3. CASE waiters' = [waiters EXCEPT ![m.type] = << m.port >> \o waiters[m.type]] /\ box' = Received(q)
    <3>1. MailStep(None, None, None)
      BY <1>1, <2>1, <2>3, TakenMail
    <3>2. WaitsGain(waiters', waiters, m.port)
      <4>1. Waits(waiters) /\ m.type \in DOMAIN waiters
        BY <2>1 DEF OnceInv, ListsFit
      <4> QED BY <2>3, <4>1, WaitAdd
    <3>3. \A y \in Type : \A p \in ToSet(waiters'[y]) : p \in ToSet(waiters[y]) \/ LookedUp(y, p)
      <4>1. PICK z : z = << m.port >> \o waiters[m.type]
        OBVIOUS
      <4>2. \A y \in Type : y # m.type => waiters'[y] = waiters[y]
        BY <2>3 DEF OnceInv, ListsFit
      <4>3. \A y \in Type : \A p \in ToSet(waiters'[y]) : p \in ToSet(waiters[y]) \/ p = m.port
        BY <3>2 DEF WaitsGain, OnceInv, ListsFit
      <4> QED BY <2>1, <4>2, <4>3
    <3>4. ListStep
      BY <1>1, <2>1, <3>3 DEF ListStep
    <3> QED BY <1>3, <3>1, <3>4 DEF Steps
  <2>4. CASE box' = Sent(Received(q), m.port, Error) /\ UNCHANGED waiters
    <3>1. Error.kind = "error"
      BY DEF Error
    <3>2. Posted(None, None, m.port, Error)
      BY <2>1, <3>1 DEF Posted
    <3>3. MailStep(None, None, None)
      BY <1>1, <2>1, <2>4, <3>1, <3>2, SwapMail
    <3> QED BY <1>1, <1>3, <2>1, <2>4, <3>3, SameLists DEF Steps
  <2> QED BY <1>6, <2>2, <2>3, <2>4 DEF ManagerLookup
<1> QED BY <1>4, <1>5, <1>6 DEF Manager

\* A driver announces its device, or does what is asked of it.
LEMMA AnnounceSteps ==
    ASSUME OnceInv, NEW d \in Driver, Announce(d) PROVE Steps(None, None, None)
<1> DEFINE m == [kind |-> "announce", type |-> typeOf[d], port |-> LocalPort[d], id |-> 0]
<1>1. /\ UNCHANGED << known, waiters, pending, conns, irqPort, failed, client, nextPort, nextShmem,
                      data >> /\ UNCHANGED setting /\ box' = Sent(box, ManagerPort, m)
  BY DEF Announce, managerVars, keyVars, clientVars
<1>2. m.kind = "announce" /\ m.port \in PortsOf(m.type)
  BY DEF PortsOf
<1> HIDE DEF m
<1>3. Posted(None, None, ManagerPort, m)
  BY <1>2 DEF Posted
<1>4. MailStep(None, None, None)
  BY <1>1, <1>2, <1>3, SentMail
<1> QED BY <1>1, <1>4, SameLists, SameClients DEF Steps

\* What handles a message of driver d leaves alone, and the message.
LEMMA Handling ==
    ASSUME OnceInv, NEW d \in Driver, NEW kind, Handles(d, kind), NEW q, q = LocalPort[d],
           NEW m, m = Head(box[q])
    PROVE  /\ q \in DOMAIN box /\ q \in Locals /\ box[q] # << >> /\ m.kind = kind
           /\ m \in ToSet(box[q]) /\ Sensible(nextPort, client, q, m)
<1>1. q \in DOMAIN box /\ q \in Locals /\ box[q] # << >> /\ m.kind = kind
  BY AsyncPorts DEF Handles, Arrived
<1>2. PICK rest : rest = Received(q)
  OBVIOUS
<1> QED BY <1>1, <1>2, TakeMessage DEF MessageTaken

\* A driver accepts a client or sends it an error.
LEMMA HandleOpenSteps ==
    ASSUME OnceInv, NEW d \in Driver, HandleOpen(d) PROVE Steps(None, None, None)
<1> DEFINE q == LocalPort[d]
           m == Head(box[q])
           m1 == [kind |-> "opened", conn |-> Len(conns[d]) + 1]
<1>1. /\ q \in DOMAIN box /\ box[q] # << >> /\ m.kind = "open" /\ m \in ToSet(box[q])
  BY Handling DEF HandleOpen
<1>2. /\ UNCHANGED << known, waiters, pending, client, nextPort, nextShmem, data >>
      /\ UNCHANGED setting /\ ClientStep
  BY SameClients DEF HandleOpen, managerVars, clientVars
<1>3. m1.kind = "opened" /\ m1.conn = Len(conns[d]) + 1 /\ m.kind # "done"
  BY <1>1
<1>4. CASE /\ CanOpen(d, m) /\ conns' = [conns EXCEPT ![d] = Append(@, m.shmem)]
           /\ irqPort' = IF typeOf[d] = "INPUT" THEN q ELSE irqPort
           /\ box' = Sent(Received(q), m.port, m1) /\ UNCHANGED failed
  <2>1. Accepts(d, m)
    BY <1>1, <1>4 DEF Accepts
  <2>2. box' = Sent(Received(q), m.port, m1)
    BY <1>4
  <2>3. Posted(None, None, m.port, m1)
    <3> HIDE DEF m, m1
    <3> QED BY <1>1, <1>3, <2>1 DEF Posted
  <2>4. MailStep(None, None, None)
    <3> HIDE DEF m1
    <3> QED BY <1>1, <1>3, <2>2, <2>3, SwapMail
  <2>5. ListStep
    BY <1>1, <1>2, <1>4, <2>1 DEF ListStep
  <2> QED BY <1>2, <2>4, <2>5 DEF Steps
<1>5. CASE /\ box' = Sent(Received(q), m.shmem, Error)
           /\ failed' = failed \cup {[of |-> m.port, to |-> m.shmem]}
           /\ UNCHANGED << conns, irqPort >>
  <2> DEFINE f0 == [of |-> m.port, to |-> m.shmem]
  <2>1. f0.of = m.port /\ f0.to = m.shmem /\ failed' = failed \cup {f0}
    BY <1>5
  <2> HIDE DEF f0
  <2>2. Error.kind = "error" /\ m.shmem \in Disturbed'
    BY <2>1 DEF Error, Disturbed
  <2>3. Posted(None, None, m.shmem, Error)
    BY <2>2 DEF Posted
  <2>4. MailStep(None, None, None)
    <3>1. box' = Sent(Received(q), m.shmem, Error)
      BY <1>5
    <3> QED BY <1>1, <1>3, <2>2, <2>3, <3>1, SwapMail
  <2>5. Refuses(m.port)
    BY <1>1 DEF Refuses
  <2>6. ListStep
    BY <1>2, <1>5, <2>1, <2>5 DEF ListStep
  <2> QED BY <1>2, <2>4, <2>6 DEF Steps
<1> QED BY <1>4, <1>5 DEF HandleOpen

\* A key of b is read for the region s, and the reader on port p told.
KeyRead(s, b, p) ==
    /\ data' = [data EXCEPT ![s] = IF Len(b) = 1 THEN b[1] ELSE NoKey] /\ buffer' = Front(b)
    /\ p \in DOMAIN box => \E x \in ToSet(box'[p]) : x.kind = "done"

\* A request for a buffered key is finished at once.
ReadsNow(d) ==
    /\ typeOf[d] = "INPUT" /\ buffer # << >> /\ pending' = pending
    /\ \E m \in ToSet(box[LocalPort[d]]) :
         m.kind = "request" /\ KeyRead(conns[d][m.conn], buffer, m.port)

\* A request is finished at once that reads no key, queued or dropped.
Queues(d) ==
    /\ UNCHANGED << data, buffer >>
    /\ \A e \in Driver : e # d => pending'[e] = pending[e]
    /\ typeOf[d] = "INPUT" /\ buffer # << >> =>
         \/ pending'[d] = pending[d] \/ pending[d] # << >>
         \/ \E m \in ToSet(box[LocalPort[d]]) : m.kind = "request" /\ m.op # "READ"

\* A driver finishes a request, queues it, or drops it.
LEMMA HandleRequestSteps ==
    ASSUME OnceInv, NEW d \in Driver, HandleRequest(d)
    PROVE  \/ Steps(None, None, None) /\ Queues(d)
           \/ Steps(Only(d), None, None) /\ typeOf[d] # "INPUT" /\ Queues(d)
           \/ Steps(Only(d), None, None) /\ ReadsNow(d)
<1> DEFINE q == LocalPort[d]
           m == Head(box[q])
           r == [op |-> m.op, port |-> m.port, p |-> m.p, shmem |-> conns[d][m.conn]]
           m1 == Answer(r).msg
<1>1. /\ q \in DOMAIN box /\ box[q] # << >> /\ m.kind = "request" /\ m \in ToSet(box[q])
      /\ m.kind # "done"
  BY Handling DEF HandleRequest
<1>2. /\ UNCHANGED << known, waiters, conns, irqPort, client, nextPort, nextShmem >>
      /\ UNCHANGED setting
  BY DEF HandleRequest, managerVars, clientVars
<1>3. /\ r.op = m.op /\ r.port = m.port /\ r.shmem = conns[d][m.conn] /\ m1.kind = "done"
      /\ Owes(d, m.port)
  BY <1>1 DEF Answer, Owes
<1>4. CASE /\ AtOnce(d, r) /\ box' = Sent(Received(q), r.port, m1)
           /\ IF r.op = "READ" THEN ReadKey(r, buffer) ELSE UNCHANGED << data, buffer >>
           /\ UNCHANGED << pending, failed >>
  <2> HIDE DEF r, m1
  <2>1. box' = Sent(Received(q), m.port, m1) /\ m1.kind # "irq"
    BY <1>3, <1>4
  <2>2. Posted(Only(d), None, m.port, m1)
    BY <1>3 DEF Posted, Only
  <2>3. MailStep(Only(d), None, None)
    BY <1>1, <2>1, <2>2, SwapMail
  <2>4. ListStep
    BY <1>2, <1>4, SameLists
  <2>5. DOMAIN data' = DOMAIN data
    BY <1>4 DEF ReadKey
  <2>6. Steps(Only(d), None, None)
    BY <1>2, <2>3, <2>4, <2>5, SameClients DEF Steps
  <2>7. CASE r.op = "READ"
    <3>1. typeOf[d] = "INPUT" /\ buffer # << >>
      BY <1>4, <2>7 DEF AtOnce
    <3>2. Swaps(q, m, m.port, m1)
      <4>1. PICK n : n = m
        OBVIOUS
      <4> HIDE DEF m
      <4>2. Exchanged(q, m, m.port, m1)
        BY <1>1, <2>1, Exchange DEF m
      <4> QED BY <4>2 DEF Exchanged
    <3>3. KeyRead(conns[d][m.conn], buffer, m.port)
      BY <1>3, <1>4, <2>7, <3>2 DEF KeyRead, ReadKey, Swaps
    <3> QED BY <1>1, <1>4, <2>6, <3>1, <3>3 DEF ReadsNow
  <2>8. CASE r.op # "READ"
    <3>1. typeOf[d] # "INPUT"
      BY <1>4, <2>8 DEF AtOnce
    <3> QED BY <1>4, <2>6, <2>8, <3>1 DEF Queues
  <2> QED BY <2>7, <2>8
<1>5. CASE /\ pending[d] # << >> \/ ~AtOnce(d, r)
           /\ pending' = [pending EXCEPT ![d] = Append(pending[d], r)]
           /\ box' = Received(q) /\ UNCHANGED << data, buffer, failed >>
  <2> HIDE DEF r, m1
  <2>1. MailStep(None, None, None)
    BY <1>1, <1>5, TakenMail
  <2>2. RequestsGain(pending', pending, r)
    BY <1>5, RequestAdd DEF OnceInv, ListsFit
  <2>3. \A e \in Driver : e # d => pending'[e] = pending[e]
    BY <1>5 DEF OnceInv, ListsFit
  <2>4. \A e \in Driver : \A x \in ToSet(pending'[e]) : x \in ToSet(pending[e]) \/ Queued(e, x)
    <3>1. Queued(d, r)
      BY <1>1, <1>3 DEF Queued
    <3>2. \A e \in Driver : \A x \in ToSet(pending'[e]) : x \in ToSet(pending[e]) \/ x = r
      BY <2>2 DEF RequestsGain, OnceInv, ListsFit
    <3> QED BY <2>3, <3>1, <3>2
  <2>5. ListStep
    BY <1>2, <1>5, <2>4 DEF ListStep
  <2>6. Steps(None, None, None)
    BY <1>2, <1>5, <2>1, <2>5, SameClients DEF Steps
  <2>7. Queues(d)
    <3>1. typeOf[d] = "INPUT" /\ buffer # << >> => pending[d] # << >> \/ m.op # "READ"
      BY <1>3, <1>5 DEF AtOnce
    <3> QED BY <1>1, <1>5, <2>3, <3>1 DEF Queues
  <2> QED BY <2>6, <2>7
<1>6. CASE /\ Len(pending[d]) = room
           /\ \E p \in IF m.p = Unset THEN Garbage ELSE {m.p} :
                /\ box' = Sent(Received(q), p, Error)
                /\ failed' = failed \cup {[of |-> m.port, to |-> p]}
           /\ UNCHANGED << pending, data, buffer >>
  <2>1. PICK p : /\ box' = Sent(Received(q), p, Error)
                 /\ failed' = failed \cup {[of |-> m.port, to |-> p]}
    BY <1>6
  <2> DEFINE f0 == [of |-> m.port, to |-> p]
  <2>2. f0.of = m.port /\ f0.to = p /\ failed' = failed \cup {f0}
    BY <2>1
  <2> HIDE DEF f0, r, m1
  <2>3. Error.kind = "error" /\ p \in Disturbed'
    BY <2>2 DEF Error, Disturbed
  <2>4. Posted(None, None, p, Error)
    BY <2>3 DEF Posted
  <2>5. MailStep(None, None, None)
    BY <1>1, <2>1, <2>3, <2>4, SwapMail
  <2>6. Refuses(m.port)
    BY <1>1, <1>6 DEF Refuses
  <2>7. ListStep
    BY <1>2, <1>6, <2>2, <2>6 DEF ListStep
  <2> QED BY <1>2, <1>6, <2>5, <2>7, SameClients DEF Steps, Queues
<1>7. \/ /\ AtOnce(d, r) /\ box' = Sent(Received(q), r.port, m1)
         /\ IF r.op = "READ" THEN ReadKey(r, buffer) ELSE UNCHANGED << data, buffer >>
         /\ UNCHANGED << pending, failed >>
      \/ /\ pending[d] # << >> \/ ~AtOnce(d, r)
         /\ pending' = [pending EXCEPT ![d] = Append(pending[d], r)]
         /\ box' = Received(q) /\ UNCHANGED << data, buffer, failed >>
      \/ /\ Len(pending[d]) = room
         /\ \E p \in IF m.p = Unset THEN Garbage ELSE {m.p} :
              /\ box' = Sent(Received(q), p, Error)
              /\ failed' = failed \cup {[of |-> m.port, to |-> p]}
         /\ UNCHANGED << pending, data, buffer >>
  BY DEF HandleRequest
<1> HIDE DEF r, m1, m, q
<1> QED BY <1>4, <1>5, <1>6, <1>7

\* A driver leaves other messages aside.
LEMMA HandleIgnoreSteps ==
    ASSUME OnceInv, NEW d \in Driver, HandleIgnore(d) PROVE Steps(None, None, None)
<1> DEFINE q == LocalPort[d]
<1>1. /\ q \in DOMAIN box /\ box[q] # << >> /\ Head(box[q]).kind # "done" /\ box' = Received(q)
      /\ UNCHANGED << known, waiters, pending, conns, irqPort, failed, client, nextPort, nextShmem >>
      /\ UNCHANGED setting /\ DOMAIN data' = DOMAIN data
  BY Handling DEF HandleIgnore, managerVars, driverVars, keyVars, clientVars
<1> HIDE DEF q
<1> QED BY <1>1, IgnoreSteps

\* The key that a driver takes goes to the buffer, or to a read that waits.
TakesKey(d) ==
    \/ /\ Steps(None, None, None) /\ pending[d] = << >> /\ UNCHANGED << pending, data >>
       /\ buffer' = Append(buffer, byte.key)
    \/ /\ Steps(Only(d), None, None)
       /\ \A e \in Driver : e # d => pending'[e] = pending[e]
       /\ \E r \in ToSet(pending[d]) : KeyRead(r.shmem, Append(buffer, byte.key), r.port)

\* The driver takes the key, for a read that waits or into its buffer.
LEMMA HandleInterruptSteps ==
    ASSUME OnceInv, NEW d \in Driver, HandleInterrupt(d)
    PROVE  /\ TakesKey(d)
           /\ \E m \in ToSet(box[LocalPort[d]]) : m.kind = "irq"
           /\ OneNotice(box[LocalPort[d]]) => NoNotice(box'[LocalPort[d]])
<1> DEFINE q == LocalPort[d]
           m == Head(box[q])
           r == Head(pending[d])
           m1 == Answer(r).msg
<1>1. /\ q \in DOMAIN box /\ box[q] # << >> /\ m.kind = "irq" /\ m \in ToSet(box[q])
  BY Handling DEF HandleInterrupt
<1>2. /\ UNCHANGED << known, waiters, conns, irqPort, failed, client, nextPort, nextShmem >>
      /\ UNCHANGED setting
  BY DEF HandleInterrupt, managerVars, clientVars
<1>3. CASE /\ pending[d] = << >> /\ buffer' = Append(buffer, byte.key) /\ box' = Received(q)
           /\ UNCHANGED << pending, data >>
  <2>1. Steps(None, None, None)
    <3>1. m.kind # "done"
      BY <1>1
    <3> HIDE DEF q
    <3> QED BY <1>1, <1>2, <1>3, <3>1, IgnoreSteps
  <2>2. OneNotice(box[q]) => NoNotice(box'[q])
    <3>1. MessageTaken(box', box, q, m)
      BY <1>1, <1>3, TakeMessage
    <3> QED BY <1>1, <3>1 DEF MessageTaken, Removes
  <2> QED BY <1>1, <1>3, <2>1, <2>2 DEF TakesKey
<1>4. CASE /\ pending[d] # << >> /\ ReadKey(r, Append(buffer, byte.key))
           /\ box' = Sent(Received(q), r.port, m1)
           /\ pending' = [pending EXCEPT ![d] = Tail(pending[d])]
  <2>1. r \in ToSet(pending[d]) /\ ToSet(Tail(pending[d])) \subseteq ToSet(pending[d])
    <3>1. PICK U : pending \in [Driver -> Seq(U)]
      BY DEF OnceInv, ListsFit, Requests, IsFamily
    <3>2. PICK s \in Seq(U) : s = pending[d]
      BY <3>1
    <3> QED BY <1>4, <3>2, PopElements
  <2>2. m1.kind = "done" /\ Owes(d, r.port) /\ m.kind # "done"
    BY <1>1, <2>1 DEF Answer, Owes
  <2> HIDE DEF r, m1
  <2>3. Posted(Only(d), None, r.port, m1)
    BY <2>2 DEF Posted, Only
  <2>4. MailStep(Only(d), None, None)
    <3>1. box' = Sent(Received(q), r.port, m1) /\ m1.kind # "irq"
      BY <1>4, <2>2
    <3> QED BY <1>1, <2>2, <2>3, <3>1, SwapMail
  <2>5. \A e \in Driver : pending'[e] = IF e = d THEN Tail(pending[d]) ELSE pending[e]
    BY <1>4 DEF OnceInv, ListsFit
  <2>6. ListStep
    <3>1. \A e \in Driver : \A x \in ToSet(pending'[e]) : x \in ToSet(pending[e]) \/ Queued(e, x)
      BY <2>1, <2>5
    <3> QED BY <1>2, <3>1 DEF ListStep
  <2>7. DOMAIN data' = DOMAIN data
    BY <1>4 DEF ReadKey
  <2>8. Steps(Only(d), None, None)
    BY <1>2, <2>4, <2>6, <2>7, SameClients DEF Steps
  <2>9. Swaps(q, m, r.port, m1)
    <3>1. Exchanged(q, m, r.port, m1)
      BY <1>1, <1>4, Exchange
    <3> QED BY <3>1 DEF Exchanged
  <2>10. KeyRead(r.shmem, Append(buffer, byte.key), r.port)
    BY <1>4, <2>2, <2>9 DEF KeyRead, ReadKey, Swaps
  <2>11. OneNotice(box[q]) => NoNotice(box'[q])
    BY <1>1, <2>2, <2>9 DEF Swaps
  <2> QED BY <1>1, <2>1, <2>5, <2>8, <2>10, <2>11 DEF TakesKey
<1> QED BY <1>3, <1>4 DEF HandleInterrupt

\* The pseudo terminal finishes what waited for its input.
LEMMA InputSteps ==
    ASSUME OnceInv, NEW d \in Driver, InputAvailable(d) PROVE Steps(Only(d), None, None)
<1>1. /\ UNCHANGED << known, waiters, conns, irqPort, failed, client, nextPort, nextShmem, data >>
      /\ UNCHANGED setting
  BY DEF InputAvailable, managerVars, keyVars, clientVars
<1>2. /\ MailStep(Only(d), None, None)
      /\ \A e \in Driver : ToSet(pending'[e]) \subseteq ToSet(pending[e])
  BY InputAvailableKeeps
<1>3. ListStep
  BY <1>1, <1>2 DEF ListStep
<1> QED BY <1>1, <1>2, <1>3, SameClients DEF Steps

\* A key, which is in no message yet, and its interrupt.
LEMMA KeyPressedSteps == ASSUME OnceInv, KeyPressed PROVE Steps(None, None, None)
<1>1. UNCHANGED << box, known, waiters, pending, conns, irqPort, failed, client, nextPort,
                   nextShmem, data >> /\ UNCHANGED setting
  BY DEF KeyPressed, managerVars, driverVars, clientVars
<1> QED BY <1>1, SameMail, SameLists, SameClients DEF Steps

\* The interrupt is noted on the port of the driver.
LEMMA KeyInterruptSteps ==
    ASSUME OnceInv, KeyInterrupt
    PROVE  Steps(None, None, Only(irqPort)) /\ (NoNotice(box[irqPort]) => OneNotice(box'[irqPort]))
<1> DEFINE m == [kind |-> "irq"]
<1>1. /\ UNCHANGED << known, waiters, pending, conns, irqPort, failed, client, nextPort,
                      nextShmem, data >> /\ UNCHANGED setting
      /\ box' = Sent(box, irqPort, m) /\ m.kind = "irq"
  BY DEF KeyInterrupt, managerVars, driverVars, clientVars
<1> HIDE DEF m
<1>2. Posted(None, Only(irqPort), irqPort, m) /\ irqPort \in Only(irqPort)
  BY <1>1 DEF Posted, Only
<1>3. MailStep(None, None, Only(irqPort))
  BY <1>1, <1>2, SentMail
<1>4. irqPort \in DOMAIN box
  BY AsyncPorts DEF OnceInv, PortsFit, KeyInterrupt
<1>5. Adds(box', box, irqPort, m)
  <2>1. MessageSent(box', box, irqPort, m)
    BY <1>1, PortSend DEF OnceInv, PortsFit
  <2> QED BY <2>1 DEF MessageSent
<1>6. NoNotice(box[irqPort]) => OneNotice(box[irqPort])
  BY DEF NoNotice, OneNotice, ToSet
<1> QED BY <1>1, <1>3, <1>4, <1>5, <1>6, SameLists, SameClients DEF Steps, Adds

\* A client looks for its device, and opens it.
LEMMA LookupSteps ==
    ASSUME OnceInv, NEW c \in Client, Lookup(c) PROVE Steps(None, None, None)
<1>1. PICK w \in BOOLEAN :
        Asked(ManagerPort, [kind |-> "lookup", type |-> wants[c], wait |-> w, port |-> nextPort])
  BY DEF Lookup
<1> DEFINE m == [kind |-> "lookup", type |-> wants[c], wait |-> w, port |-> nextPort]
           new == [pc |-> "lookup", reply |-> nextPort]
<1>2. /\ client[c].pc = "idle" /\ client' = [client EXCEPT ![c] = new]
      /\ UNCHANGED << known, waiters, pending, conns, irqPort, failed, nextShmem, data >>
      /\ UNCHANGED setting
  BY DEF Lookup, managerVars, driverVars, keyVars
<1>3. /\ m.kind = "lookup" /\ m.port = nextPort /\ m.type = wants[c]
      /\ new.pc = "lookup" /\ new.reply = nextPort
  OBVIOUS
<1>4. Asked(ManagerPort, m)
  BY <1>1
<1> HIDE DEF m, new
<1>5. client'[c] = new
  BY <1>2 DEF OnceInv, ClientsFit
<1>6. nextPort' = nextPort + 1
  BY <1>4 DEF Asked
<1>7. Posted(None, None, ManagerPort, m)
  BY <1>3, <1>5 DEF Posted, LooksUp
<1>8. MailStep(None, None, None)
  BY <1>3, <1>4, <1>7, AskedMail
<1>9. ClientStep
  <2>1. Moves(c)
    BY <1>2, <1>3, <1>5, <1>6 DEF Moves
  <2> QED BY <1>2, <1>6, <2>1, OneMoves
<1> QED BY <1>2, <1>8, <1>9, SameLists DEF Steps

\* A client asks the driver for a connection.
LEMMA OpenSteps ==
    ASSUME OnceInv, NEW c \in Client, Open(c)
    PROVE  /\ Steps(None, None, None)
           /\ \A s \in DOMAIN data : s # nextShmem => data'[s] = data[s]
<1> DEFINE m == [kind |-> "open", id |-> client[c].id, shmem |-> nextShmem, port |-> nextPort]
           new == [pc |-> "opening", port |-> client[c].port, shmem |-> nextShmem,
                   reply |-> nextPort]
           q == client[c].port
<1>1. /\ client[c].pc = "found" /\ client' = [client EXCEPT ![c] = new] /\ Asked(q, m)
      /\ UNCHANGED << known, waiters, pending, conns, irqPort, failed >> /\ UNCHANGED setting
      /\ nextShmem' = nextShmem + 1
      /\ DOMAIN data' = DOMAIN data \cup {nextShmem}
      /\ \A s \in DOMAIN data : s # nextShmem => data'[s] = data[s]
  BY DEF Open, managerVars, driverVars, keyVars
<1>2. /\ m.kind = "open" /\ m.port = nextPort /\ m.shmem = nextShmem
      /\ new.pc = "opening" /\ new.reply = nextPort /\ new.port = q /\ new.shmem = nextShmem
  OBVIOUS
<1> HIDE DEF m, new
<1>3. client'[c] = new
  BY <1>1 DEF OnceInv, ClientsFit
<1>4. nextPort' = nextPort + 1
  BY <1>1 DEF Asked
<1>5. Posted(None, None, q, m)
  BY <1>2, <1>3 DEF Posted, Opens
<1>6. MailStep(None, None, None)
  BY <1>1, <1>2, <1>5, AskedMail
<1>7. ClientStep
  <2>1. Moves(c)
    BY <1>1, <1>2, <1>3, <1>4 DEF Moves
  <2> QED BY <1>1, <1>4, <2>1, OneMoves
<1> QED BY <1>1, <1>6, <1>7, SameLists DEF Steps

\* An answer is on the port where the client waits.
LEMMA Answering ==
    ASSUME OnceInv, NEW c \in Client, HasReply(c), Answered(c), NEW q, q = client[c].reply,
           NEW m, m = Head(box[q])
    PROVE  q \in DOMAIN box /\ q \notin Locals /\ box[q] # << >> /\ m \in ToSet(box[q])
<1>1. q \in DOMAIN box /\ q \notin Locals /\ box[q] # << >>
  BY DEF Answered, OnceInv, ClientsFit
<1>2. PICK rest : rest = Received(q)
  OBVIOUS
<1> QED BY <1>1, <1>2, TakeMessage DEF MessageTaken

\* A client takes the answer to its look-up.
LEMMA LookupAnsweredSteps ==
    ASSUME OnceInv, NEW c \in Client, LookupAnswered(c)
    PROVE  Steps(None, Only(client[c].reply), None)
<1> DEFINE q == client[c].reply
           m == Head(box[q])
<1>1. client[c].pc = "lookup" /\ HasReply(c) /\ Answered(c)
  BY DEF LookupAnswered, HasReply, Waiting
<1>2. m \in ToSet(box[q]) /\ q \in Only(q)
  BY <1>1, Answering DEF Only
<1>3. PICK new : /\ client' = [client EXCEPT ![c] = new] /\ new.pc \in {"found", "idle"}
                 /\ new.pc = "found" => m.kind = "found" /\ new.port = m.port
  <2> DEFINE new == IF m.kind = "found" THEN [pc |-> "found", port |-> m.port, id |-> m.id]
                                        ELSE [pc |-> "idle"]
  <2>1. client' = [client EXCEPT ![c] = new]
    BY DEF LookupAnswered
  <2>2. new.pc = (IF m.kind = "found" THEN "found" ELSE "idle") /\ (m.kind = "found" => new.port = m.port)
    OBVIOUS
  <2> HIDE DEF new
  <2> QED BY <2>1, <2>2
<1>4. /\ UNCHANGED << known, waiters, pending, conns, irqPort, failed, nextPort, nextShmem, data >>
      /\ UNCHANGED setting /\ box' = Without(q)
  BY DEF LookupAnswered, managerVars, driverVars, keyVars
<1>5. client'[c] = new
  BY <1>3 DEF OnceInv, ClientsFit
<1>6. ClientStep
  <2>1. Moves(c)
    BY <1>1, <1>2, <1>3, <1>5 DEF Moves
  <2> QED BY <1>3, <1>4, <2>1, OneMoves
<1>7. MailStep(None, Only(q), None)
  <2> HIDE DEF q
  <2> QED BY <1>2, <1>4, DropMail
<1> QED BY <1>4, <1>6, <1>7, SameLists DEF Steps

\* A client takes the answer to its call to open.
LEMMA OpenAnsweredSteps ==
    ASSUME OnceInv, NEW c \in Client, OpenAnswered(c)
    PROVE  Steps(None, Only(client[c].reply), None)
<1> DEFINE q == client[c].reply
           m == Head(box[q])
<1>1. client[c].pc = "opening" /\ HasReply(c) /\ Answered(c)
  BY DEF OpenAnswered, HasReply, Waiting
<1>2. m \in ToSet(box[q]) /\ q \in Only(q) /\ q \in DOMAIN box /\ box[q] # << >>
  BY <1>1, Answering DEF Only
<1>3. /\ UNCHANGED << known, waiters, pending, conns, irqPort, failed, nextPort, nextShmem, data >>
      /\ UNCHANGED setting
  BY DEF OpenAnswered, managerVars, driverVars, keyVars
<1>4. CASE m.kind = "opened"
  <2> DEFINE new == [pc |-> "open", port |-> client[c].port, conn |-> m.conn,
                     shmem |-> client[c].shmem, reply |-> q]
  <2>1. client' = [client EXCEPT ![c] = new] /\ box' = Received(q)
    BY <1>4 DEF OpenAnswered
  <2>2. /\ new.pc = "open" /\ new.port = client[c].port /\ new.conn = m.conn
        /\ new.shmem = client[c].shmem /\ new.reply = client[c].reply
    OBVIOUS
  <2> HIDE DEF new
  <2>3. client'[c] = new
    BY <2>1 DEF OnceInv, ClientsFit
  <2>4. Moves(c)
    BY <1>1, <1>2, <1>4, <2>2, <2>3 DEF Moves
  <2>5. MailStep(None, Only(q), None)
    <3> HIDE DEF q
    <3> QED BY <1>2, <2>1, TakenMail
  <2> QED BY <1>3, <2>1, <2>4, <2>5, OneMoves, SameLists DEF Steps
<1>5. CASE m.kind # "opened"
  <2> DEFINE new == [pc |-> "idle"]
  <2>1. client' = [client EXCEPT ![c] = new] /\ box' = Without(q) /\ new.pc = "idle"
    BY <1>5 DEF OpenAnswered
  <2> HIDE DEF new
  <2>2. client'[c] = new
    BY <2>1 DEF OnceInv, ClientsFit
  <2>3. Moves(c)
    BY <1>1, <2>1, <2>2 DEF Moves
  <2>4. MailStep(None, Only(q), None)
    <3> HIDE DEF q
    <3> QED BY <1>2, <2>1, DropMail
  <2> QED BY <1>3, <2>1, <2>3, <2>4, OneMoves, SameLists DEF Steps
<1> QED BY <1>4, <1>5

\* A client sends a request, and takes what arrives for the answer.
LEMMA SendRequestSteps ==
    ASSUME OnceInv, NEW c \in Client, SendRequest(c) PROVE Steps(None, None, None)
<1>1. PICK op \in Uses(wants[c]) :
        box' = Sent(box, client[c].port, Requested(c, op, client[c].reply, Unset))
  BY DEF SendRequest
<1> DEFINE m == Requested(c, op, client[c].reply, Unset)
<1>2. /\ m.kind = "request" /\ m.op = op /\ m.conn = client[c].conn /\ m.port = client[c].reply
      /\ box' = Sent(box, client[c].port, m)
  BY <1>1 DEF Requested
<1>3. /\ c \in SyncClient /\ client[c].pc = "open" /\ client' = [client EXCEPT ![c].pc = "waiting"]
      /\ UNCHANGED << known, waiters, pending, conns, irqPort, failed, nextPort, nextShmem, data >>
      /\ UNCHANGED setting
  BY DEF SendRequest, managerVars, driverVars, keyVars
<1> HIDE DEF m
<1>4. Requesting(client[c].port, m)
  BY <1>1, <1>2, <1>3 DEF Requesting, Asker, Bound, AskPort, Uses
<1>5. Posted(None, None, client[c].port, m)
  BY <1>4 DEF Posted
<1>6. MailStep(None, None, None)
  BY <1>2, <1>5, SentMail
<1>7. ClientStep
  <2>1. PICK new : new = [client[c] EXCEPT !.pc = "waiting"]
    OBVIOUS
  <2>2. client' = [client EXCEPT ![c] = new]
    BY <1>3, <2>1
  <2>3. client'[c] = new
    BY <2>2 DEF OnceInv, ClientsFit
  <2>4. new.pc = "waiting" /\ new.port = client[c].port /\ new.reply = client[c].reply
        /\ new.shmem = client[c].shmem /\ new.conn = client[c].conn
    BY <2>1
  <2>5. Moves(c)
    BY <1>3, <2>3, <2>4 DEF Moves, Bound
  <2> QED BY <1>3, <2>2, <2>5, OneMoves
<1> QED BY <1>3, <1>6, <1>7, SameLists DEF Steps

\* A client takes the answer to its request.
LEMMA RequestAnsweredSteps ==
    ASSUME OnceInv, NEW c \in Client, RequestAnswered(c)
    PROVE  Steps(None, Only(client[c].reply), None)
<1> DEFINE q == client[c].reply
<1>1. client[c].pc = "waiting" /\ HasReply(c) /\ Answered(c)
  BY DEF RequestAnswered, HasReply, Waiting
<1>2. q \in Only(q) /\ q \in DOMAIN box /\ box[q] # << >>
  BY <1>1, Answering DEF Only
<1>3. /\ UNCHANGED << known, waiters, pending, conns, irqPort, failed, nextPort, nextShmem, data >>
      /\ UNCHANGED setting /\ box' = Received(q) /\ client' = [client EXCEPT ![c].pc = "open"]
  BY DEF RequestAnswered, managerVars, driverVars, keyVars
<1>4. ClientStep
  <2>1. PICK new : new = [client[c] EXCEPT !.pc = "open"]
    OBVIOUS
  <2>2. client' = [client EXCEPT ![c] = new]
    BY <1>3, <2>1
  <2>3. client'[c] = new
    BY <2>2 DEF OnceInv, ClientsFit
  <2>4. new.pc = "open" /\ new.port = client[c].port /\ new.reply = client[c].reply
        /\ new.shmem = client[c].shmem /\ new.conn = client[c].conn
    BY <2>1
  <2>5. Moves(c)
    BY <1>1, <2>3, <2>4 DEF Moves, Bound
  <2> QED BY <1>3, <2>2, <2>5, OneMoves
<1>5. MailStep(None, Only(q), None)
  <2> HIDE DEF q
  <2> QED BY <1>2, <1>3, TakenMail
<1> QED BY <1>3, <1>4, <1>5, SameLists DEF Steps

\* What an asynchronous client asks for.
LEMMA AsyncRequest ==
    ASSUME NEW c \in AsyncClient, Bound(client, c), NEW m,
           m = Requested(c, "READ", LocalPort[c], c)
    PROVE  m.kind = "request" /\ Posted(None, None, client[c].port, m)
<1>1. /\ m.kind = "request" /\ m.op = "READ" /\ m.conn = client[c].conn /\ m.port = LocalPort[c]
  BY DEF Requested
<1>2. c \in Client /\ AskPort(client, c) = LocalPort[c]
  BY DeviceAssumption DEF Client, AskPort
<1>3. Requesting(client[c].port, m)
  BY <1>1, <1>2 DEF Requesting, Asker
<1> QED BY <1>1, <1>3 DEF Posted

\* An asynchronous client sends a read or queues it.
LEMMA ReadAsyncSteps ==
    ASSUME OnceInv, NEW c \in Client, ReadAsync(c) PROVE Steps(None, None, None)
<1>1. /\ UNCHANGED << known, waiters, pending, conns, irqPort, failed, nextPort, nextShmem, data,
                      client >>
      /\ UNCHANGED setting /\ c \in AsyncClient /\ Bound(client, c)
  BY DEF ReadAsync, managerVars, driverVars, keyVars, Bound
<1>2. PICK m : m = Requested(c, "READ", LocalPort[c], c)
  OBVIOUS
<1>3. MailStep(None, None, None)
  <2>1. CASE box' = box
    BY <2>1, SameMail
  <2>2. CASE box' = Sent(box, client[c].port, m)
    <3>1. m.kind = "request" /\ Posted(None, None, client[c].port, m)
      BY <1>1, <1>2, AsyncRequest
    <3> QED BY <2>2, <3>1, SentMail
  <2> QED BY <1>2, <2>1, <2>2 DEF ReadAsync
<1> QED BY <1>1, <1>3, SameLists, SameClients DEF Steps

\* An answer on the port of an asynchronous client is for it.
LEMMA Completing ==
    ASSUME OnceInv, NEW c \in AsyncClient, NEW m \in ToSet(box[LocalPort[c]]), m.kind = "done"
    PROVE  Bound(client, c)
<1>1. LocalPort[c] \in DOMAIN box /\ LocalPort[c] \in Locals
  BY AsyncPorts DEF OnceInv, PortsFit
<1>2. Sensible(nextPort, client, LocalPort[c], m)
  BY <1>1 DEF OnceInv, MailFits
<1>3. Token(nextPort, client, LocalPort[c])
  BY <1>1, <1>2 DEF Sensible, AnswerKinds
<1> QED BY <1>1, <1>3, AsyncPorts DEF Token, Bound

\* An answered read is taken and the next one sent.
LEMMA CompleteSteps ==
    ASSUME OnceInv, NEW c \in Client, Complete(c)
    PROVE  Steps(None, Only(LocalPort[c]), None)
<1> DEFINE q == LocalPort[c]
<1>1. /\ UNCHANGED << known, waiters, pending, conns, irqPort, failed, nextPort, nextShmem, data,
                      client >>
      /\ UNCHANGED setting /\ c \in AsyncClient /\ q \in Only(q)
  BY DEF Complete, managerVars, driverVars, keyVars, Only
<1>2. q \in DOMAIN box /\ box[q] # << >> /\ Head(box[q]).kind = "done"
  BY DEF Complete, Arrived
<1>3. Head(box[q]) \in ToSet(box[q])
  <2>1. PICK rest : rest = Received(q)
    OBVIOUS
  <2> QED BY <1>2, <2>1, TakeMessage DEF MessageTaken
<1>4. Bound(client, c)
  BY <1>1, <1>2, <1>3, Completing
<1>5. PICK m : m = Requested(c, "READ", LocalPort[c], c)
  OBVIOUS
<1>6. m.kind = "request" /\ Posted(None, None, client[c].port, m)
  BY <1>1, <1>4, <1>5, AsyncRequest
<1>7. box' = Sent(Received(q), client[c].port, m)
  BY <1>5 DEF Complete
<1>8. MailStep(None, Only(q), None)
  <2>1. q \in Only(q) /\ m.kind # "irq"
    BY <1>1, <1>6
  <2> HIDE DEF q
  <2> QED BY <1>2, <1>6, <1>7, <2>1, SwapMail
<1> QED BY <1>1, <1>8, SameLists, SameClients DEF Steps

\* An asynchronous client leaves other messages aside.
LEMMA AsyncIgnoreSteps ==
    ASSUME OnceInv, NEW c \in Client, AsyncIgnore(c) PROVE Steps(None, None, None)
<1> DEFINE q == LocalPort[c]
<1>1. /\ q \in DOMAIN box /\ box[q] # << >> /\ Head(box[q]).kind # "done" /\ box' = Received(q)
      /\ UNCHANGED << known, waiters, pending, conns, irqPort, failed, client, nextPort, nextShmem >>
      /\ UNCHANGED setting /\ DOMAIN data' = DOMAIN data
  BY DEF AsyncIgnore, Arrived, managerVars, driverVars, keyVars, clientVars
<1> HIDE DEF q
<1> QED BY <1>1, IgnoreSteps

-----------------------------------------------------------------------------
(* Devices: who gets the keys *)

\* The port created next is in no message, and nobody waits on it.
LEMMA Fresh ==
    ASSUME OnceInv
    PROVE  /\ nextPort \notin DOMAIN box /\ nextPort \notin Locals
           /\ \A q \in DOMAIN box : \A m \in ToSet(box[q]) : m.kind \in Asking => m.port # nextPort
           /\ \A y \in Type : \A p \in ToSet(waiters[y]) : p # nextPort
           /\ \A y \in Type : \A p : LookedUp(y, p) => p # nextPort
           /\ \A c \in Client : HasReply(c) => client[c].reply # nextPort
<1>1. nextPort \notin DOMAIN box /\ nextPort \notin Locals /\ ManagerPort \in DOMAIN box
      /\ \A p : Token(nextPort, client, p) => p # nextPort
  BY DEF OnceInv, PortsFit, Token
<1>2. \A q \in DOMAIN box : \A m \in ToSet(box[q]) : m.kind \in Asking => m.port # nextPort
  BY <1>1 DEF OnceInv, MailFits, Sensible
<1>3. \A y \in Type : \A p \in ToSet(waiters[y]) : p # nextPort
  BY <1>1 DEF OnceInv, ListsFit
<1>4. \A y \in Type : \A p : LookedUp(y, p) => p # nextPort
  BY <1>1, <1>2 DEF LookedUp, Asking
<1> QED BY <1>1, <1>2, <1>3, <1>4 DEF OnceInv, ClientsFit

\* What becomes of a client, by what it was.
LEMMA Moving ==
    ASSUME ClientStep, NEW c \in Client
    PROVE  /\ \A p : LooksUp(client', c, p) => p = nextPort \/ LooksUp(client, c, p)
           /\ \A p : Opens(client', c, p) =>
                \/ p = nextPort
                \/ Opens(client, c, p) /\ client'[c] = client[c]
           /\ Bound(client, c) =>
                /\ Bound(client', c) /\ client'[c].port = client[c].port
                /\ client'[c].reply = client[c].reply /\ client'[c].shmem = client[c].shmem
                /\ client'[c].conn = client[c].conn
           /\ Bound(client', c) /\ ~Bound(client, c) =>
                /\ client[c].pc = "opening" /\ client'[c].pc = "open"
                /\ client'[c].port = client[c].port
                /\ client'[c].reply = client[c].reply /\ client'[c].shmem = client[c].shmem
                /\ \E m \in ToSet(box[client[c].reply]) : m.kind = "opened" /\ client'[c].conn = m.conn
<1>1. client'[c] = client[c] \/ Moves(c)
  BY DEF ClientStep
<1> QED BY <1>1 DEF Moves, LooksUp, Opens, Bound

\* Devices are of the type that is looked for.
SuitsMail(clients, q, m) ==
    /\ m.kind = "announce" => m.port \in PortsOf(m.type)
    /\ m.kind = "lookup" => \A c \in Client : LooksUp(clients, c, m.port) => m.type = wants[c]
    /\ m.kind = "found" => \A c \in Client : LooksUp(clients, c, q) => m.port \in PortsOf(wants[c])

HasDevice(clients, c) == clients[c].pc \in {"found", "opening", "open", "waiting"}

\* Announcements, the manager's lists and answers lead a client to a device of its type.
Suiting ==
    /\ \A q \in DOMAIN box : \A m \in ToSet(box[q]) : SuitsMail(client, q, m)
    /\ \A y \in Type : \A x \in ToSet(known[y]) : x.port \in PortsOf(y)
    /\ \A y \in Type : \A p \in ToSet(waiters[y]) :
         \A c \in Client : LooksUp(client, c, p) => y = wants[c]
    /\ \A c \in Client : HasDevice(client, c) => client[c].port \in PortsOf(wants[c])

\* Every step keeps that.
LEMMA SuitingStep ==
    ASSUME OnceInv, OnceInv', Suiting, NEW D, NEW T, NEW I, Steps(D, T, I)
    PROVE  Suiting'
<1>1. MailStep(D, T, I) /\ ListStep /\ ClientStep
  BY DEF Steps
<1>2. wants' = wants /\ \A y : PortsOf(y)' = PortsOf(y)
  BY <1>1 DEF ListStep, setting, PortsOf
<1>3. ManagerPort \in DOMAIN box
  BY DEF OnceInv, PortsFit
<1>4. /\ \A y \in Type : \A p : Announced(y, p) => p \in PortsOf(y)
      /\ \A y \in Type : \A p : LookedUp(y, p) =>
           \A c \in Client : LooksUp(client, c, p) => y = wants[c]
  BY <1>3 DEF Suiting, SuitsMail, Announced, LookedUp
<1>5. \A c \in Client : \A p : LooksUp(client', c, p) /\ p # nextPort => LooksUp(client, c, p)
  BY <1>1, Moving
<1>6. \A y \in Type : \A x \in ToSet(known'[y]) : x.port \in PortsOf(y)
  BY <1>1, <1>4 DEF ListStep, Suiting
<1>7. \A y \in Type : \A p \in ToSet(waiters'[y]) :
        \A c \in Client : LooksUp(client', c, p) => y = wants[c]
  BY <1>1, <1>4, <1>5, Fresh DEF ListStep, Suiting
<1>8. ASSUME NEW c \in Client, HasDevice(client', c)
      PROVE  client'[c].port \in PortsOf(wants[c])
  <2>1. client'[c] = client[c] \/ Moves(c)
    BY <1>1 DEF ClientStep
  <2>2. CASE HasDevice(client, c)
    BY <1>8, <2>1, <2>2 DEF Moves, Suiting, HasDevice, Bound
  <2>3. CASE ~HasDevice(client, c)
    <3>1. client[c].pc = "lookup"
          /\ \E m \in ToSet(box[client[c].reply]) : m.kind = "found" /\ client'[c].port = m.port
      BY <1>8, <2>1, <2>3 DEF Moves, HasDevice, Bound
    <3>2. client[c].reply \in DOMAIN box /\ LooksUp(client, c, client[c].reply)
      BY <3>1 DEF OnceInv, ClientsFit, HasReply, Waiting, LooksUp
    <3> QED BY <3>1, <3>2 DEF Suiting, SuitsMail
  <2> QED BY <2>2, <2>3
<1>9. ASSUME NEW k \in DOMAIN box', NEW m \in ToSet(box'[k])
      PROVE  /\ m.kind = "announce" => m.port \in PortsOf(m.type)
             /\ m.kind = "lookup" => \A c \in Client : LooksUp(client', c, m.port) => m.type = wants[c]
             /\ m.kind = "found" => \A c \in Client : LooksUp(client', c, k) => m.port \in PortsOf(wants[c])
  <2>1. CASE k \in DOMAIN box /\ m \in ToSet(box[k])
    BY <1>5, <2>1, Fresh DEF Suiting, SuitsMail, Asking
  <2>2. CASE Posted(D, I, k, m)
    <3>1. m.kind = "announce" => m.port \in PortsOf(m.type)
      BY <2>2 DEF Posted, Requesting, Told
    <3>2. ASSUME m.kind = "lookup", NEW c \in Client, LooksUp(client', c, m.port)
          PROVE  m.type = wants[c]
      <4>1. m.port = nextPort /\ \E e \in Client : LooksUp(client', e, nextPort) /\ m.type = wants[e]
        BY <2>2, <3>2 DEF Posted, Requesting, Told
      <4>2. PICK e \in Client : LooksUp(client', e, nextPort) /\ m.type = wants[e]
        BY <4>1
      <4>3. e = c
        BY <3>2, <4>1, <4>2 DEF OnceInv, ClientsFit, LooksUp, HasReply, Waiting
      <4> QED BY <4>2, <4>3
    <3>3. ASSUME m.kind = "found", NEW c \in Client, LooksUp(client', c, k)
          PROVE  m.port \in PortsOf(wants[c])
      <4>1. Told(k, m)
        BY <2>2, <3>3 DEF Posted, Requesting
      <4> QED BY <1>4, <1>5, <3>3, <4>1, Fresh DEF Told, Suiting
    <3> QED BY <3>1, <3>2, <3>3
  <2> QED BY <1>1, <2>1, <2>2 DEF MailStep
<1> QED BY <1>2, <1>6, <1>7, <1>8, <1>9 DEF Suiting, SuitsMail

\* The regions of the clients are their own, and the keyboard has one user.
HasRegion(clients, c) == clients[c].pc \in {"opening", "open", "waiting"}
Single(l, s) == l = << s >>
ConnectedAs(clients, c, n) ==
    n = 1 /\ \A d \in Driver : LocalPort[d] = clients[c].port => Single(conns[d], clients[c].shmem)

ConnectsMail(clients, q, m) ==
    /\ m.kind = "open" =>
         /\ m.port \notin Locals
         /\ \A c \in Client : Opens(clients, c, m.port) =>
              m.shmem = clients[c].shmem /\ q = clients[c].port
    /\ m.kind = "opened" =>
         \A c \in Client : Opens(clients, c, q) /\ wants[c] = "INPUT" => ConnectedAs(clients, c, m.conn)

\* No two clients share a region; the keyboard has one connection, its reader's.
Connected ==
    /\ nextShmem \in Nat /\ \A s \in DOMAIN data : s \in Nat /\ s < nextShmem
    /\ DOMAIN conns = Driver /\ irqPort \in {NoPort} \cup PortsOf("INPUT")
    /\ \A d \in Driver : typeOf[d] = "INPUT" => conns[d] = << >> \/ irqPort = LocalPort[d]
    /\ \A c \in Client : HasRegion(client, c) => client[c].shmem \in DOMAIN data
    /\ \A c, e \in Client :
         c # e /\ HasRegion(client, c) /\ HasRegion(client, e) => client[c].shmem # client[e].shmem
    /\ \A q \in DOMAIN box : \A m \in ToSet(box[q]) : ConnectsMail(client, q, m)
    /\ \A c \in Client :
         Bound(client, c) /\ wants[c] = "INPUT" => ConnectedAs(client, c, client[c].conn)

\* A driver's port is its own.
LEMMA DriverOfPort ==
    ASSUME OnceInv
    PROVE  /\ \A d, e \in Driver : LocalPort[d] = LocalPort[e] => d = e
           /\ \A d \in Driver : \A y : LocalPort[d] \in PortsOf(y) => typeOf[d] = y
           /\ \A d \in Driver : LocalPort[d] # NoPort
<1>1. \A d, e \in Driver : LocalPort[d] = LocalPort[e] => d = e
  BY DeviceAssumption DEF IsInjective
<1>2. \A d \in Driver : LocalPort[d] # NoPort
  BY AsyncPorts DEF NoPort
<1> QED BY <1>1, <1>2 DEF PortsOf

\* Nobody else is connected to the keyboard that one has opened.
LEMMA ConnectedStays ==
    ASSUME OnceInv, Suiting, Connected, ListStep, NEW c \in Client, HasDevice(client, c),
           wants[c] = "INPUT", NEW n, ConnectedAs(client, c, n)
    PROVE  \A d \in Driver : LocalPort[d] = client[c].port => Single(conns'[d], client[c].shmem)
<1> SUFFICES ASSUME NEW d \in Driver, LocalPort[d] = client[c].port
             PROVE  Single(conns'[d], client[c].shmem)
  OBVIOUS
<1>1. Single(conns[d], client[c].shmem) /\ conns[d] # << >>
  <2>1. Single(conns[d], client[c].shmem)
    BY DEF ConnectedAs
  <2> QED BY <2>1 DEF Single
<1>2. typeOf[d] = "INPUT" /\ irqPort = LocalPort[d] /\ irqPort # NoPort
  BY <1>1, DriverOfPort DEF Suiting, Connected
<1>3. ASSUME NEW e \in Driver, NEW o, Accepts(e, o)
      PROVE  conns'[d] = conns[d]
  <2>1. e # d
    BY <1>2, <1>3 DEF Accepts, CanOpen
  <2> QED BY <1>3, <2>1 DEF Accepts, Connected
<1>4. conns'[d] = conns[d]
  BY <1>3 DEF ListStep
<1> QED BY <1>1, <1>4

\* Every step keeps that, too.
LEMMA ConnectedStep ==
    ASSUME OnceInv, OnceInv', Suiting, Suiting', Connected, NEW D, NEW T, NEW I, Steps(D, T, I)
    PROVE  Connected'
<1>1. MailStep(D, T, I) /\ ListStep /\ ClientStep
  BY DEF Steps
<1>2. wants' = wants /\ typeOf' = typeOf /\ PortsOf("INPUT")' = PortsOf("INPUT")
  BY <1>1 DEF ListStep, setting, PortsOf
<1>3. /\ nextShmem' \in Nat /\ \A s \in DOMAIN data' : s \in Nat /\ s < nextShmem'
      /\ DOMAIN data \subseteq DOMAIN data' /\ nextShmem \notin DOMAIN data
  BY <1>1 DEF ClientStep, Connected
<1>4. /\ DOMAIN conns' = Driver /\ irqPort' \in {NoPort} \cup PortsOf("INPUT")
      /\ \A d \in Driver : typeOf[d] = "INPUT" => conns'[d] = << >> \/ irqPort' = LocalPort[d]
  <2>1. CASE conns' = conns /\ irqPort' = irqPort
    BY <2>1 DEF Connected
  <2>2. ASSUME NEW e \in Driver, NEW o, Accepts(e, o)
        PROVE  /\ DOMAIN conns' = Driver /\ irqPort' \in {NoPort} \cup PortsOf("INPUT")
               /\ \A d \in Driver : typeOf[d] = "INPUT" => conns'[d] = << >> \/ irqPort' = LocalPort[d]
    <3>1. DOMAIN conns' = Driver /\ \A d \in Driver : d # e => conns'[d] = conns[d]
      BY <2>2 DEF Accepts, Connected
    <3>2. irqPort' = IF typeOf[e] = "INPUT" THEN LocalPort[e] ELSE irqPort
      BY <2>2 DEF Accepts
    <3>3. typeOf[e] = "INPUT" => irqPort = NoPort
      BY <2>2 DEF Accepts, CanOpen
    <3>4. irqPort' \in {NoPort} \cup PortsOf("INPUT")
      BY <3>2 DEF PortsOf, Connected
    <3>5. ASSUME NEW d \in Driver, typeOf[d] = "INPUT"
          PROVE  conns'[d] = << >> \/ irqPort' = LocalPort[d]
      <4>1. CASE d = e
        BY <3>2, <3>5, <4>1
      <4>2. CASE d # e
        BY <3>1, <3>2, <3>3, <3>5, <4>2, DriverOfPort DEF Connected
      <4> QED BY <4>1, <4>2
    <3> QED BY <3>1, <3>4, <3>5
  <2> QED BY <1>1, <2>1, <2>2 DEF ListStep
<1>5. \A c \in Client : HasRegion(client', c) =>
        \/ HasRegion(client, c) /\ client'[c].shmem = client[c].shmem
        \/ /\ client'[c].shmem = nextShmem /\ nextShmem' = nextShmem + 1 /\ ~HasRegion(client, c)
           /\ \A e \in Client : e # c => client'[e] = client[e]
  <2> SUFFICES ASSUME NEW c \in Client, HasRegion(client', c), ~HasRegion(client, c)
                      \/ client'[c].shmem # client[c].shmem
               PROVE  /\ client'[c].shmem = nextShmem /\ nextShmem' = nextShmem + 1
                      /\ ~HasRegion(client, c)
                      /\ \A e \in Client : e # c => client'[e] = client[e]
    OBVIOUS
  <2>1. client'[c] # client[c]
    BY DEF HasRegion
  <2>2. Moves(c) /\ \A e \in Client : e # c => client'[e] = client[e]
    BY <1>1, <2>1 DEF ClientStep
  <2> QED BY <2>2 DEF Moves, HasRegion, Bound
<1>6. ASSUME NEW c \in Client, HasRegion(client', c) PROVE client'[c].shmem \in DOMAIN data'
  <2>1. nextShmem' = nextShmem + 1 => nextShmem \in DOMAIN data'
    BY <1>1 DEF ClientStep, Connected
  <2> QED BY <1>3, <1>5, <1>6, <2>1 DEF Connected
<1>7. ASSUME NEW c \in Client, NEW e \in Client, c # e, HasRegion(client', c), HasRegion(client', e)
      PROVE  client'[c].shmem # client'[e].shmem
  <2>1. CASE HasRegion(client, c) /\ client'[c].shmem = client[c].shmem
             /\ HasRegion(client, e) /\ client'[e].shmem = client[e].shmem
    BY <1>7, <2>1 DEF Connected
  <2>2. ASSUME NEW x \in Client, NEW y \in Client, x # y, HasRegion(client', x), HasRegion(client', y),
               client'[x].shmem = nextShmem, \A z \in Client : z # x => client'[z] = client[z]
        PROVE  client'[x].shmem # client'[y].shmem
    <3>1. HasRegion(client, y) /\ client'[y].shmem = client[y].shmem
      BY <2>2 DEF HasRegion
    <3> QED BY <1>3, <2>2, <3>1 DEF Connected
  <2> QED BY <1>5, <1>7, <2>1, <2>2
<1>8. ASSUME NEW c \in Client, HasDevice(client, c), wants[c] = "INPUT", NEW n,
             ConnectedAs(client, c, n)
      PROVE  n = 1 /\ \A d \in Driver : LocalPort[d] = client[c].port => Single(conns'[d], client[c].shmem)
  BY <1>1, <1>8, ConnectedStays DEF ConnectedAs
<1>9. \A c \in Client : \A p : Opens(client', c, p) =>
        p = nextPort \/ (Opens(client, c, p) /\ client'[c] = client[c] /\ HasDevice(client, c))
  BY <1>1, Moving DEF Opens, HasDevice
<1>10. ASSUME NEW k \in DOMAIN box', NEW m \in ToSet(box'[k])
       PROVE  ConnectsMail(client, k, m)'
  <2>1. CASE k \in DOMAIN box /\ m \in ToSet(box[k])
    <3>1. m.kind = "open" => m.port # nextPort
      BY <2>1, Fresh DEF Asking
    <3>2. k # nextPort
      BY <2>1, Fresh
    <3>3. ConnectsMail(client, k, m)
      BY <2>1 DEF Connected
    <3>4. ASSUME m.kind = "opened", NEW c \in Client, Opens(client', c, k), wants[c] = "INPUT"
          PROVE  ConnectedAs(client, c, m.conn)'
      <4>1. Opens(client, c, k) /\ client'[c] = client[c] /\ HasDevice(client, c)
        BY <1>9, <3>2, <3>4
      <4>2. ConnectedAs(client, c, m.conn)
        BY <3>3, <3>4, <4>1 DEF ConnectsMail
      <4> QED BY <1>8, <3>4, <4>1, <4>2 DEF ConnectedAs
    <3> QED BY <1>2, <1>9, <3>1, <3>3, <3>4 DEF ConnectsMail
  <2>2. CASE Posted(D, I, k, m)
    <3>1. ASSUME m.kind = "open"
          PROVE  /\ m.port \notin Locals
                 /\ \A c \in Client : Opens(client', c, m.port) =>
                      m.shmem = client'[c].shmem /\ k = client'[c].port
      <4>1. PICK e \in Client : /\ m.port = nextPort /\ Opens(client', e, nextPort)
                                /\ k = client'[e].port /\ m.shmem = client'[e].shmem
        BY <2>2, <3>1 DEF Posted, Requesting, Told
      <4>2. \A c \in Client : Opens(client', c, nextPort) => c = e
        BY <4>1 DEF OnceInv, ClientsFit, Opens, HasReply, Waiting
      <4> QED BY <4>1, <4>2, Fresh
    <3>2. ASSUME m.kind = "opened", NEW c \in Client, Opens(client', c, k), wants[c] = "INPUT"
          PROVE  ConnectedAs(client, c, m.conn)'
      <4>1. PICK d \in Driver : \E o \in ToSet(box[LocalPort[d]]) :
              Accepts(d, o) /\ k = o.port /\ m.conn = Len(conns[d]) + 1
        BY <2>2, <3>2 DEF Posted, Requesting, Told
      <4>2. PICK o \in ToSet(box[LocalPort[d]]) :
              Accepts(d, o) /\ k = o.port /\ m.conn = Len(conns[d]) + 1
        BY <4>1
      <4>3. LocalPort[d] \in DOMAIN box /\ o.kind = "open"
        BY <4>2, AsyncPorts DEF OnceInv, PortsFit, Accepts
      <4>4. Opens(client, c, k) /\ client'[c] = client[c] /\ HasDevice(client, c)
        BY <1>9, <3>2, <4>2, <4>3, Fresh DEF Asking
      <4>5. o.shmem = client[c].shmem /\ LocalPort[d] = client[c].port
        BY <4>2, <4>3, <4>4 DEF Connected, ConnectsMail
      <4>6. typeOf[d] = "INPUT"
        BY <3>2, <4>4, <4>5, DriverOfPort DEF Suiting
      <4>7. conns[d] = << >>
        BY <4>2, <4>6, DriverOfPort DEF Accepts, CanOpen, Connected
      <4>8. conns'[d] = Append(conns[d], o.shmem)
        BY <4>2 DEF Accepts, Connected
      <4>9. Single(conns'[d], client[c].shmem) /\ m.conn = 1
        BY <4>2, <4>5, <4>7, <4>8 DEF Single
      <4> QED BY <4>4, <4>5, <4>9, DriverOfPort DEF ConnectedAs
    <3> QED BY <1>2, <3>1, <3>2 DEF ConnectsMail
  <2> QED BY <1>1, <2>1, <2>2 DEF MailStep
<1>11. ASSUME NEW c \in Client, Bound(client', c), wants[c] = "INPUT"
       PROVE  ConnectedAs(client, c, client[c].conn)'
  <2>1. \E n : n = client'[c].conn /\ ConnectedAs(client, c, n)
    <3>1. CASE Bound(client, c)
      BY <1>1, <1>11, <3>1, Moving DEF Connected
    <3>2. CASE ~Bound(client, c)
      <4>1. /\ Opens(client, c, client[c].reply)
            /\ \E m \in ToSet(box[client[c].reply]) : m.kind = "opened" /\ client'[c].conn = m.conn
        BY <1>1, <1>11, <3>2, Moving DEF Opens
      <4>2. client[c].reply \in DOMAIN box
        BY <4>1 DEF OnceInv, ClientsFit, Opens, HasReply, Waiting
      <4> QED BY <1>11, <4>1, <4>2 DEF Connected, ConnectsMail
    <3> QED BY <3>1, <3>2
  <2>2. client'[c].port = client[c].port /\ client'[c].shmem = client[c].shmem /\ HasDevice(client, c)
    BY <1>1, <1>11, Moving DEF HasDevice, Bound
  <2> QED BY <1>8, <1>11, <2>1, <2>2 DEF ConnectedAs
<1> QED BY <1>2, <1>3, <1>4, <1>6, <1>7, <1>10, <1>11 DEF Connected

\* One client at most has a keyboard.
LEMMA OneReader ==
    ASSUME OnceInv, Suiting, Connected, NEW c \in Client, NEW e \in Client,
           Bound(client, c), Bound(client, e), wants[c] = "INPUT", wants[e] = "INPUT"
    PROVE  c = e
<1>1. /\ HasDevice(client, c) /\ HasDevice(client, e)
      /\ HasRegion(client, c) /\ HasRegion(client, e)
  BY DEF Bound, HasDevice, HasRegion
<1>2. PICK d \in Driver : LocalPort[d] = client[c].port /\ typeOf[d] = "INPUT"
  BY <1>1 DEF Suiting, PortsOf
<1>3. PICK f \in Driver : LocalPort[f] = client[e].port /\ typeOf[f] = "INPUT"
  BY <1>1 DEF Suiting, PortsOf
<1>4. Single(conns[d], client[c].shmem) /\ Single(conns[f], client[e].shmem)
  BY <1>2, <1>3 DEF Connected, ConnectedAs
<1>5. conns[d] # << >> /\ conns[f] # << >>
  BY <1>4 DEF Single
<1>6. d = f
  BY <1>2, <1>3, <1>5, DriverOfPort DEF Connected
<1>7. client[c].shmem = client[e].shmem
  BY <1>4, <1>6 DEF Single
<1> QED BY <1>1, <1>7 DEF Connected

-----------------------------------------------------------------------------
(* Devices: what a count says *)

CalledFor(b, p) == \E q \in DOMAIN b : \E m \in ToSet(b[q]) : m.kind \in Asking /\ m.port = p
AnswerOn(b, p) == \E m \in ToSet(b[p]) : m.kind \in Answers(p)
Awaits(w, p) == \E y \in DOMAIN w : p \in ToSet(w[y])
Queueing(r, p) == \E d \in DOMAIN r : \E x \in ToSet(r[d]) : x.port = p

\* A list of length one is what its element makes.
LEMMA SingleElement ==
    ASSUME NEW T, NEW s \in Seq(T), Len(s) = 1
    PROVE  s[1] \in T /\ s = << s[1] >>
<1>1. s[1] \in T
  OBVIOUS
<1>2. << s[1] >> \in Seq(T) /\ Len(<< s[1] >>) = 1
  BY <1>1
<1>3. \A i \in 1 .. Len(s) : s[i] = << s[1] >>[i]
  OBVIOUS
<1> QED BY <1>1, <1>2, <1>3, SeqEqual

\* A set with an element counts one at least.
LEMMA CountOne ==
    ASSUME NEW S, IsFiniteSet(S), NEW x \in S PROVE Cardinality(S) \in Nat /\ Cardinality(S) >= 1
<1>1. Cardinality(S) \in Nat /\ Cardinality(S) # 0
  BY FS_EmptySet, FS_CardinalityType
<1> QED BY <1>1

\* Where nothing is counted, nothing is; where one is, there is one only.
LEMMA CountSays ==
    ASSUME NEW b, Ports(b), NEW w, Waits(w), NEW r, Requests(r), NEW p \in DOMAIN b
    PROVE  /\ CountsIn(b, w, r, p) = 0 =>
                ~AnswerOn(b, p) /\ ~CalledFor(b, p) /\ ~Awaits(w, p) /\ ~Queueing(r, p)
           /\ CountsIn(b, w, r, p) \in {0, 1} =>
                /\ ~(AnswerOn(b, p) /\ CalledFor(b, p))
                /\ ~(AnswerOn(b, p) /\ Queueing(r, p))
                /\ ~(CalledFor(b, p) /\ Queueing(r, p))
<1>1. /\ IsFiniteSet(AnswersIn(b, p)) /\ IsFiniteSet(CallsIn(b, p))
      /\ Cardinality(AnswersIn(b, p)) \in Nat /\ Cardinality(CallsIn(b, p)) \in Nat
  BY PortsCount
<1>2. IsFiniteSet(WaitsIn(w, p)) /\ IsFiniteSet(RequestsIn(r, p))
  BY DEF Waits, Requests
<1>3. Cardinality(WaitsIn(w, p)) \in Nat /\ Cardinality(RequestsIn(r, p)) \in Nat
  BY <1>2, FS_CardinalityType
<1>4. ASSUME AnswerOn(b, p) PROVE Cardinality(AnswersIn(b, p)) >= 1
  <2>1. PICK x : x \in AnswersIn(b, p)
    BY <1>4 DEF AnswerOn, AnswersIn, ToSet
  <2> QED BY <1>1, <2>1, CountOne
<1>5. ASSUME CalledFor(b, p) PROVE Cardinality(CallsIn(b, p)) >= 1
  <2>1. PICK q \in DOMAIN b : \E m \in ToSet(b[q]) : m.kind \in Asking /\ m.port = p
    BY <1>5 DEF CalledFor
  <2>2. PICK l \in DOMAIN b[q] : b[q][l].kind \in Asking /\ b[q][l].port = p
    BY <2>1 DEF ToSet
  <2>3. << q, l >> \in CallsIn(b, p)
    BY <2>2, CallPlaces
  <2> QED BY <1>1, <2>3, CountOne
<1>6. ASSUME Awaits(w, p) PROVE Cardinality(WaitsIn(w, p)) >= 1
  <2>1. PICK y \in DOMAIN w : p \in ToSet(w[y])
    BY <1>6 DEF Awaits
  <2>2. PICK l \in DOMAIN w[y] : w[y][l] = p
    BY <2>1 DEF ToSet
  <2>3. << y, l >> \in WaitsIn(w, p)
    BY <2>2 DEF WaitsIn, Positions, ItemAt
  <2> QED BY <1>2, <2>3, CountOne
<1>7. ASSUME Queueing(r, p) PROVE Cardinality(RequestsIn(r, p)) >= 1
  <2>1. PICK d \in DOMAIN r : \E x \in ToSet(r[d]) : x.port = p
    BY <1>7 DEF Queueing
  <2>2. PICK l \in DOMAIN r[d] : r[d][l].port = p
    BY <2>1 DEF ToSet
  <2>3. << d, l >> \in RequestsIn(r, p)
    BY <2>2 DEF RequestsIn, Positions, ItemAt
  <2> QED BY <1>2, <2>3, CountOne
<1>8. CountsIn(b, w, r, p) = Cardinality(AnswersIn(b, p)) + Cardinality(CallsIn(b, p))
                               + Cardinality(WaitsIn(w, p)) + Cardinality(RequestsIn(r, p))
  BY DEF CountsIn, OnPorts
<1> QED BY <1>1, <1>3, <1>4, <1>5, <1>6, <1>7, <1>8

\* Clients with a device have ports of their own for answers.
LEMMA AskPorts ==
    ASSUME OnceInv
    PROVE  /\ \A c \in Client : Bound(client, c) => AskPort(client, c) \in DOMAIN box \ {ManagerPort}
           /\ \A c, e \in Client : Bound(client, c) /\ Bound(client, e) =>
                (AskPort(client, c) = AskPort(client, e) => c = e)
           /\ \A c, e \in Client : Bound(client, c) /\ HasReply(e) /\ c # e =>
                AskPort(client, c) # client[e].reply
           /\ \A c \in Client : Bound(client, c) => HasReply(c)
<1>1. \A c \in Client : Bound(client, c) => HasReply(c)
  BY DEF Bound, HasReply, Waiting
<1>2. \A c \in Client : c \notin SyncClient => LocalPort[c] \in Locals /\ LocalPort[c] \in DOMAIN box
  BY AsyncPorts DEF Client, OnceInv, PortsFit
<1>3. \A c, e \in Client : c \notin SyncClient /\ e \notin SyncClient /\ LocalPort[c] = LocalPort[e] => c = e
  BY AsyncPorts DEF Client
<1>4. \A c \in Client : HasReply(c) => client[c].reply \in DOMAIN box \ ({ManagerPort} \cup Locals)
  BY DEF OnceInv, ClientsFit
<1>5. \A c, e \in Client : c # e /\ HasReply(c) /\ HasReply(e) => client[c].reply # client[e].reply
  BY DEF OnceInv, ClientsFit
<1>6. \A c \in Client : Bound(client, c) => AskPort(client, c) \in DOMAIN box \ {ManagerPort}
  BY <1>1, <1>2, <1>4, AsyncPorts DEF AskPort
<1>7. \A c, e \in Client : Bound(client, c) /\ HasReply(e) /\ c # e => AskPort(client, c) # client[e].reply
  BY <1>1, <1>2, <1>4, <1>5 DEF AskPort
<1>8. \A c, e \in Client : Bound(client, c) /\ Bound(client, e) =>
        (AskPort(client, c) = AskPort(client, e) => c = e)
  <2> SUFFICES ASSUME NEW c \in Client, NEW e \in Client, Bound(client, c), Bound(client, e),
                      AskPort(client, c) = AskPort(client, e)
               PROVE  c = e
    OBVIOUS
  <2>1. CASE e \in SyncClient
    BY <1>1, <1>7, <2>1 DEF AskPort
  <2>2. CASE c \in SyncClient
    BY <1>1, <1>7, <2>2 DEF AskPort
  <2>3. CASE c \notin SyncClient /\ e \notin SyncClient
    BY <1>3, <2>3 DEF AskPort
  <2> QED BY <2>1, <2>2, <2>3
<1> QED BY <1>1, <1>6, <1>7, <1>8

\* Who asks for answers goes on asking there.
LEMMA AskerStays ==
    ASSUME ClientStep, NEW c \in Client, NEW q, NEW p, Asker(client, c, q, p)
    PROVE  Asker(client', c, q, p) /\ client'[c].shmem = client[c].shmem
BY Moving DEF Asker, AskPort

\* The reader of the keyboard, to whom no error was sent that is not for it.
Reader(c) == Bound(client, c) /\ wants[c] = "INPUT"
Watching(c) == Reader(c) /\ (c \in SyncClient => client[c].reply \notin Disturbed)

\* On the port of a client that has opened its device there are answers to requests only.
Clean(c) ==
    /\ \A q \in DOMAIN box : \A m \in ToSet(box[q]) :
         m.kind \in {"lookup", "open"} => m.port # client[c].reply
    /\ \A y \in Type : client[c].reply \notin ToSet(waiters[y])
    /\ \A m \in ToSet(box[client[c].reply]) : m.kind = "done"

\* Requests come from those who have opened the device, and the reader of the keyboard
\* only reads.
AsksFor(c, q, p, op) ==
    Asker(client, c, q, p) /\ (wants[c] = "INPUT" => op = "READ")

\* Requests, queued ones too, are those of clients that opened the device; no reader is
\* refused or gets an answer to something else.
Proper ==
    /\ room \in Nat \ {0}
    /\ \A q \in DOMAIN box : \A m \in ToSet(box[q]) : m.kind = "request" =>
         \E c \in Client : AsksFor(c, q, m.port, m.op) /\ (wants[c] = "INPUT" => m.conn = 1)
    /\ \A d \in Driver : \A r \in ToSet(pending[d]) :
         \E c \in Client : /\ AsksFor(c, LocalPort[d], r.port, r.op)
                           /\ wants[c] = "INPUT" => r.shmem = client[c].shmem
    /\ \A f \in failed : Token(nextPort, client, f.of)
    /\ \A c \in Client : Watching(c) => AskPort(client, c) \notin Refused
    /\ \A c \in SyncClient : Bound(client, c) /\ client[c].reply \notin Disturbed => Clean(c)

\* The one whose device is the keyboard reads it.
LEMMA AskerReads ==
    ASSUME OnceInv, Suiting, NEW d \in Driver, NEW c \in Client, NEW p, Asker(client, c, LocalPort[d], p)
    PROVE  wants[c] = "INPUT" <=> typeOf[d] = "INPUT"
<1>1. HasDevice(client, c) /\ client[c].port = LocalPort[d]
  BY DEF Asker, Bound, HasDevice
<1>2. LocalPort[d] \in PortsOf(wants[c])
  BY <1>1 DEF Suiting
<1> QED BY <1>2, DriverOfPort

\* The reader waits for one answer at most.
LEMMA WatchedOnce ==
    ASSUME OnceInv, Proper, NEW c \in Client, Watching(c), NEW p, p = AskPort(client, c)
    PROVE  /\ p \in DOMAIN box
           /\ CountsIn(box, waiters, pending, p) \in {0, 1}
           /\ c \in SyncClient /\ client[c].pc = "open" => CountsIn(box, waiters, pending, p) = 0
<1>1. p \in DOMAIN box /\ HasReply(c)
  BY AskPorts DEF Watching, Reader
<1>2. CASE c \in SyncClient
  BY <1>1, <1>2 DEF AskPort, Watching, OnceInv, Counted
<1>3. CASE c \notin SyncClient
  <2>1. c \in AsyncClient /\ LocalPort[c] \notin Refused /\ p = LocalPort[c]
    BY <1>3 DEF Client, Proper, AskPort
  <2>2. CountsIn(box, waiters, pending, p) = reads[c].current
    BY <2>1 DEF OnceInv, Counted
  <2>3. reads[c].current \in {0, 1}
    BY <2>1 DEF OnceInv, ClientsFit
  <2> QED BY <1>1, <1>3, <2>2, <2>3
<1> QED BY <1>2, <1>3

\* An answer, a call and a request for the reader are never there together.
LEMMA WatchedAlone ==
    ASSUME OnceInv, Proper, NEW c \in Client, Watching(c), NEW p, p = AskPort(client, c)
    PROVE  /\ ~(AnswerOn(box, p) /\ CalledFor(box, p))
           /\ ~(AnswerOn(box, p) /\ Queueing(pending, p))
           /\ ~(CalledFor(box, p) /\ Queueing(pending, p))
           /\ c \in SyncClient /\ client[c].pc = "open" => ~AnswerOn(box, p)
<1>1. /\ p \in DOMAIN box
      /\ CountsIn(box, waiters, pending, p) \in {0, 1}
      /\ c \in SyncClient /\ client[c].pc = "open" => CountsIn(box, waiters, pending, p) = 0
  BY WatchedOnce
<1>2. Ports(box) /\ Waits(waiters) /\ Requests(pending)
  BY DEF OnceInv, PortsFit, ListsFit
<1> QED BY <1>1, <1>2, CountSays

\* A request of the reader is never refused.
LEMMA NotRefused ==
    ASSUME OnceInv, Suiting, Connected, Proper, NEW c \in Client, Watching(c)
    PROVE  ~Refuses(AskPort(client, c))
<1> SUFFICES ASSUME NEW d \in Driver, NEW m \in ToSet(box[LocalPort[d]]),
                    m.port = AskPort(client, c),
                    m.kind = "open" \/ (m.kind = "request" /\ Len(pending[d]) = room)
             PROVE  FALSE
  BY DEF Refuses
<1>1. LocalPort[d] \in DOMAIN box /\ Bound(client, c) /\ wants[c] = "INPUT"
  BY AsyncPorts DEF OnceInv, PortsFit, Watching, Reader
<1>2. CASE m.kind = "open"
  <2>1. CASE c \in SyncClient
    <3>1. Clean(c)
      BY <1>1, <2>1 DEF Proper, Watching
    <3> QED BY <1>1, <1>2, <2>1, <3>1 DEF Clean, AskPort
  <2>2. CASE c \notin SyncClient
    <3>1. m.port \in Locals
      BY <2>2, AsyncPorts DEF Client, AskPort
    <3> QED BY <1>1, <1>2, <3>1 DEF Connected, ConnectsMail
  <2> QED BY <2>1, <2>2
<1>3. CASE m.kind = "request" /\ Len(pending[d]) = room
  <2>1. PICK e \in Client : Asker(client, e, LocalPort[d], m.port)
    BY <1>1, <1>3 DEF Proper, AsksFor
  <2>2. e = c
    BY <1>1, <2>1, AskPorts DEF Asker
  <2>3. PICK r : r \in ToSet(pending[d])
    <3>1. PICK U : pending \in [Driver -> Seq(U)]
      BY DEF OnceInv, ListsFit, Requests, IsFamily
    <3>2. Len(pending[d]) > 0 /\ pending[d] \in Seq(U)
      BY <1>3, <3>1 DEF Proper
    <3>3. 1 \in DOMAIN pending[d]
      BY <3>2
    <3> QED BY <3>3 DEF ToSet
  <2>4. PICK x \in Client : Asker(client, x, LocalPort[d], r.port)
    BY <2>3 DEF Proper, AsksFor
  <2>5. wants[x] = "INPUT"
    BY <1>1, <2>1, <2>2, <2>4, AskerReads
  <2>6. x = c
    BY <1>1, <2>4, <2>5, OneReader DEF Asker
  <2>7. CalledFor(box, AskPort(client, c))
    BY <1>1, <1>3 DEF CalledFor, Asking
  <2>8. Queueing(pending, AskPort(client, c))
    BY <2>3, <2>4, <2>6 DEF Queueing, Asker, OnceInv, ListsFit
  <2> QED BY <2>7, <2>8, WatchedAlone
<1> QED BY <1>2, <1>3

\* Every step keeps that.
LEMMA ProperStep ==
    ASSUME OnceInv, OnceInv', Suiting, Connected, Proper, NEW D, NEW T, NEW I, Steps(D, T, I)
    PROVE  Proper'
<1>1. MailStep(D, T, I) /\ ListStep /\ ClientStep
  BY DEF Steps
<1>2. wants' = wants /\ room' = room /\ failed \subseteq failed'
  BY <1>1 DEF ListStep, setting
<1>3. Disturbed \subseteq Disturbed'
  BY <1>2 DEF Disturbed
<1>4. /\ nextPort \in Nat /\ nextPort' \in Nat /\ nextPort <= nextPort'
      /\ \A p : Token(nextPort, client, p) => Token(nextPort', client', p)
  <2>1. nextPort \in Nat /\ nextPort' \in Nat /\ nextPort <= nextPort'
    BY <1>1 DEF ClientStep, OnceInv, PortsFit
  <2>2. \A c \in AsyncClient : client[c].pc \in {"open", "waiting"} => client'[c].pc \in {"open", "waiting"}
    BY <1>1, Moving DEF Bound, Client
  <2> QED BY <2>1, <2>2, TokenKept
<1>5. /\ \A d \in Driver : LocalPort[d] \in DOMAIN box
      /\ ManagerPort \in DOMAIN box
  BY AsyncPorts DEF OnceInv, PortsFit
<1>6. \A p : Refuses(p) => Token(nextPort, client, p)
  <2> SUFFICES ASSUME NEW d \in Driver, NEW m \in ToSet(box[LocalPort[d]]), m.kind \in Asking
               PROVE  Token(nextPort, client, m.port)
    BY DEF Refuses, Asking
  <2> QED BY <1>5 DEF OnceInv, MailFits, Sensible
<1>7. ASSUME NEW c \in Client, NEW q, NEW p, NEW op, AsksFor(c, q, p, op)
      PROVE  AsksFor(c, q, p, op)' /\ client'[c].shmem = client[c].shmem
  BY <1>1, <1>2, <1>7, AskerStays DEF AsksFor
<1>8. ASSUME NEW k \in DOMAIN box', NEW m \in ToSet(box'[k]), m.kind = "request"
      PROVE  \E c \in Client : /\ AsksFor(c, k, m.port, m.op)'
                               /\ wants'[c] = "INPUT" => m.conn = 1
  <2>1. CASE k \in DOMAIN box /\ m \in ToSet(box[k])
    <3>1. PICK c \in Client : AsksFor(c, k, m.port, m.op) /\ (wants[c] = "INPUT" => m.conn = 1)
      BY <1>8, <2>1 DEF Proper
    <3> QED BY <1>2, <1>7, <3>1
  <2>2. CASE Posted(D, I, k, m)
    <3>1. PICK c \in Client : /\ Asker(client, c, k, m.port) /\ m.conn = client[c].conn
                              /\ wants[c] = "INPUT" => m.op = "READ"
      BY <1>8, <2>2 DEF Posted, Told, Requesting
    <3>2. AsksFor(c, k, m.port, m.op)
      BY <3>1 DEF AsksFor
    <3>3. wants[c] = "INPUT" => m.conn = 1
      BY <3>1 DEF Asker, Connected, ConnectedAs
    <3> QED BY <1>2, <1>7, <3>2, <3>3
  <2> QED BY <1>1, <2>1, <2>2 DEF MailStep
<1>9. ASSUME NEW d \in Driver, NEW r \in ToSet(pending'[d])
      PROVE  \E c \in Client : /\ AsksFor(c, LocalPort[d], r.port, r.op)'
                               /\ wants'[c] = "INPUT" => r.shmem = client'[c].shmem
  <2>1. CASE r \in ToSet(pending[d])
    <3>1. PICK c \in Client : /\ AsksFor(c, LocalPort[d], r.port, r.op)
                              /\ wants[c] = "INPUT" => r.shmem = client[c].shmem
      BY <2>1 DEF Proper
    <3> QED BY <1>2, <1>7, <3>1
  <2>2. CASE Queued(d, r)
    <3>1. PICK m \in ToSet(box[LocalPort[d]]) :
            m.kind = "request" /\ r.op = m.op /\ r.port = m.port /\ r.shmem = conns[d][m.conn]
      BY <2>2 DEF Queued
    <3>2. PICK c \in Client : /\ AsksFor(c, LocalPort[d], m.port, m.op)
                              /\ wants[c] = "INPUT" => m.conn = 1
      BY <1>5, <3>1 DEF Proper
    <3>3. wants[c] = "INPUT" => r.shmem = client[c].shmem
      <4> SUFFICES ASSUME wants[c] = "INPUT" PROVE r.shmem = client[c].shmem
        OBVIOUS
      <4>1. Single(conns[d], client[c].shmem)
        BY <3>2 DEF AsksFor, Asker, Connected, ConnectedAs
      <4> QED BY <3>1, <3>2, <4>1 DEF Single
    <3> QED BY <1>2, <1>7, <3>1, <3>2, <3>3
  <2> QED BY <1>1, <2>1, <2>2 DEF ListStep
<1>10. ASSUME NEW f \in failed' PROVE Token(nextPort', client', f.of)
  BY <1>1, <1>4, <1>6, <1>10 DEF ListStep, Proper
<1>11. ASSUME NEW c \in Client, Watching(c)' PROVE AskPort(client', c) \notin Refused'
  <2>1. Bound(client', c) /\ wants[c] = "INPUT" /\ (c \in SyncClient => client'[c].reply \notin Disturbed')
    BY <1>2, <1>11 DEF Watching, Reader
  <2>2. CASE Bound(client, c)
    <3>1. client'[c].reply = client[c].reply /\ AskPort(client', c) = AskPort(client, c)
      BY <1>1, <2>2, Moving DEF AskPort
    <3>2. Watching(c)
      BY <1>3, <2>1, <2>2, <3>1 DEF Watching, Reader
    <3>3. AskPort(client, c) \notin Refused /\ ~Refuses(AskPort(client, c))
      BY <3>2, NotRefused DEF Proper
    <3> QED BY <1>1, <3>1, <3>3 DEF ListStep, Refused
  <2>3. CASE ~Bound(client, c)
    <3>1. CASE c \in SyncClient
      <4>1. client'[c].pc = "open"
        BY <1>1, <2>1, <2>3, Moving
      <4> QED BY <2>1, <3>1, <4>1 DEF OnceInv, Counted, HasReply, AskPort
    <3>2. CASE c \notin SyncClient
      <4>1. c \in AsyncClient /\ LocalPort[c] \in Locals /\ AskPort(client', c) = LocalPort[c]
        BY <3>2, AsyncPorts DEF Client, AskPort
      <4>2. ~Token(nextPort, client, LocalPort[c])
        BY <2>3, <4>1, AsyncPorts DEF Token, Bound
      <4> QED BY <1>1, <1>6, <4>1, <4>2 DEF ListStep, Refused, Proper
    <3> QED BY <3>1, <3>2
  <2> QED BY <2>2, <2>3
<1>12. ASSUME NEW c \in SyncClient, Bound(client', c), client'[c].reply \notin Disturbed'
       PROVE  Clean(c)'
  <2> DEFINE p == client'[c].reply
  <2>0. c \in Client /\ HasReply(c)' /\ p \in DOMAIN box' /\ p \notin {ManagerPort} \cup Locals
    BY <1>12 DEF Client, Bound, HasReply, Waiting, OnceInv, ClientsFit
  <2>1. CASE Bound(client, c)
    <3>1. /\ client[c].reply = p /\ HasReply(c)
      BY <1>1, <2>0, <2>1, Moving DEF Bound, HasReply, Waiting
    <3>2. Clean(c) /\ p \in DOMAIN box /\ p # nextPort
      BY <1>3, <1>12, <2>0, <2>1, <3>1, Fresh DEF Proper, OnceInv, ClientsFit
    <3> HIDE DEF p
    <3>3. \A y \in Type : ~LookedUp(y, p)
      BY <1>5, <3>1, <3>2 DEF LookedUp, Clean
    <3>4. ASSUME NEW k \in DOMAIN box', NEW m \in ToSet(box'[k]), m.kind \in {"lookup", "open"}
          PROVE  m.port # p
      <4>1. CASE k \in DOMAIN box /\ m \in ToSet(box[k])
        BY <3>1, <3>2, <3>4, <4>1 DEF Clean
      <4>2. CASE Posted(D, I, k, m)
        BY <3>2, <3>4, <4>2 DEF Posted, Told, Requesting
      <4> QED BY <1>1, <4>1, <4>2 DEF MailStep
    <3>5. ASSUME NEW y \in Type PROVE p \notin ToSet(waiters'[y])
      BY <1>1, <3>1, <3>2, <3>3 DEF ListStep, Clean
    <3>6. ASSUME NEW m \in ToSet(box'[p]) PROVE m.kind = "done"
      <4>1. CASE m \in ToSet(box[p])
        BY <3>1, <3>2, <4>1 DEF Clean
      <4>2. CASE Posted(D, I, p, m)
        <5>1. m.kind \in {"error", "found", "opened", "done"}
          BY <2>0, <3>6 DEF OnceInv, MailFits, Sensible, AnswerKinds, p
        <5>2. m.kind # "error"
          BY <1>12, <3>3, <4>2 DEF Posted, Told, Requesting, p
        <5>3. m.kind # "found"
          BY <3>1, <3>2, <3>3, <4>2 DEF Posted, Told, Requesting, Clean
        <5>4. m.kind # "opened"
          <6> SUFFICES ASSUME NEW d \in Driver, NEW o \in ToSet(box[LocalPort[d]]), Accepts(d, o),
                              p = o.port
                       PROVE  FALSE
            BY <4>2 DEF Posted, Told, Requesting
          <6> QED BY <1>5, <3>1, <3>2 DEF Accepts, Clean
        <5> QED BY <5>1, <5>2, <5>3, <5>4
      <4> QED BY <1>1, <2>0, <3>2, <4>1, <4>2 DEF MailStep
    <3> QED BY <3>4, <3>5, <3>6 DEF Clean, p
  <2>2. CASE ~Bound(client, c)
    <3>1. client'[c].pc = "open"
      BY <1>1, <1>12, <2>0, <2>2, Moving
    <3>2. CountsIn(box', waiters', pending', p) = 0
      BY <1>12, <2>0, <3>1 DEF OnceInv, Counted
    <3>3. Ports(box') /\ Waits(waiters') /\ Requests(pending') /\ DOMAIN waiters' = Type
      BY DEF OnceInv, PortsFit, ListsFit
    <3> HIDE DEF p
    <3>4. ~AnswerOn(box', p) /\ ~CalledFor(box', p) /\ ~Awaits(waiters', p)
      BY <2>0, <3>2, <3>3, CountSays
    <3>5. \A m \in ToSet(box'[p]) : m.kind \in {"error", "found", "opened", "done"}
      BY <2>0 DEF OnceInv, MailFits, Sensible, AnswerKinds
    <3>6. \A m \in ToSet(box'[p]) : FALSE
      BY <2>0, <3>4, <3>5 DEF AnswerOn, Answers, Locals
    <3>7. \A y \in Type : p \notin ToSet(waiters'[y])
      BY <3>3, <3>4 DEF Awaits
    <3> QED BY <3>4, <3>6, <3>7 DEF Clean, CalledFor, Asking, p
  <2> QED BY <2>1, <2>2
<1>13. room' \in Nat \ {0}
  BY <1>2 DEF Proper
<1> QED BY <1>8, <1>9, <1>10, <1>11, <1>12, <1>13 DEF Proper

-----------------------------------------------------------------------------
(* Devices: steps that move no key, and those that do *)

NoReaderOf(T) == \A c \in Client : Reader(c) => AskPort(client, c) \notin T

\* A step that moves no key, and takes no answer of the keyboard's reader.
Quiet(D, T) ==
    /\ Steps(D, T, None) /\ UNCHANGED << byte, buffer, typed, crowded, got >>
    /\ \A s \in DOMAIN data' : data'[s] = IF s \in DOMAIN data THEN data[s] ELSE NoKey
    /\ \A d \in D : d \in Driver /\ typeOf[d] # "INPUT"
    /\ NoReaderOf(T)
    /\ \A d \in Driver : typeOf[d] = "INPUT" /\ buffer # << >> /\ pending[d] = << >> => pending'[d] = << >>
    /\ \A c \in AsyncClient : client'[c].pc = "waiting" => client[c].pc = "waiting"

\* What touches neither keys nor clients is quiet.
LEMMA CalmQuiet ==
    ASSUME NEW D, Steps(D, None, None), \A d \in D : d \in Driver /\ typeOf[d] # "INPUT",
           UNCHANGED << byte, buffer, typed, crowded, got, data, client >>,
           \A d \in Driver : typeOf[d] = "INPUT" /\ buffer # << >> /\ pending[d] = << >> =>
             pending'[d] = << >>
    PROVE  Quiet(D, None)
BY DEF Quiet, NoReaderOf, None

\* So is a client that moves and reads nothing.
LEMMA ClientQuiet ==
    ASSUME OnceInv, NEW T, Steps(None, T, None), NoReaderOf(T),
           UNCHANGED << byte, buffer, typed, crowded, got, data, pending >>,
           NEW c \in Client, NEW new, client' = [client EXCEPT ![c] = new],
           new.pc # "waiting" \/ c \in SyncClient
    PROVE  Quiet(None, T)
<1>1. \A e \in AsyncClient : client'[e].pc = "waiting" => client[e].pc = "waiting"
  BY DeviceAssumption DEF OnceInv, ClientsFit, Client
<1> QED BY <1>1 DEF Quiet, None

\* So is a step that changes nothing, or ends an interrupt.
LEMMA StutterQuiet == ASSUME UNCHANGED deviceVars \/ EndedEarly PROVE Quiet(None, None)
<1>1. UNCHANGED << byte, buffer, typed, crowded, got, data, client, pending >>
  BY DEF EndedEarly, deviceVars, keyVars, clientVars, driverVars
<1>2. Steps(None, None, None)
  BY StutterSteps
<1> QED BY <1>1, <1>2, CalmQuiet DEF None

\* The manager sees no keys.
LEMMA ManagerQuiet == ASSUME OnceInv, Manager PROVE Quiet(None, None)
<1>1. UNCHANGED << byte, buffer, typed, crowded, got, data, client, pending >>
  BY DEF Manager, ManagerAnnounce, ManagerForgets, ManagerLookup, ManagerIgnore, keyVars,
         clientVars, driverVars
<1>2. Steps(None, None, None)
  BY ManagerSteps
<1> QED BY <1>1, <1>2, CalmQuiet DEF None

\* Nor does a driver that announces, opens or ignores.
LEMMA DriverQuiet ==
    ASSUME OnceInv, NEW d \in Driver, Announce(d) \/ HandleOpen(d) \/ HandleIgnore(d)
    PROVE  Quiet(None, None)
<1>1. UNCHANGED << byte, buffer, typed, crowded, got, data, client, pending >>
  BY DEF Announce, HandleOpen, HandleIgnore, keyVars, clientVars, driverVars
<1>2. Steps(None, None, None)
  BY AnnounceSteps, HandleOpenSteps, HandleIgnoreSteps
<1> QED BY <1>1, <1>2, CalmQuiet DEF None

\* Nor does the pseudo terminal.
LEMMA InputQuiet == ASSUME OnceInv, NEW d \in Driver, InputAvailable(d) PROVE Quiet(Only(d), None)
<1>1. /\ UNCHANGED << byte, buffer, typed, crowded, got, data, client >> /\ typeOf[d] = "PTY"
      /\ \A e \in Driver : e # d => pending'[e] = pending[e]
  BY DEF InputAvailable, keyVars, clientVars, OnceInv, ListsFit
<1>2. Steps(Only(d), None, None)
  BY InputSteps
<1> QED BY <1>1, <1>2, CalmQuiet DEF Only

\* A request that is not for a key.
LEMMA RequestQuiet ==
    ASSUME OnceInv, Suiting, Proper, NEW d \in Driver, HandleRequest(d)
    PROVE  (\E D : Quiet(D, None)) \/ (Steps(Only(d), None, None) /\ ReadsNow(d))
<1>1. UNCHANGED << byte, typed, crowded, got, client >>
  BY DEF HandleRequest, clientVars
<1>2. ASSUME Queues(d), NEW D, Steps(D, None, None), \A e \in D : e \in Driver /\ typeOf[e] # "INPUT"
      PROVE  Quiet(D, None)
  <2>1. UNCHANGED << data, buffer >> /\ \A e \in Driver : e # d => pending'[e] = pending[e]
    BY <1>2 DEF Queues
  <2>2. ASSUME typeOf[d] = "INPUT", buffer # << >>, pending[d] = << >>
        PROVE  pending'[d] = << >>
    <3>1. ASSUME NEW m \in ToSet(box[LocalPort[d]]), m.kind = "request"
          PROVE  m.op = "READ"
      <4>1. LocalPort[d] \in DOMAIN box
        BY AsyncPorts DEF OnceInv, PortsFit
      <4>2. PICK c \in Client : AsksFor(c, LocalPort[d], m.port, m.op)
        BY <3>1, <4>1 DEF Proper
      <4> QED BY <2>2, <4>2, AskerReads DEF AsksFor
    <3> QED BY <1>2, <2>2, <3>1 DEF Queues
  <2> QED BY <1>1, <1>2, <2>1, <2>2, CalmQuiet
<1>3. CASE Steps(None, None, None) /\ Queues(d)
  BY <1>2, <1>3 DEF None
<1>4. CASE Steps(Only(d), None, None) /\ typeOf[d] # "INPUT" /\ Queues(d)
  BY <1>2, <1>4 DEF Only
<1> QED BY <1>3, <1>4, HandleRequestSteps

\* A client that has no device yet, or whose device is not the keyboard.
LEMMA OwnReply ==
    ASSUME OnceInv, NEW c \in Client, HasReply(c), ~Reader(c) PROVE NoReaderOf(Only(client[c].reply))
BY AskPorts DEF NoReaderOf, Only, Reader

\* Looking for a device moves no key.
LEMMA SeekQuiet ==
    ASSUME OnceInv, NEW c \in Client, Lookup(c) \/ LookupAnswered(c) \/ OpenAnswered(c)
    PROVE  \E T : Quiet(None, T)
<1>1. UNCHANGED << byte, buffer, typed, crowded, got, data, pending >>
  BY DEF Lookup, LookupAnswered, OpenAnswered, keyVars, driverVars
<1>2. PICK new : client' = [client EXCEPT ![c] = new] /\ new.pc # "waiting"
  <2>1. CASE Lookup(c)
    <3>1. PICK x : x = [pc |-> "lookup", reply |-> nextPort]
      OBVIOUS
    <3>2. x.pc # "waiting" /\ client' = [client EXCEPT ![c] = x]
      BY <2>1, <3>1 DEF Lookup
    <3> QED BY <3>2
  <2>2. CASE LookupAnswered(c)
    <3> DEFINE m == Head(box[client[c].reply])
    <3>1. PICK x : x = IF m.kind = "found" THEN [pc |-> "found", port |-> m.port, id |-> m.id]
                                          ELSE [pc |-> "idle"]
      OBVIOUS
    <3>2. x.pc # "waiting" /\ client' = [client EXCEPT ![c] = x]
      BY <2>2, <3>1 DEF LookupAnswered
    <3> QED BY <3>2
  <2>3. CASE OpenAnswered(c)
    <3> DEFINE m == Head(box[client[c].reply])
    <3>1. PICK x : x = IF m.kind = "opened"
                       THEN [pc |-> "open", port |-> client[c].port, conn |-> m.conn,
                             shmem |-> client[c].shmem, reply |-> client[c].reply]
                       ELSE [pc |-> "idle"]
      OBVIOUS
    <3>2. x.pc # "waiting" /\ client' = [client EXCEPT ![c] = x]
      BY <2>3, <3>1 DEF OpenAnswered
    <3> QED BY <3>2
  <2> QED BY <2>1, <2>2, <2>3
<1>3. CASE Lookup(c)
  <2>1. Steps(None, None, None) /\ NoReaderOf(None)
    BY <1>3, LookupSteps DEF NoReaderOf, None
  <2> QED BY <1>1, <1>2, <2>1, ClientQuiet
<1>4. CASE LookupAnswered(c) \/ OpenAnswered(c)
  <2>1. Steps(None, Only(client[c].reply), None)
    BY <1>4, LookupAnsweredSteps, OpenAnsweredSteps
  <2>2. HasReply(c) /\ ~Reader(c)
    BY <1>4 DEF LookupAnswered, OpenAnswered, HasReply, Waiting, Reader, Bound
  <2> QED BY <1>1, <1>2, <2>1, <2>2, OwnReply, ClientQuiet
<1> QED BY <1>3, <1>4

\* Opening it clears a region in which no key is waiting.
LEMMA OpenQuiet == ASSUME OnceInv, Connected, NEW c \in Client, Open(c) PROVE Quiet(None, None)
<1>1. UNCHANGED << byte, buffer, typed, crowded, got, pending >>
  BY DEF Open, keyVars, driverVars
<1>2. \A s \in DOMAIN data' : data'[s] = IF s \in DOMAIN data THEN data[s] ELSE NoKey
  <2>1. nextShmem \notin DOMAIN data
    BY DEF Connected
  <2> QED BY <2>1 DEF Open
<1>3. \A e \in AsyncClient : client'[e].pc = "waiting" => client[e].pc = "waiting"
  <2>1. PICK new : new = [pc |-> "opening", port |-> client[c].port, shmem |-> nextShmem,
                          reply |-> nextPort]
    OBVIOUS
  <2>2. client' = [client EXCEPT ![c] = new] /\ new.pc # "waiting"
    BY <2>1 DEF Open
  <2> QED BY <2>2 DEF OnceInv, ClientsFit, Client
<1> QED BY <1>1, <1>2, <1>3, OpenSteps DEF Quiet, NoReaderOf, None

\* Sending a request moves no key.
LEMMA SendQuiet == ASSUME OnceInv, NEW c \in Client, SendRequest(c) PROVE Quiet(None, None)
<1>1. UNCHANGED << byte, buffer, typed, crowded, got, data, pending >> /\ c \in SyncClient
  BY DEF SendRequest, keyVars, driverVars
<1>2. PICK new : client' = [client EXCEPT ![c] = new]
  BY DEF SendRequest
<1>3. Steps(None, None, None) /\ NoReaderOf(None)
  BY SendRequestSteps DEF NoReaderOf, None
<1> QED BY <1>1, <1>2, <1>3, ClientQuiet

\* Nor does asking asynchronously.
LEMMA AsyncQuiet ==
    ASSUME OnceInv, NEW c \in Client, ReadAsync(c) \/ AsyncIgnore(c) PROVE Quiet(None, None)
<1>1. UNCHANGED << byte, buffer, typed, crowded, got, data, client, pending >>
  BY DEF ReadAsync, AsyncIgnore, keyVars, clientVars, driverVars
<1>2. Steps(None, None, None)
  BY ReadAsyncSteps, AsyncIgnoreSteps
<1> QED BY <1>1, <1>2, CalmQuiet DEF None

\* An answer to another client.
LEMMA AnswerQuiet ==
    ASSUME OnceInv, NEW c \in Client, RequestAnswered(c) \/ Complete(c), wants[c] # "INPUT"
    PROVE  \E T : Quiet(None, T)
<1>1. UNCHANGED << byte, buffer, typed, crowded, got, data, pending >> /\ ~Reader(c)
  BY DEF RequestAnswered, Complete, keyVars, driverVars, Read, Reader
<1>2. CASE RequestAnswered(c)
  <2>1. Steps(None, Only(client[c].reply), None)
    BY <1>2, RequestAnsweredSteps
  <2>2. HasReply(c)
    BY <1>2 DEF RequestAnswered, HasReply, Waiting
  <2>3. PICK new : new = [client[c] EXCEPT !.pc = "open"]
    OBVIOUS
  <2>4. client' = [client EXCEPT ![c] = new] /\ new.pc # "waiting"
    <3>1. client[c].pc = "waiting" /\ client' = [client EXCEPT ![c] = new]
      BY <1>2, <2>3 DEF RequestAnswered
    <3>2. new.pc = "open" \/ new.pc = client[c].pc
      BY <2>3
    <3> QED BY <3>1, <3>2, <2>3
  <2> QED BY <1>1, <2>1, <2>2, <2>4, OwnReply, ClientQuiet
<1>3. CASE Complete(c)
  <2>1. Steps(None, Only(LocalPort[c]), None) /\ c \in AsyncClient /\ client' = client
    BY <1>3, CompleteSteps DEF Complete
  <2>2. NoReaderOf(Only(LocalPort[c]))
    <3> SUFFICES ASSUME NEW e \in Client, Reader(e), AskPort(client, e) = LocalPort[c]
                 PROVE  FALSE
      BY DEF NoReaderOf, Only
    <3>1. LocalPort[c] \in Locals /\ HasReply(e)
      BY <2>1, AsyncPorts, AskPorts DEF Reader
    <3>2. e \notin SyncClient
      BY <3>1 DEF AskPort, OnceInv, ClientsFit
    <3>3. e = c
      BY <2>1, <3>2, AsyncPorts DEF AskPort, Client
    <3> QED BY <1>1, <3>3
  <2> QED BY <1>1, <2>1, <2>2 DEF Quiet, None
<1> QED BY <1>2, <1>3

\* The steps that move a key.
MovesKey ==
    \/ KeyPressed \/ KeyInterrupt
    \/ \E d \in Driver : HandleInterrupt(d) \/ (HandleRequest(d) /\ Steps(Only(d), None, None) /\ ReadsNow(d))
    \/ \E c \in Client : wants[c] = "INPUT" /\ (RequestAnswered(c) \/ Complete(c))

\* Every step is quiet, or one of those.
LEMMA QuietOrNot ==
    ASSUME OnceInv, Suiting, Connected, Proper, [DeviceNext]_deviceVars
    PROVE  (\E D, T : Quiet(D, T)) \/ MovesKey
<1>1. CASE Manager \/ EndedEarly \/ UNCHANGED deviceVars
  BY <1>1, ManagerQuiet, StutterQuiet
<1>2. ASSUME NEW d \in Driver, Announce(d) \/ DriverStep(d) \/ InputAvailable(d)
      PROVE  (\E D, T : Quiet(D, T)) \/ MovesKey
  BY <1>2, DriverQuiet, InputQuiet, RequestQuiet DEF DriverStep, MovesKey
<1>3. ASSUME NEW c \in Client,
             Lookup(c) \/ Open(c) \/ SendRequest(c) \/ ReadAsync(c) \/ Continue(c)
      PROVE  (\E D, T : Quiet(D, T)) \/ MovesKey
  BY <1>3, SeekQuiet, OpenQuiet, SendQuiet, AsyncQuiet, AnswerQuiet DEF Continue, MovesKey
<1> QED BY <1>1, <1>2, <1>3 DEF DeviceNext, MovesKey

-----------------------------------------------------------------------------
(* Devices: the bytes of keys, and the notices of the interrupt *)

Keycode == Nat \cup {NoKey}

\* What holds keys, and no asynchronous client waits between its requests.
KeysTyped ==
    /\ byte \in [key : Keycode, signalled : BOOLEAN]
    /\ typed \in Seq(Keycode) /\ buffer \in Seq(Keycode) /\ got \in [Client -> Seq(Keycode)]
    /\ \A s \in DOMAIN data : data[s] \in Keycode
    /\ \A c \in AsyncClient : client[c].pc # "waiting"

\* What a key that is handed on leaves behind.
LEMMA KeyReadTyped ==
    ASSUME KeysTyped, NEW s, NEW b \in Seq(Keycode), b # << >>, NEW p, KeyRead(s, b, p)
    PROVE  /\ buffer' \in Seq(Keycode) /\ DOMAIN data' = DOMAIN data
           /\ \A t \in DOMAIN data' : data'[t] \in Keycode
           /\ \A k : b = << k >> => buffer' = << >> /\ (s \in DOMAIN data => data'[s] = k)
           /\ \A t \in DOMAIN data : t # s => data'[t] = data[t]
<1>1. data' = [data EXCEPT ![s] = IF Len(b) = 1 THEN b[1] ELSE NoKey] /\ buffer' = Front(b)
  BY DEF KeyRead
<1>2. PICK x \in Keycode : x = IF Len(b) = 1 THEN b[1] ELSE NoKey
  <2>1. NoKey \in Keycode
    BY DEF Keycode
  <2>2. Len(b) = 1 => b[1] \in Keycode
    OBVIOUS
  <2> QED BY <2>1, <2>2
<1>3. data' = [data EXCEPT ![s] = x]
  BY <1>1, <1>2
<1>4. /\ DOMAIN data' = DOMAIN data /\ \A t \in DOMAIN data : t # s => data'[t] = data[t]
      /\ s \in DOMAIN data => data'[s] = x
  BY <1>3
<1>5. \A t \in DOMAIN data' : data'[t] \in Keycode
  BY <1>4 DEF KeysTyped
<1>6. Front(b) = SubSeq(b, 1, Len(b) - 1)
  BY DEF Front
<1>7. Front(b) \in Seq(Keycode)
  BY <1>6
<1>8. ASSUME NEW k, b = << k >> PROVE Front(b) = << >> /\ x = k
  BY <1>2, <1>6, <1>8
<1> QED BY <1>1, <1>4, <1>5, <1>7, <1>8

\* Quiet steps keep the types.
LEMMA KeysTypedQuiet == ASSUME KeysTyped, NEW D, NEW T, Quiet(D, T) PROVE KeysTyped'
BY DEF KeysTyped, Quiet, Keycode

\* A key of the buffer, or the one that the driver takes, is handed on.
LEMMA HandedTyped ==
    ASSUME OnceInv, KeysTyped, NEW d \in Driver,
           (HandleRequest(d) /\ ReadsNow(d)) \/ HandleInterrupt(d)
    PROVE  KeysTyped'
<1>1. UNCHANGED << typed, got, client >>
  BY DEF HandleRequest, HandleInterrupt, clientVars
<1>2. CASE HandleRequest(d) /\ ReadsNow(d)
  <2>1. PICK s, p : KeyRead(s, buffer, p)
    BY <1>2 DEF ReadsNow
  <2>2. buffer # << >> /\ byte' = byte
    BY <1>2 DEF ReadsNow, HandleRequest
  <2>3. buffer' \in Seq(Keycode) /\ \A t \in DOMAIN data' : data'[t] \in Keycode
    BY <2>1, <2>2, KeyReadTyped DEF KeysTyped
  <2> QED BY <1>1, <2>2, <2>3 DEF KeysTyped
<1>3. CASE HandleInterrupt(d)
  <2>1. byte' = [key |-> NoKey, signalled |-> FALSE]
    BY <1>3 DEF HandleInterrupt
  <2>2. byte' \in [key : Keycode, signalled : BOOLEAN]
    BY <2>1 DEF Keycode
  <2>3. PICK b \in Seq(Keycode) : b = Append(buffer, byte.key) /\ b # << >>
    <3>1. buffer \in Seq(Keycode) /\ byte.key \in Keycode
      BY DEF KeysTyped
    <3>2. Append(buffer, byte.key) \in Seq(Keycode) /\ Append(buffer, byte.key) # << >>
      BY <3>1, AppendElements
    <3> QED BY <3>2, Zenon
  <2>4. buffer' \in Seq(Keycode) /\ \A t \in DOMAIN data' : data'[t] \in Keycode
    <3>1. TakesKey(d)
      BY <1>3, HandleInterruptSteps
    <3>2. CASE data' = data /\ buffer' = Append(buffer, byte.key)
      BY <2>3, <3>2 DEF KeysTyped
    <3>3. ASSUME NEW s, NEW p, KeyRead(s, b, p)
          PROVE  buffer' \in Seq(Keycode) /\ \A t \in DOMAIN data' : data'[t] \in Keycode
      BY <2>3, <3>3, KeyReadTyped
    <3> QED BY <2>3, <3>1, <3>2, <3>3 DEF TakesKey
  <2> QED BY <1>1, <2>2, <2>4 DEF KeysTyped
<1> QED BY <1>2, <1>3

\* All steps do.
LEMMA KeysTypedStep ==
    ASSUME OnceInv, Suiting, Connected, Proper, KeysTyped, [DeviceNext]_deviceVars PROVE KeysTyped'
<1>1. CASE KeyPressed
  <2>1. PICK n \in Nat : n = Len(typed) + 1
    BY DEF KeysTyped
  <2>2. /\ typed' = Append(typed, n) /\ byte' = [key |-> n, signalled |-> FALSE]
        /\ UNCHANGED << buffer, data, got, client >>
    BY <1>1, <2>1 DEF KeyPressed, clientVars
  <2>3. n \in Keycode
    BY DEF Keycode
  <2>4. typed' \in Seq(Keycode)
    BY <2>2, <2>3, AppendElements DEF KeysTyped
  <2> QED BY <2>2, <2>3, <2>4 DEF KeysTyped
<1>2. CASE KeyInterrupt
  <2>1. UNCHANGED << typed, buffer, data, got, client >> /\ byte' = [byte EXCEPT !.signalled = TRUE]
    BY <1>2 DEF KeyInterrupt, clientVars
  <2> QED BY <2>1 DEF KeysTyped
<1>3. ASSUME NEW c \in Client, wants[c] = "INPUT", RequestAnswered(c) \/ Complete(c)
      PROVE  KeysTyped'
  <2>1. UNCHANGED << byte, typed, buffer, data >> /\ Read(c)
    BY <1>3 DEF RequestAnswered, Complete, keyVars
  <2>2. Bound(client, c)
    <3>1. CASE RequestAnswered(c)
      BY <3>1 DEF RequestAnswered, Bound
    <3>2. CASE Complete(c)
      <4>1. PICK q : q = LocalPort[c]
        OBVIOUS
      <4>2. PICK m : m = Head(box[q])
        OBVIOUS
      <4>3. c \in AsyncClient /\ q \in DOMAIN box /\ box[q] # << >> /\ m.kind = "done"
        BY <3>2, <4>1, <4>2 DEF Complete, Arrived
      <4>4. PICK rest : rest = Received(q)
        OBVIOUS
      <4>5. m \in ToSet(box[q])
        BY <4>2, <4>3, <4>4, TakeMessage DEF MessageTaken
      <4> QED BY <4>1, <4>3, <4>5, Completing
    <3> QED BY <1>3, <3>1, <3>2
  <2>3. data[client[c].shmem] \in Keycode
    BY <2>2 DEF Connected, HasRegion, Bound, KeysTyped
  <2>4. PICK k \in Keycode : got' = [got EXCEPT ![c] = Append(got[c], k)]
    BY <1>3, <2>1, <2>3 DEF Read
  <2>5. got' \in [Client -> Seq(Keycode)]
    <3>1. PICK l \in Seq(Keycode) : l = Append(got[c], k)
      BY AppendElements DEF KeysTyped
    <3>2. got' = [got EXCEPT ![c] = l]
      BY <2>4, <3>1
    <3> QED BY <3>2 DEF KeysTyped
  <2>6. \A e \in AsyncClient : client'[e].pc # "waiting"
    <3>1. CASE RequestAnswered(c)
      <4>1. client' = [client EXCEPT ![c].pc = "open"]
        BY <3>1 DEF RequestAnswered
      <4>2. PICK new : new = [client[c] EXCEPT !.pc = "open"]
        OBVIOUS
      <4>3. client' = [client EXCEPT ![c] = new]
        BY <4>1, <4>2
      <4>4. c \notin AsyncClient
        BY <3>1 DEF RequestAnswered, KeysTyped
      <4> QED BY <4>3, <4>4 DEF OnceInv, ClientsFit, KeysTyped, Client
    <3>2. CASE Complete(c)
      BY <3>2 DEF Complete, KeysTyped
    <3> QED BY <1>3, <3>1, <3>2
  <2> QED BY <2>1, <2>5, <2>6 DEF KeysTyped
<1> QED BY <1>1, <1>2, <1>3, QuietOrNot, KeysTypedQuiet, HandedTyped DEF MovesKey

\* The driver is told of a key that is there, once.
Noted(q, m) == m.kind = "irq" => q = irqPort /\ byte.signalled /\ byte.key # NoKey
\* One notice at most is there, for the keyboard's driver, while a key is in the
\* controller.
Irqs == \A q \in DOMAIN box : OneNotice(box[q]) /\ \A m \in ToSet(box[q]) : Noted(q, m)

\* The port of the interrupt is there for good.
LEMMA IrqPortKept ==
    ASSUME OnceInv, ListStep, irqPort \in DOMAIN box PROVE irqPort' = irqPort
<1>1. irqPort # NoPort
  BY DEF OnceInv, PortsFit, NoPort
<1> QED BY <1>1 DEF ListStep, Accepts, CanOpen

\* Where no notice is sent, there are none that should not be.
LEMMA IrqsKept ==
    ASSUME OnceInv, Irqs, NEW D, NEW T, Steps(D, T, None),
           byte' = byte \/ \A q \in DOMAIN box' : NoNotice(box'[q])
    PROVE  Irqs'
<1>1. MailStep(D, T, None) /\ ListStep
  BY DEF Steps
<1>2. \A k \in DOMAIN box' : OneNotice(box'[k])
  BY <1>1 DEF MailStep, Irqs, None
<1>3. ASSUME NEW k \in DOMAIN box', NEW m \in ToSet(box'[k]), m.kind = "irq"
      PROVE  Noted(k, m)'
  <2>1. byte' = byte
    BY <1>3 DEF NoNotice
  <2>2. k \in DOMAIN box /\ m \in ToSet(box[k])
    BY <1>1, <1>3 DEF MailStep, Posted, None, Told, Requesting
  <2> QED BY <1>1, <1>3, <2>1, <2>2, IrqPortKept DEF Irqs, Noted
<1> QED BY <1>2, <1>3 DEF Irqs, Noted

\* The notice goes with the key, and one is sent only for a new key.
LEMMA IrqsStep ==
    ASSUME OnceInv, Suiting, Connected, Proper, KeysTyped, Irqs, [DeviceNext]_deviceVars PROVE Irqs'
<1>1. CASE KeyPressed
  <2>1. Steps(None, None, None) /\ box' = box /\ byte.key = NoKey
    BY <1>1, KeyPressedSteps DEF KeyPressed
  <2>2. \A q \in DOMAIN box' : NoNotice(box'[q])
    BY <2>1 DEF Irqs, Noted, NoNotice
  <2> QED BY <2>1, <2>2, IrqsKept
<1>2. CASE KeyInterrupt
  <2>1. /\ byte.key # NoKey /\ ~byte.signalled /\ irqPort' = irqPort
        /\ byte' = [byte EXCEPT !.signalled = TRUE]
    BY <1>2 DEF KeyInterrupt
  <2>2. byte'.signalled /\ byte'.key # NoKey
    BY <2>1 DEF KeysTyped
  <2>3. /\ MailStep(None, None, Only(irqPort))
        /\ NoNotice(box[irqPort]) => OneNotice(box'[irqPort])
    BY <1>2, KeyInterruptSteps DEF Steps
  <2>4. irqPort \in DOMAIN box /\ NoNotice(box[irqPort])
    BY <1>2, <2>1, AsyncPorts DEF OnceInv, PortsFit, KeyInterrupt, Irqs, Noted, NoNotice
  <2>5. \A k \in DOMAIN box' : OneNotice(box'[k])
    BY <2>3, <2>4 DEF MailStep, Only, Irqs
  <2>6. ASSUME NEW k \in DOMAIN box', NEW m \in ToSet(box'[k]), m.kind = "irq"
        PROVE  k = irqPort
    BY <2>3, <2>6 DEF MailStep, Only, Irqs, Noted, Posted, Told, Requesting
  <2> QED BY <2>1, <2>2, <2>5, <2>6 DEF Irqs, Noted
<1>3. ASSUME NEW d \in Driver, HandleInterrupt(d) PROVE Irqs'
  <2>1. /\ TakesKey(d) /\ LocalPort[d] \in DOMAIN box
        /\ \E m \in ToSet(box[LocalPort[d]]) : m.kind = "irq"
        /\ OneNotice(box[LocalPort[d]]) => NoNotice(box'[LocalPort[d]])
    BY <1>3, HandleInterruptSteps, AsyncPorts DEF OnceInv, PortsFit
  <2>2. PICK D : Steps(D, None, None)
    BY <2>1 DEF TakesKey
  <2>3. irqPort = LocalPort[d] /\ NoNotice(box'[LocalPort[d]])
    BY <2>1 DEF Irqs, Noted
  <2>4. ASSUME NEW q \in DOMAIN box', NEW m \in ToSet(box'[q]), m.kind = "irq"
        PROVE  FALSE
    <3>1. q \in DOMAIN box /\ m \in ToSet(box[q])
      BY <2>2, <2>4 DEF Steps, MailStep, Posted, None, Told, Requesting
    <3> QED BY <2>3, <2>4, <3>1 DEF Irqs, Noted, NoNotice
  <2> QED BY <2>2, <2>4, IrqsKept DEF NoNotice
<1>4. ASSUME NEW d \in Driver, HandleRequest(d), Steps(Only(d), None, None) PROVE Irqs'
  BY <1>4, IrqsKept DEF HandleRequest
<1>5. ASSUME NEW c \in Client, RequestAnswered(c) \/ Complete(c) PROVE Irqs'
  <2>1. byte' = byte /\ \E T : Steps(None, T, None)
    BY <1>5, RequestAnsweredSteps, CompleteSteps DEF RequestAnswered, Complete, keyVars
  <2> QED BY <2>1, IrqsKept
<1>6. ASSUME NEW D, NEW T, Quiet(D, T) PROVE Irqs'
  BY <1>6, IrqsKept DEF Quiet
<1> QED BY <1>1, <1>2, <1>3, <1>4, <1>5, <1>6, QuietOrNot DEF MovesKey

-----------------------------------------------------------------------------
(* Devices: what was typed is what was read and what is on its way *)

\* The keys that were read, the one handed on, the buffered ones and the one of the controller.
Spread(g, h, b, e) == g \o (h \o (b \o e))
Lone(x) == << x >>
No == << >>

\* No key and one are lists; a list goes on with one.
LEMMA LoneList ==
    ASSUME NEW S, NEW x \in S
    PROVE  /\ No \in Seq(S) /\ Lone(x) \in Seq(S)
           /\ \A s \in Seq(S) : Append(s, x) = s \o Lone(x) /\ s \o No = s /\ No \o s = s
<1>1. PICK u \in Seq(S) : u = << x >>
  <2>1. << x >> \in Seq(S)
    OBVIOUS
  <2> QED BY <2>1, Zenon
<1>2. PICK z \in Seq(S) : z = << >>
  BY EmptySeq, Zenon
<1>3. \A s \in Seq(S) : Append(s, x) = s \o u /\ s \o z = s /\ z \o s = s
  BY <1>1, <1>2
<1> QED BY <1>1, <1>2, <1>3, Zenon DEF Lone, No

\* A key that moves from one place to the next leaves them together as they were.
LEMMA SpreadMoves ==
    ASSUME NEW S, NEW g \in Seq(S), NEW b \in Seq(S), NEW e \in Seq(S), NEW x \in S
    PROVE  /\ Spread(g, No, No, Lone(x)) = Spread(g, Lone(x), No, No)
           /\ Spread(g, Lone(x), No, e) = Spread(g, No, Lone(x), e)
           /\ Spread(g, Lone(x), b, e) = Spread(Append(g, x), No, b, e)
<1>0. PICK u \in Seq(S) : u = Lone(x)
  BY LoneList, Zenon
<1>1. No \in Seq(S)
  BY LoneList
<1>2. \A s \in Seq(S) : Append(s, x) = s \o u /\ s \o No = s /\ No \o s = s
  BY <1>0, LoneList
<1>3. \A s, t \in Seq(S) : s \o t \in Seq(S)
  BY ConcatProperties
<1>4. PICK w \in Seq(S) : w = b \o e
  BY <1>3, Zenon
<1>5. PICK v \in Seq(S) : v = u \o e
  BY <1>1, <1>3, Zenon
<1>6. (g \o u) \o w = g \o (u \o w)
  OBVIOUS
<1>7. Spread(g, No, No, u) = Spread(g, u, No, No)
  BY <1>1, <1>2, Zenon DEF Spread
<1>8. Spread(g, u, No, e) = Spread(g, No, u, e)
  BY <1>1, <1>2, <1>5, Zenon DEF Spread
<1>9. Spread(g, u, b, e) = Spread(Append(g, x), No, b, e)
  BY <1>1, <1>2, <1>4, <1>6, Zenon DEF Spread
<1> QED BY <1>0, <1>7, <1>8, <1>9

\* A key the driver takes.
LEMMA SpreadTaken ==
    ASSUME NEW S, NEW g \in Seq(S), NEW h \in Seq(S), NEW b \in Seq(S), NEW x \in S
    PROVE  /\ Spread(g, h, Append(b, x), No) = Spread(g, h, b, Lone(x))
           /\ Append(Spread(g, h, b, No), x) = Spread(g, h, b, Lone(x))
<1>0. PICK u \in Seq(S) : u = Lone(x)
  BY LoneList, Zenon
<1>1. No \in Seq(S)
  BY LoneList
<1>2. \A s \in Seq(S) : Append(s, x) = s \o u /\ s \o No = s
  BY <1>0, LoneList
<1>3. \A s, t \in Seq(S) : s \o t \in Seq(S)
  BY ConcatProperties
<1>4. PICK bu \in Seq(S) : bu = b \o u
  BY <1>1, <1>3, Zenon
<1>5. PICK y \in Seq(S) : y = h \o b
  BY <1>3, Zenon
<1>6. PICK gy \in Seq(S) : gy = g \o y
  BY <1>3, Zenon
<1>7. (g \o y) \o u = g \o (y \o u)
  <2>1. Joined(Joined(g, y), u) = Joined(g, Joined(y, u))
    BY JoinedAssociate
  <2> QED BY <2>1, Zenon DEF Joined
<1>8. (h \o b) \o u = h \o (b \o u)
  <2>1. Joined(Joined(h, b), u) = Joined(h, Joined(b, u))
    BY JoinedAssociate
  <2> QED BY <2>1, Zenon DEF Joined
<1>9. Spread(g, h, Append(b, x), No) = Spread(g, h, b, u)
  BY <1>2, <1>4, Zenon DEF Spread
<1>10. Append(Spread(g, h, b, No), x) = Spread(g, h, b, u)
  BY <1>2, <1>5, <1>6, <1>7, <1>8, Zenon DEF Spread
<1> QED BY <1>0, <1>9, <1>10

\* What was read comes first.
LEMMA SpreadBegins ==
    ASSUME NEW S, NEW g \in Seq(S), NEW h \in Seq(S), NEW b \in Seq(S), NEW e \in Seq(S)
    PROVE  IsPrefix(g, Spread(g, h, b, e))
<1>1. h \o (b \o e) \in Seq(S)
  OBVIOUS
<1> QED BY <1>1, FrontIsPrefix DEF Spread

-----------------------------------------------------------------------------
(* Devices: the keys are kept in order *)

\* What the order of the keys rests on.
Serviced == OnceInv /\ Suiting /\ Connected /\ Proper /\ KeysTyped /\ Irqs

\* The key of the controller, and the one handed to a client that has not read it yet.
Held == IF byte.key = NoKey THEN No ELSE Lone(byte.key)
DoneFor(c) == \E m \in ToSet(box[AskPort(client, c)]) : m.kind = "done"
Handed(c) == IF DoneFor(c) THEN Lone(data[client[c].shmem]) ELSE No

\* What was read, is handed over, buffered and held is what was typed, and nothing is
\* buffered while a read waits.
Keys ==
    /\ \A d \in Driver : typeOf[d] = "INPUT" /\ pending[d] # << >> => buffer = << >>
    /\ \A c \in Client : got[c] # << >> => Reader(c)
    /\ ~crowded =>
         /\ Len(buffer) <= 1
         /\ (\A c \in Client : ~Reader(c)) => typed = Spread(No, No, buffer, Held)
         /\ \A c \in Client : Watching(c) => typed = Spread(got[c], Handed(c), buffer, Held)

\* There is one reader, and its answer, its call and its request are not there together.
SoleReader == \A c, e \in Client : Reader(c) /\ Reader(e) => c = e
SolePlace == \A c \in Client : Watching(c) /\ DoneFor(c) =>
    /\ ~CalledFor(box, AskPort(client, c)) /\ ~Queueing(pending, AskPort(client, c))
    /\ ~(c \in SyncClient /\ client[c].pc = "open")

\* It follows from the counts.
LEMMA Soles == Serviced => SoleReader /\ SolePlace
<1> SUFFICES ASSUME Serviced PROVE SoleReader /\ SolePlace
  OBVIOUS
<1>0. OnceInv /\ Suiting /\ Connected /\ Proper
  BY DEF Serviced
<1>1. SoleReader
  BY <1>0, OneReader DEF SoleReader, Reader
<1>2. ASSUME NEW c \in Client, Watching(c), DoneFor(c)
      PROVE  /\ ~CalledFor(box, AskPort(client, c)) /\ ~Queueing(pending, AskPort(client, c))
             /\ ~(c \in SyncClient /\ client[c].pc = "open")
  <2>1. AnswerOn(box, AskPort(client, c))
    BY <1>2 DEF DoneFor, AnswerOn, Answers
  <2> QED BY <1>0, <1>2, <2>1, WatchedAlone
<1> QED BY <1>1, <1>2 DEF SolePlace

\* So it is after a step.
LEMMA SolesNext == Serviced' => SoleReader' /\ SolePlace'
BY Soles, PTL

\* The region of the reader is there, and its port.
LEMMA ReaderFits ==
    ASSUME Serviced, NEW c \in Client, Reader(c)
    PROVE  /\ client[c].shmem \in DOMAIN data /\ data[client[c].shmem] \in Keycode
           /\ AskPort(client, c) \in DOMAIN box
<1>1. AskPort(client, c) \in DOMAIN box
  BY AskPorts DEF Serviced, Reader
<1>2. client[c].shmem \in DOMAIN data
  BY DEF Serviced, Connected, Reader, Bound, HasRegion
<1> QED BY <1>1, <1>2 DEF Serviced, KeysTyped

\* The keys that there are.
LEMMA KeysLists ==
    ASSUME Serviced
    PROVE  /\ buffer \in Seq(Keycode) /\ Held \in Seq(Keycode) /\ No \in Seq(Keycode)
           /\ typed \in Seq(Keycode) /\ byte.key \in Keycode
           /\ \A c \in Client : got[c] \in Seq(Keycode)
           /\ \A c \in Client : Reader(c) => Handed(c) \in Seq(Keycode)
<1>1. /\ buffer \in Seq(Keycode) /\ byte.key \in Keycode /\ typed \in Seq(Keycode)
      /\ \A c \in Client : got[c] \in Seq(Keycode)
  BY DEF Serviced, KeysTyped
<1>2. \A x \in Keycode : Lone(x) \in Seq(Keycode) /\ No \in Seq(Keycode)
  BY LoneList
<1>3. Held \in Seq(Keycode) /\ No \in Seq(Keycode)
  BY <1>1, <1>2 DEF Held
<1>4. ASSUME NEW c \in Client, Reader(c) PROVE Handed(c) \in Seq(Keycode)
  <2>1. data[client[c].shmem] \in Keycode
    BY <1>4, ReaderFits
  <2> QED BY <1>2, <1>3, <2>1 DEF Handed
<1> QED BY <1>1, <1>3, <1>4

\* A client whose keys are followed was followed before, or has just got its device.
LEMMA WatchedBefore ==
    ASSUME NEW D, NEW T, NEW I, Steps(D, T, I), NEW c \in Client
    PROVE  /\ Reader(c) => /\ Reader(c)' /\ AskPort(client', c) = AskPort(client, c)
                           /\ client'[c].shmem = client[c].shmem
           /\ Watching(c)' /\ Reader(c) => Watching(c)
           /\ Reader(c)' /\ ~Reader(c) => ~Bound(client, c) /\ client'[c].pc = "open"
<1>1. ListStep /\ ClientStep
  BY DEF Steps
<1>2. wants' = wants /\ failed \subseteq failed'
  BY <1>1 DEF ListStep, setting
<1>3. Disturbed \subseteq Disturbed'
  BY <1>2 DEF Disturbed
<1>4. Bound(client, c) =>
        /\ Bound(client', c) /\ client'[c].reply = client[c].reply
        /\ client'[c].shmem = client[c].shmem
  BY <1>1, Moving
<1>5. Bound(client', c) /\ ~Bound(client, c) => client'[c].pc = "open"
  BY <1>1, Moving
<1> QED BY <1>2, <1>3, <1>4, <1>5 DEF Reader, Watching, AskPort

\* An answer to a request is for who asks a driver.
LEMMA DoneAsked ==
    ASSUME OnceInv, Proper, NEW D, \A d \in D : d \in Driver, NEW I, NEW k, NEW m,
           Posted(D, I, k, m), m.kind = "done"
    PROVE  \E d \in D : \E e \in Client : Asker(client, e, LocalPort[d], k)
<1>1. PICK d \in D : Owes(d, k)
  BY DEF Posted, Told, Requesting
<1>2. d \in Driver /\ LocalPort[d] \in DOMAIN box
  BY AsyncPorts DEF OnceInv, PortsFit
<1> QED BY <1>1, <1>2 DEF Owes, Proper, AsksFor

\* No key is handed to the reader where drivers of other devices finish requests only.
LEMMA SameDone ==
    ASSUME Serviced, Serviced', NEW D, \A d \in D : d \in Driver /\ typeOf[d] # "INPUT",
           NEW T, NEW I, Steps(D, T, I), NoReaderOf(T), NEW c \in Client, Reader(c)
    PROVE  DoneFor(c)' <=> DoneFor(c)
<1> DEFINE p == AskPort(client, c)
<1>0. OnceInv /\ Suiting /\ Proper /\ MailStep(D, T, I)
  BY DEF Serviced, Steps
<1>1. p \in DOMAIN box /\ AskPort(client', c) = p /\ p \notin T
  BY ReaderFits, WatchedBefore DEF NoReaderOf
<1>2. DoneFor(c) => DoneFor(c)'
  BY <1>0, <1>1 DEF DoneFor, MailStep
<1>3. ASSUME NEW m \in ToSet(box'[p]), m.kind = "done" PROVE DoneFor(c)
  <2>1. p \in DOMAIN box'
    <3>1. HasReply(c)'
      BY WatchedBefore DEF Reader, Bound, HasReply, Waiting
    <3>2. client'[c].reply \in DOMAIN box' /\ Locals \subseteq DOMAIN box'
      BY <3>1 DEF Serviced, OnceInv, ClientsFit, PortsFit
    <3>3. c \notin SyncClient => LocalPort[c] \in Locals
      BY AsyncPorts DEF Client
    <3> QED BY <1>1, <3>2, <3>3 DEF AskPort
  <2>2. CASE m \in ToSet(box[p])
    BY <1>3, <2>2 DEF DoneFor
  <2>3. CASE Posted(D, I, p, m)
    <3>1. PICK d \in D : \E e \in Client : Asker(client, e, LocalPort[d], p)
      BY <1>0, <1>3, <2>3, DoneAsked
    <3>2. PICK e \in Client : Asker(client, e, LocalPort[d], p)
      BY <3>1
    <3>3. e = c
      BY <1>0, <3>2, AskPorts DEF Asker, Reader
    <3>4. typeOf[d] = "INPUT"
      BY <1>0, <3>2, <3>3, AskerReads DEF Reader
    <3> QED BY <3>4
  <2> QED BY <1>0, <1>3, <2>1, <2>2, <2>3 DEF MailStep
<1> QED BY <1>1, <1>2, <1>3 DEF DoneFor

\* A step that moves no key.
LEMMA StillKeys ==
    ASSUME Serviced, Serviced', Keys, NEW D, \A d \in D : d \in Driver /\ typeOf[d] # "INPUT",
           NEW T, NEW I, Steps(D, T, I), NoReaderOf(T),
           UNCHANGED << buffer, typed, crowded, got >>, Held' = Held,
           \A s \in DOMAIN data' : data'[s] = IF s \in DOMAIN data THEN data[s] ELSE NoKey,
           \A d \in Driver : typeOf[d] = "INPUT" /\ buffer # << >> /\ pending[d] = << >> =>
             pending'[d] = << >>
    PROVE  Keys'
<1>0. OnceInv /\ Suiting /\ Proper /\ ListStep /\ ClientStep /\ MailStep(D, T, I)
  BY DEF Serviced, Steps
<1>1. typeOf' = typeOf
  BY <1>0 DEF ListStep, setting
<1>2. \A c \in Client : got'[c] # << >> => Reader(c)'
  BY WatchedBefore DEF Keys
<1>3. ASSUME ~crowded, NEW c \in Client, Watching(c)'
      PROVE  typed' = Spread(got'[c], Handed(c)', buffer', Held')
  <2>0. Reader(c)'
    BY <1>3 DEF Watching
  <2>1. CASE Reader(c)
    <3>1. Watching(c) /\ client'[c].shmem = client[c].shmem
      BY <1>3, <2>1, WatchedBefore
    <3>2. client[c].shmem \in DOMAIN data /\ client[c].shmem \in DOMAIN data'
      BY <1>0, <2>1, ReaderFits DEF ClientStep
    <3>3. DoneFor(c)' <=> DoneFor(c)
      BY <2>1, SameDone
    <3>4. Handed(c)' = Handed(c)
      BY <3>1, <3>2, <3>3 DEF Handed, Lone, No
    <3> QED BY <1>3, <3>1, <3>4 DEF Keys
  <2>2. CASE ~Reader(c)
    <3>1. \A e \in Client : ~Reader(e)
      <4> SUFFICES ASSUME NEW e \in Client, Reader(e) PROVE FALSE
        OBVIOUS
      <4>1. Reader(e)'
        BY WatchedBefore
      <4>2. e = c
        BY <2>0, <4>1, SolesNext DEF SoleReader
      <4> QED BY <2>2, <4>2
    <3>2. typed = Spread(No, No, buffer, Held) /\ got[c] = No
      BY <1>3, <2>2, <3>1 DEF Keys, No
    <3>3. ~Bound(client, c) /\ client'[c].pc = "open"
      BY <2>0, <2>2, WatchedBefore
    <3>4. ~DoneFor(c)'
      <4>1. CASE c \in SyncClient
        BY <1>3, <3>3, <4>1, SolesNext DEF SolePlace
      <4>2. CASE c \notin SyncClient
        <5> DEFINE p == LocalPort[c]
        <5>1. c \in AsyncClient /\ p \in Locals /\ p \in DOMAIN box /\ p \in DOMAIN box'
              /\ AskPort(client', c) = p
          BY <1>0, <4>2, AsyncPorts DEF Client, AskPort, Serviced, OnceInv, PortsFit
        <5>2. ASSUME NEW m \in ToSet(box'[p]), m.kind = "done" PROVE FALSE
          <6>1. CASE m \in ToSet(box[p])
            BY <1>0, <3>3, <5>1, <5>2, <6>1, Completing
          <6>2. CASE Posted(D, I, p, m)
            <7>1. PICK d \in D : \E e \in Client : Asker(client, e, LocalPort[d], p)
              BY <1>0, <5>2, <6>2, DoneAsked
            <7>2. PICK e \in Client : Asker(client, e, LocalPort[d], p)
              BY <7>1
            <7>3. e \notin SyncClient
              BY <1>0, <5>1, <7>2 DEF Asker, AskPort, Bound, OnceInv, ClientsFit, HasReply, Waiting
            <7>4. e = c
              BY <5>1, <7>2, <7>3, AsyncPorts DEF Asker, AskPort, Client
            <7> QED BY <3>3, <7>2, <7>4 DEF Asker
          <6> QED BY <1>0, <5>1, <5>2, <6>1, <6>2 DEF MailStep
        <5> QED BY <5>1, <5>2 DEF DoneFor
      <4> QED BY <4>1, <4>2
    <3> QED BY <3>2, <3>4 DEF Handed
  <2> QED BY <2>1, <2>2
<1>4. (\A c \in Client : ~Reader(c)') => \A c \in Client : ~Reader(c)
  BY WatchedBefore
<1>5. /\ \A d \in Driver : typeOf'[d] = "INPUT" /\ pending'[d] # << >> => buffer' = << >>
      /\ ~crowded' => /\ Len(buffer') <= 1
                      /\ (\A c \in Client : ~Reader(c)') => typed' = Spread(No, No, buffer', Held')
  BY <1>1, <1>4 DEF Keys
<1> QED BY <1>2, <1>3, <1>5 DEF Keys

\* A key is pressed.
LEMMA KeyPressedKeys == ASSUME Serviced, Serviced', Keys, KeyPressed PROVE Keys'
<1>0. UNCHANGED << box, pending, buffer, crowded, data, got, client, wants, typeOf, failed >>
  BY DEF KeyPressed, driverVars, clientVars, setting
<1>1. PICK n \in 1 .. MaxKeys : n = Len(typed) + 1
  <2>1. Len(typed) \in Nat /\ MaxKeys \in Nat
    BY KeysLists, DeviceAssumption
  <2> QED BY <2>1 DEF KeyPressed
<1>2. n # NoKey /\ n \in Keycode
  BY DeviceAssumption DEF Keycode
<1>3. Held = No /\ Held' = Lone(n) /\ typed' = Append(typed, n)
  <2>1. byte.key = NoKey /\ byte' = [key |-> n, signalled |-> FALSE] /\ typed' = Append(typed, n)
    BY <1>1 DEF KeyPressed
  <2>2. byte'.key = n
    BY <2>1
  <2> QED BY <1>2, <2>1, <2>2 DEF Held
<1>4. \A c \in Client : (Reader(c)' <=> Reader(c)) /\ (Watching(c)' <=> Watching(c))
      /\ Handed(c)' = Handed(c)
  BY <1>0 DEF Reader, Watching, Bound, Disturbed, Handed, DoneFor, AskPort
<1>5. \A g, h \in Seq(Keycode) :
        typed = Spread(g, h, buffer, Held) => typed' = Spread(g, h, buffer, Held')
  <2> SUFFICES ASSUME NEW g \in Seq(Keycode), NEW h \in Seq(Keycode),
                      typed = Spread(g, h, buffer, Held)
               PROVE  typed' = Spread(g, h, buffer, Held')
    OBVIOUS
  <2>1. PICK b \in Seq(Keycode) : b = buffer
    BY KeysLists
  <2>2. Append(Spread(g, h, b, No), n) = Spread(g, h, b, Lone(n))
    BY <1>2, SpreadTaken
  <2>3. typed = Spread(g, h, b, No)
    BY <1>3, <2>1
  <2> QED BY <1>3, <2>1, <2>2, <2>3
<1>6. (\A c \in Client : ~Reader(c)) /\ ~crowded => typed' = Spread(No, No, buffer, Held')
  BY <1>5, KeysLists DEF Keys
<1>7. ASSUME NEW c \in Client, Watching(c), ~crowded
      PROVE  typed' = Spread(got[c], Handed(c), buffer, Held')
  <2>1. got[c] \in Seq(Keycode) /\ Handed(c) \in Seq(Keycode)
    BY <1>7, KeysLists DEF Watching
  <2>2. typed = Spread(got[c], Handed(c), buffer, Held)
    BY <1>7 DEF Keys
  <2> QED BY <1>5, <2>1, <2>2
<1> QED BY <1>0, <1>4, <1>6, <1>7 DEF Keys

\* Its interrupt.
LEMMA KeyInterruptKeys == ASSUME Serviced, Serviced', Keys, KeyInterrupt PROVE Keys'
<1>1. UNCHANGED << pending, buffer, crowded, typed, data, got >> /\ byte' = [byte EXCEPT !.signalled = TRUE]
  BY DEF KeyInterrupt, driverVars, clientVars
<1>2. Held' = Held
  <2>1. byte'.key = byte.key
    BY <1>1 DEF Serviced, KeysTyped
  <2> QED BY <2>1 DEF Held
<1>3. Steps(None, None, Only(irqPort)) /\ NoReaderOf(None)
  BY KeyInterruptSteps DEF Serviced, NoReaderOf, None
<1>4. \A d \in None : d \in Driver /\ typeOf[d] # "INPUT"
  BY DEF None
<1> QED BY <1>1, <1>2, <1>3, <1>4, StillKeys

\* Who asks the keyboard is its reader, and the interrupt is sent to it.
LEMMA AskedKeyboard ==
    ASSUME Serviced, NEW d \in Driver, typeOf[d] = "INPUT", NEW c \in Client, NEW p,
           Asker(client, c, LocalPort[d], p)
    PROVE  Reader(c) /\ p = AskPort(client, c) /\ Single(conns[d], client[c].shmem)
           /\ irqPort = LocalPort[d]
<1>1. wants[c] = "INPUT" /\ Bound(client, c) /\ client[c].port = LocalPort[d]
      /\ p = AskPort(client, c)
  BY AskerReads DEF Serviced, Asker
<1>2. Single(conns[d], client[c].shmem)
  BY <1>1 DEF Serviced, Connected, ConnectedAs
<1>3. conns[d] # << >>
  BY <1>2 DEF Single
<1>4. irqPort = LocalPort[d]
  BY <1>3 DEF Serviced, Connected
<1> QED BY <1>1, <1>2, <1>4 DEF Reader

\* The driver takes the key, for its buffer or for a read that waits.
LEMMA HandleInterruptKeys ==
    ASSUME Serviced, Serviced', Keys, NEW d \in Driver, HandleInterrupt(d) PROVE Keys'
<1>0. /\ UNCHANGED << typed, got, client, wants, typeOf, failed >>
      /\ byte' = [key |-> NoKey, signalled |-> FALSE]
      /\ crowded' = (crowded \/ Len(Append(buffer, byte.key)) > 1)
  BY DEF HandleInterrupt, clientVars, setting
<1>1. irqPort = LocalPort[d] /\ byte.key # NoKey /\ TakesKey(d)
  <2>1. LocalPort[d] \in DOMAIN box
    BY AsyncPorts DEF Serviced, OnceInv, PortsFit
  <2> QED BY <2>1, HandleInterruptSteps DEF Serviced, Irqs, Noted
<1>2. PICK k \in Keycode : k = byte.key /\ Held = Lone(k) /\ Held' = No
  <2>1. byte'.key = NoKey
    BY <1>0
  <2> QED BY <1>1, <2>1, KeysLists DEF Held
<1>3. typeOf[d] = "INPUT"
  BY <1>1, DriverOfPort DEF Serviced, Connected
<1>4. \A c \in Client : (Reader(c)' <=> Reader(c)) /\ (Watching(c)' <=> Watching(c))
  BY <1>0 DEF Reader, Watching, Bound, Disturbed
<1>5. buffer \in Seq(Keycode) /\ (~crowded' => ~crowded /\ buffer = << >>)
  <2>1. buffer \in Seq(Keycode) /\ Len(buffer) \in Nat
    BY KeysLists
  <2>2. Len(Append(buffer, byte.key)) = Len(buffer) + 1
    BY <2>1
  <2>3. Len(Append(buffer, byte.key)) > 1 \/ buffer = << >>
    BY <2>1, <2>2
  <2> QED BY <1>0, <2>1, <2>3, Zenon
<1>6. \A c \in Client : got'[c] # << >> => Reader(c)'
  BY <1>0, <1>4 DEF Keys
<1>7. CASE /\ Steps(None, None, None) /\ pending[d] = << >> /\ UNCHANGED << pending, data >>
           /\ buffer' = Append(buffer, byte.key)
  <2>1. ASSUME NEW e \in Driver, typeOf[e] = "INPUT", pending[e] # << >> PROVE FALSE
    <3>1. PICK r : r \in ToSet(pending[e])
      <4>1. PICK U : pending \in [Driver -> Seq(U)]
        BY DEF Serviced, OnceInv, ListsFit, Requests, IsFamily
      <4>2. 1 \in DOMAIN pending[e]
        BY <2>1, <4>1
      <4> QED BY <4>2 DEF ToSet
    <3>2. PICK c \in Client : Asker(client, c, LocalPort[e], r.port)
      BY <3>1 DEF Serviced, Proper, AsksFor
    <3>3. LocalPort[e] = LocalPort[d]
      BY <1>1, <2>1, <3>2, AskedKeyboard
    <3>4. e = d
      BY <3>3, DriverOfPort DEF Serviced
    <3> QED BY <1>7, <2>1, <3>4
  <2>2. ~crowded' => Len(buffer') <= 1
    <3>1. buffer = << >> => Len(Append(buffer, byte.key)) <= 1
      BY KeysLists
    <3> QED BY <1>5, <1>7, <3>1
  <2>3. \A c \in Client : Reader(c) => Handed(c)' = Handed(c)
    <3> SUFFICES ASSUME NEW c \in Client, Reader(c) PROVE Handed(c)' = Handed(c)
      OBVIOUS
    <3>1. NoReaderOf(None) /\ \A e \in None : e \in Driver /\ typeOf[e] # "INPUT"
      BY DEF NoReaderOf, None
    <3>2. DoneFor(c)' <=> DoneFor(c)
      BY <1>7, <3>1, SameDone
    <3> QED BY <1>0, <1>7, <3>2 DEF Handed, Lone, No
  <2>4. \A g, h \in Seq(Keycode) :
          typed = Spread(g, h, buffer, Held) => typed' = Spread(g, h, buffer', Held')
    <3> SUFFICES ASSUME NEW g \in Seq(Keycode), NEW h \in Seq(Keycode),
                        typed = Spread(g, h, buffer, Held)
                 PROVE  typed' = Spread(g, h, buffer', Held')
      OBVIOUS
    <3>1. Spread(g, h, Append(buffer, k), No) = Spread(g, h, buffer, Lone(k))
      BY <1>5, SpreadTaken
    <3> QED BY <1>0, <1>2, <1>7, <3>1
  <2>5. ASSUME ~crowded', NEW c \in Client, Watching(c)
        PROVE  typed' = Spread(got'[c], Handed(c)', buffer', Held')
    <3>1. got[c] \in Seq(Keycode) /\ Handed(c) \in Seq(Keycode) /\ Reader(c)
      BY <2>5, KeysLists DEF Watching
    <3>2. typed = Spread(got[c], Handed(c), buffer, Held)
      BY <1>5, <2>5 DEF Keys
    <3> QED BY <1>0, <2>3, <2>4, <3>1, <3>2
  <2>6. ASSUME ~crowded', \A c \in Client : ~Reader(c)
        PROVE  typed' = Spread(No, No, buffer', Held')
    BY <1>5, <2>4, <2>6, KeysLists DEF Keys
  <2> QED BY <1>0, <1>4, <1>6, <1>7, <2>1, <2>2, <2>5, <2>6 DEF Keys
<1>8. CASE /\ Steps(Only(d), None, None)
           /\ \E r \in ToSet(pending[d]) : KeyRead(r.shmem, Append(buffer, byte.key), r.port)
  <2>1. PICK r \in ToSet(pending[d]) : KeyRead(r.shmem, Append(buffer, byte.key), r.port)
    BY <1>8
  <2>2. PICK c \in Client : /\ Asker(client, c, LocalPort[d], r.port)
                            /\ wants[c] = "INPUT" => r.shmem = client[c].shmem
    BY DEF Serviced, Proper, AsksFor
  <2>3. Reader(c) /\ r.port = AskPort(client, c) /\ r.shmem = client[c].shmem
    BY <1>3, <2>2, AskedKeyboard DEF Reader
  <2>4. buffer = << >>
    <3>1. pending[d] # << >>
      BY DEF ToSet
    <3> QED BY <1>3, <3>1 DEF Keys
  <2>5. PICK b \in Seq(Keycode) : b = << k >> /\ b = Append(buffer, byte.key) /\ b # << >>
    <3>1. << k >> \in Seq(Keycode) /\ << k >> = Append(buffer, byte.key) /\ << k >> # << >>
      BY <1>2, <2>4
    <3> QED BY <3>1
  <2>6. buffer' = << >> /\ data'[client[c].shmem] = k
    <3>1. PICK s : s = client[c].shmem
      OBVIOUS
    <3>2. KeyRead(s, b, r.port) /\ s \in DOMAIN data /\ KeysTyped
      BY <2>1, <2>3, <2>5, <3>1, ReaderFits DEF Serviced
    <3>3. \A x : b = << x >> => buffer' = << >> /\ (s \in DOMAIN data => data'[s] = x)
      BY <2>5, <3>2, KeyReadTyped
    <3> QED BY <2>5, <3>1, <3>2, <3>3
  <2>7. DoneFor(c)'
    BY <1>0, <2>1, <2>3, ReaderFits DEF KeyRead, DoneFor, AskPort
  <2>8. Handed(c)' = Lone(k)
    BY <1>0, <2>6, <2>7 DEF Handed
  <2>9. ~DoneFor(c) \/ ~Watching(c)
    <3>1. Queueing(pending, AskPort(client, c))
      BY <2>3 DEF Queueing, Serviced, OnceInv, ListsFit
    <3> QED BY <3>1, Soles DEF SolePlace
  <2>10. ASSUME ~crowded', NEW e \in Client, Watching(e)
         PROVE  typed' = Spread(got'[e], Handed(e)', buffer', Held')
    <3>1. e = c
      BY <2>3, <2>10, Soles DEF SoleReader, Watching
    <3>2. typed = Spread(got[c], No, No, Lone(k))
      BY <1>2, <1>5, <2>4, <2>9, <2>10, <3>1 DEF Keys, Handed, No
    <3>3. got[c] \in Seq(Keycode) /\ No \in Seq(Keycode)
      BY KeysLists
    <3>4. Spread(got[c], No, No, Lone(k)) = Spread(got[c], Lone(k), No, No)
      BY <3>3, SpreadMoves
    <3> QED BY <1>0, <1>2, <2>6, <2>8, <3>1, <3>2, <3>4 DEF No
  <2>11. Len(buffer') <= 1
    BY <2>6
  <2> QED BY <1>4, <1>6, <2>3, <2>6, <2>10, <2>11 DEF Keys
<1> QED BY <1>1, <1>7, <1>8 DEF TakesKey

\* A request for a key of the buffer.
LEMMA ReadsNowKeys ==
    ASSUME Serviced, Serviced', Keys, NEW d \in Driver, HandleRequest(d), ReadsNow(d) PROVE Keys'
<1>0. UNCHANGED << byte, crowded, typed, got, client, wants, typeOf >>
  BY DEF HandleRequest, clientVars, setting
<1>1. PICK m \in ToSet(box[LocalPort[d]]) :
        m.kind = "request" /\ KeyRead(conns[d][m.conn], buffer, m.port)
  BY DEF ReadsNow
<1>2. typeOf[d] = "INPUT" /\ buffer # << >> /\ pending' = pending /\ LocalPort[d] \in DOMAIN box
  BY AsyncPorts DEF ReadsNow, Serviced, OnceInv, PortsFit
<1>3. PICK c \in Client : /\ Asker(client, c, LocalPort[d], m.port)
                          /\ wants[c] = "INPUT" => m.conn = 1
  BY <1>1, <1>2 DEF Serviced, Proper, AsksFor
<1>4. /\ Reader(c) /\ m.port = AskPort(client, c) /\ m.conn = 1
      /\ conns[d][m.conn] = client[c].shmem
  <2>1. Reader(c) /\ m.port = AskPort(client, c) /\ Single(conns[d], client[c].shmem)
    BY <1>2, <1>3, AskedKeyboard
  <2>2. m.conn = 1
    BY <1>3, <2>1 DEF Reader
  <2>3. conns[d][1] = client[c].shmem
    BY <2>1 DEF Single
  <2> QED BY <2>1, <2>2, <2>3
<1>5. \A e \in Driver : ~(typeOf'[e] = "INPUT" /\ pending'[e] # << >>)
  BY <1>0, <1>2 DEF Keys
<1>6. \A e \in Client : (Reader(e)' <=> Reader(e)) /\ (Watching(e)' => Watching(e))
  <2>1. failed \subseteq failed'
    BY DEF HandleRequest
  <2> QED BY <1>0, <2>1 DEF Reader, Watching, Bound, Disturbed
<1>7. \A e \in Client : got'[e] # << >> => Reader(e)'
  BY <1>0, <1>6 DEF Keys
<1>8. ASSUME ~crowded
      PROVE  /\ Len(buffer') <= 1
             /\ \A e \in Client : Watching(e) => typed' = Spread(got'[e], Handed(e)', buffer', Held')
  <2>1. PICK b \in Seq(Keycode) : b = buffer /\ Len(b) = 1
    <3>1. buffer \in Seq(Keycode) /\ Len(buffer) <= 1
      BY <1>8, KeysLists DEF Keys
    <3>2. Len(buffer) = 1
      <4>1. buffer # << >>
        BY <1>2
      <4>2. PICK l \in Seq(Keycode) : l = buffer
        BY <3>1
      <4>3. Len(l) \in Nat /\ Len(l) # 0 /\ Len(l) <= 1
        BY <3>1, <4>1, <4>2, EmptySeq
      <4>4. \A n \in Nat : n # 0 /\ n <= 1 => n = 1
        OBVIOUS
      <4> QED BY <4>2, <4>3, <4>4, Zenon
    <3> QED BY <3>1, <3>2
  <2>2. PICK k \in Keycode : b = << k >>
    <3>1. b \in Seq(Keycode) /\ Len(b) = 1
      BY <2>1
    <3>2. b[1] \in Keycode /\ b = << b[1] >>
      BY <3>1, SingleElement
    <3> QED BY <3>2
  <2>3. buffer' = << >> /\ data'[client[c].shmem] = k
    <3>1. PICK s : s = client[c].shmem
      OBVIOUS
    <3>2. KeyRead(s, b, m.port) /\ s \in DOMAIN data /\ KeysTyped /\ b # << >>
      BY <1>1, <1>2, <1>4, <2>1, <3>1, ReaderFits DEF Serviced
    <3>3. \A x : b = << x >> => buffer' = << >> /\ (s \in DOMAIN data => data'[s] = x)
      BY <3>2, KeyReadTyped
    <3> QED BY <2>2, <3>1, <3>2, <3>3
  <2>4. DoneFor(c)'
    BY <1>0, <1>1, <1>4, ReaderFits DEF KeyRead, DoneFor, AskPort
  <2>5. Handed(c)' = Lone(k) /\ Held' = Held
    BY <1>0, <2>3, <2>4 DEF Handed, Held
  <2>6. ~DoneFor(c) \/ ~Watching(c)
    <3>1. CalledFor(box, AskPort(client, c))
      BY <1>1, <1>2, <1>4 DEF CalledFor, Asking
    <3> QED BY <3>1, Soles DEF SolePlace
  <2>7. ASSUME NEW e \in Client, Watching(e)
        PROVE  typed' = Spread(got'[e], Handed(e)', buffer', Held')
    <3>1. e = c
      BY <1>4, <2>7, Soles DEF SoleReader, Watching
    <3>2. typed = Spread(got[c], No, Lone(k), Held)
      BY <1>8, <2>1, <2>2, <2>6, <2>7, <3>1 DEF Keys, Handed, Lone
    <3>3. got[c] \in Seq(Keycode) /\ No \in Seq(Keycode) /\ Held \in Seq(Keycode)
      BY KeysLists
    <3>4. Spread(got[c], Lone(k), No, Held) = Spread(got[c], No, Lone(k), Held)
      BY <3>3, SpreadMoves
    <3> QED BY <1>0, <2>3, <2>5, <3>1, <3>2, <3>4 DEF No
  <2>8. Len(buffer') <= 1
    BY <2>3
  <2> QED BY <2>7, <2>8
<1> QED BY <1>0, <1>4, <1>5, <1>6, <1>7, <1>8 DEF Keys

\* The reader reads the key that was handed to it.
LEMMA ReadKeys ==
    ASSUME Serviced, Serviced', Keys, NEW c \in Client, wants[c] = "INPUT", NEW T,
           Steps(None, T, None), UNCHANGED << byte, buffer, typed, crowded, data, pending >>,
           Read(c), Reader(c), Watching(c) => DoneFor(c), ~DoneFor(c)' \/ ~Watching(c)'
    PROVE  Keys'
<1>0. typeOf' = typeOf /\ Held' = Held
  BY DEF Steps, ListStep, setting, Held
<1>1. PICK x \in Keycode : x = data[client[c].shmem]
  BY ReaderFits
<1>2. got'[c] = Append(got[c], x) /\ \A e \in Client : e # c => got'[e] = got[e]
  BY <1>1 DEF Read, Serviced, KeysTyped
<1>3. Reader(c)'
  BY WatchedBefore
<1>4. \A e \in Client : got'[e] # << >> => Reader(e)'
  BY <1>2, <1>3, WatchedBefore DEF Keys
<1>5. ASSUME ~crowded, NEW e \in Client, Watching(e)'
      PROVE  typed' = Spread(got'[e], Handed(e)', buffer', Held')
  <2>1. e = c
    BY <1>3, <1>5, SolesNext DEF SoleReader, Watching
  <2>2. Watching(c) /\ ~DoneFor(c)'
    BY <1>5, <2>1, WatchedBefore
  <2>3. typed = Spread(got[c], Lone(x), buffer, Held) /\ Handed(c)' = No
    BY <1>1, <1>5, <2>2 DEF Keys, Handed
  <2>4. got[c] \in Seq(Keycode) /\ buffer \in Seq(Keycode) /\ Held \in Seq(Keycode)
    BY KeysLists
  <2>5. Spread(got[c], Lone(x), buffer, Held) = Spread(Append(got[c], x), No, buffer, Held)
    BY <2>4, SpreadMoves
  <2> QED BY <1>0, <1>2, <2>1, <2>3, <2>5
<1>6. /\ \A d \in Driver : typeOf'[d] = "INPUT" /\ pending'[d] # << >> => buffer' = << >>
      /\ ~crowded' => Len(buffer') <= 1
  BY <1>0 DEF Keys
<1> QED BY <1>3, <1>4, <1>5, <1>6 DEF Keys

\* The reader takes the key that was handed to it.
LEMMA RequestAnsweredReads ==
    ASSUME Serviced, Serviced', Keys, NEW c \in Client, wants[c] = "INPUT", RequestAnswered(c)
    PROVE  Keys'
<1>1. /\ UNCHANGED << byte, buffer, typed, crowded, data, pending >> /\ Read(c)
      /\ client[c].pc = "waiting" /\ Answered(c)
      /\ client' = [client EXCEPT ![c].pc = "open"]
  BY DEF RequestAnswered, driverVars, keyVars
<1>2. Reader(c) /\ HasReply(c) /\ c \in SyncClient
  BY <1>1 DEF Reader, Bound, HasReply, Waiting, Serviced, KeysTyped, Client
<1>3. Steps(None, Only(client[c].reply), None)
  BY RequestAnsweredSteps DEF Serviced
<1>4. Watching(c) => DoneFor(c)
  <2>1. PICK m : m = Head(box[client[c].reply]) /\ m \in ToSet(box[client[c].reply])
    BY <1>1, <1>2, Answering DEF Serviced
  <2>2. Watching(c) => Clean(c)
    BY <1>2 DEF Watching, Reader, Serviced, Proper
  <2> QED BY <1>2, <2>1, <2>2 DEF Clean, DoneFor, AskPort
<1>5. client'[c].pc = "open"
  <2>1. PICK new : new = [client[c] EXCEPT !.pc = "open"]
    OBVIOUS
  <2>2. client' = [client EXCEPT ![c] = new]
    BY <1>1, <2>1
  <2>3. client'[c] = new
    BY <2>2 DEF Serviced, OnceInv, ClientsFit
  <2>4. new.pc = "open"
    BY <2>1
  <2> QED BY <2>3, <2>4
<1>6. ~DoneFor(c)' \/ ~Watching(c)'
  BY <1>2, <1>5, SolesNext DEF SolePlace
<1> QED BY <1>1, <1>2, <1>3, <1>4, <1>6, ReadKeys

\* So does the one that reads asynchronously.
LEMMA CompleteReads ==
    ASSUME Serviced, Serviced', Keys, NEW c \in Client, wants[c] = "INPUT", Complete(c)
    PROVE  Keys'
<1> DEFINE q == LocalPort[c]
<1>1. /\ UNCHANGED << byte, buffer, typed, crowded, data, pending, client >> /\ Read(c)
      /\ c \in AsyncClient /\ q \in DOMAIN box /\ box[q] # << >> /\ Head(box[q]).kind = "done"
  BY DEF Complete, Arrived, driverVars, keyVars
<1>2. AskPort(client, c) = q
  BY <1>1, DeviceAssumption DEF AskPort
<1>3. Head(box[q]) \in ToSet(box[q])
  <2>1. PICK rest : rest = Received(q)
    OBVIOUS
  <2> QED BY <1>1, <2>1, TakeMessage DEF MessageTaken, Serviced
<1>4. Reader(c) /\ DoneFor(c)
  <2>1. Bound(client, c)
    BY <1>1, <1>3, Completing DEF Serviced
  <2> QED BY <1>1, <1>2, <1>3, <2>1 DEF Reader, DoneFor
<1>5. Steps(None, Only(q), None)
  BY CompleteSteps DEF Serviced
<1>6. CalledFor(box', q)
  <2>1. PICK m1 : m1 = Requested(c, "READ", q, c)
    OBVIOUS
  <2>2. m1.kind = "request" /\ m1.port = q
    BY <2>1 DEF Requested
  <2>3. box' = Sent(Received(q), client[c].port, m1)
    BY <2>1 DEF Complete
  <2>4. client[c].port \in DOMAIN box
    BY <1>4, AsyncPorts DEF Reader, Bound, Serviced, OnceInv, ClientsFit, PortsFit, DriverPorts
  <2> HIDE DEF q
  <2>5. PICK m : Exchanged(q, m, client[c].port, m1)
    BY <1>1, <2>3, Exchange DEF Serviced
  <2>6. client[c].port \in DOMAIN box' /\ m1 \in ToSet(box'[client[c].port])
    BY <2>4, <2>5 DEF Exchanged, Swaps
  <2> QED BY <2>2, <2>6 DEF CalledFor, Asking
<1>7. ~DoneFor(c)' \/ ~Watching(c)'
  <2>1. AskPort(client', c) = q
    BY <1>1, <1>2
  <2> QED BY <1>6, <2>1, SolesNext DEF SolePlace
<1> QED BY <1>1, <1>4, <1>5, <1>7, ReadKeys

\* Every step keeps what Keys needs.
LEMMA ServicedStep == Serviced /\ [DeviceNext]_deviceVars => Serviced'
<1> SUFFICES ASSUME Serviced, [DeviceNext]_deviceVars PROVE Serviced'
  OBVIOUS
<1>0. OnceInv /\ Suiting /\ Connected /\ Proper /\ KeysTyped /\ Irqs
  BY DEF Serviced
<1>1. OnceInv'
  BY <1>0, OnceStep
<1>2. \E D, T, I : Steps(D, T, I)
  <2>1. ASSUME NEW d \in Driver, HandleInterrupt(d) PROVE \E D, T, I : Steps(D, T, I)
    BY <1>0, <2>1, HandleInterruptSteps DEF TakesKey
  <2>2. ASSUME NEW c \in Client, RequestAnswered(c) \/ Complete(c) PROVE \E D, T, I : Steps(D, T, I)
    BY <1>0, <2>2, RequestAnsweredSteps, CompleteSteps
  <2>3. KeyPressed \/ KeyInterrupt => \E D, T, I : Steps(D, T, I)
    BY <1>0, KeyPressedSteps, KeyInterruptSteps
  <2>4. (\E D, T : Quiet(D, T)) => \E D, T, I : Steps(D, T, I)
    BY DEF Quiet
  <2> QED BY <1>0, <2>1, <2>2, <2>3, <2>4, QuietOrNot DEF MovesKey
<1>3. Suiting'
  BY <1>0, <1>1, <1>2, SuitingStep
<1>4. Connected'
  BY <1>0, <1>1, <1>2, <1>3, ConnectedStep
<1>5. Proper'
  BY <1>0, <1>1, <1>2, ProperStep
<1>6. KeysTyped' /\ Irqs'
  BY <1>0, KeysTypedStep, IrqsStep
<1> QED BY <1>1, <1>3, <1>4, <1>5, <1>6 DEF Serviced

\* Every step keeps the keys in order.
LEMMA KeysStep == Serviced /\ Keys /\ [DeviceNext]_deviceVars => Keys'
<1> SUFFICES ASSUME Serviced, Keys, [DeviceNext]_deviceVars PROVE Keys'
  OBVIOUS
<1>1. Serviced'
  BY ServicedStep
<1>2. ASSUME NEW D, NEW T, Quiet(D, T) PROVE Keys'
  <2>1. Held' = Held
    BY <1>2 DEF Quiet, Held
  <2> QED BY <1>1, <1>2, <2>1, StillKeys DEF Quiet
<1>3. (\E D, T : Quiet(D, T)) \/ MovesKey
  BY QuietOrNot DEF Serviced
<1> QED BY <1>1, <1>2, <1>3, KeyPressedKeys, KeyInterruptKeys, HandleInterruptKeys, ReadsNowKeys,
           RequestAnsweredReads, CompleteReads DEF MovesKey

\* Nothing is typed at boot, and nobody is connected.
LEMMA ServicedInit == DeviceInit => Serviced /\ Keys
<1> SUFFICES ASSUME DeviceInit PROVE Serviced /\ Keys
  OBVIOUS
<1>1. OnceInv
  BY OnceInit
<1>2. /\ \A q \in DOMAIN box : box[q] = << >> /\ ToSet(box[q]) = {}
      /\ \A y \in Type : ToSet(known[y]) = {} /\ ToSet(waiters[y]) = {}
      /\ \A d \in Driver : pending[d] = << >> /\ ToSet(pending[d]) = {} /\ conns[d] = << >>
      /\ DOMAIN conns = Driver /\ failed = {} /\ irqPort = NoPort /\ DOMAIN data = {}
      /\ room \in Nat \ {0} /\ nextShmem \in Nat
  BY DeviceAssumption DEF DeviceInit, ToSet
<1>3. \A c \in Client : client[c].pc = "idle" /\ got[c] = << >>
  BY DEF DeviceInit
<1>4. byte = [key |-> NoKey, signalled |-> FALSE] /\ buffer = << >> /\ typed = << >>
      /\ got = [c \in Client |-> << >>]
  BY DEF DeviceInit
<1>5. Suiting
  BY <1>2, <1>3 DEF Suiting, HasDevice
<1>6. Connected
  BY <1>2, <1>3 DEF Connected, HasRegion, Bound
<1>7. Proper
  BY <1>2, <1>3 DEF Proper, Watching, Reader, Bound, Client
<1>8. KeysTyped
  <2>1. << >> \in Seq(Keycode)
    BY EmptySeq
  <2>2. byte \in [key : Keycode, signalled : BOOLEAN]
    BY <1>4 DEF Keycode
  <2>3. got \in [Client -> Seq(Keycode)]
    BY <1>4, <2>1
  <2> QED BY <1>2, <1>3, <1>4, <2>1, <2>2, <2>3 DEF KeysTyped, Client
<1>9. Irqs
  BY <1>2 DEF Irqs, OneNotice
<1>10. Keys
  <2>1. typed = Spread(No, No, buffer, Held)
    <3>1. Held = No
      BY <1>4 DEF Held
    <3> QED BY <1>4, <3>1 DEF Spread, No
  <2> QED BY <1>2, <1>3, <1>4, <2>1 DEF Keys, Watching, Reader, Bound
<1> QED BY <1>1, <1>5, <1>6, <1>7, <1>8, <1>9, <1>10 DEF Serviced

\* Whatever the drivers, clients and devices, and whoever opens the keyboard: as long as
\* there were never two bytes in the buffer of its driver, the one client that reads it
\* has the keys in the order they were typed, none left out and none twice, unless an
\* error that was not for it went to its port.
THEOREM KeysReadInOrder == DeviceSpec => []KeysInOrder
<1>1. Serviced /\ Keys => KeysInOrder
  <2> SUFFICES ASSUME Serviced, Keys, NEW c \in Client, ~crowded, got[c] # << >>,
                      c \in SyncClient => Undisturbed(c)
               PROVE  IsPrefix(got[c], typed)
    BY DEF KeysInOrder
  <2>1. Watching(c)
    BY DEF Keys, Watching, Reader, Undisturbed, Disturbed
  <2>2. typed = Spread(got[c], Handed(c), buffer, Held)
    BY <2>1 DEF Keys
  <2>3. PICK h \in Seq(Keycode) : h = Handed(c)
    BY <2>1, KeysLists DEF Watching
  <2> QED BY <2>2, <2>3, KeysLists, SpreadBegins
<1>2. Serviced /\ Keys /\ [DeviceNext]_deviceVars => Serviced' /\ Keys'
  BY ServicedStep, KeysStep
<1> QED BY <1>1, <1>2, ServicedInit, PTL DEF DeviceSpec
=============================================================================
