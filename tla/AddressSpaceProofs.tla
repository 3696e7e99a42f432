------------------------ MODULE AddressSpaceProofs --------------------------
(***************************************************************************)
(* For any processes, threads, sizes and modules: locks are held only by   *)
(* the calls that took them and in one order, no address is given twice,   *)
(* every page frame and every entry of a map has one use, no frame is lost *)
(* but by a call that fails, and a shared region is mapped by two.         *)
(***************************************************************************)
EXTENDS AddressSpace, ListProofs, FunctionTheorems

Places == {"shm", "shm-page", "region", "page", "map", "done", "failed"}

Calls == [pc : Places, op : {"alloc", "map", "fixed", "create", "accept"},
          proc : Process, base : Nat, size : Nat \ {0},
          pages : Seq(Frame \cup {Device}), done : Nat,
          frame : Frame \cup {NoThread}, id : Nat]

SharedRegions ==
    [owner : Process, user : Process \cup {NoThread}, pages : Seq(Frame \cup {Device})]

\* What the later invariants need of the types.
Typed ==
    /\ freeMap \in [Process -> Seq(Regions)]
    /\ \A p \in Process : Ordered(freeMap[p])
    /\ ctxLock \in [Process -> Caller \cup {NoThread}]
    /\ freeFrames \subseteq Frame
    /\ kernelFrames \subseteq Frame
    /\ shmLock \in Caller \cup {NoThread}
    /\ shmem \in Seq(SharedRegions)
    /\ call \in [Caller -> Calls \cup {Idle}]
    /\ boot \in [module : Nat \ {0}, section : Nat \ {0}]
    /\ call[Boot] # Idle => ~Booted

LEMMA CallTyped ==
    ASSUME Typed, NEW t \in Caller, call[t].pc # "idle"
    PROVE  call[t] \in Calls /\ call[t] # Idle
<1>1. call[t] # Idle
  BY DEF Idle
<1> QED BY <1>1 DEF Typed

\* A thread whose call goes on.
LEMMA Advance ==
    ASSUME Typed, NEW t \in Caller, NEW c \in Calls \cup {Idle},
           call' = [call EXCEPT ![t] = c]
    PROVE  /\ call' \in [Caller -> Calls \cup {Idle}]
           /\ call'[t] = c
           /\ \A u \in Caller : u # t => call'[u] = call[u]
BY DEF Typed

LEMMA SetPlace ==
    ASSUME NEW c \in Calls, NEW x \in Places
    PROVE  [c EXCEPT !.pc = x] \in Calls
BY DEF Calls

LEMMA GotoTyped ==
    ASSUME Typed, NEW t \in Caller, call[t].pc # "idle", NEW x \in Places, Goto(t, x)
    PROVE  /\ call' \in [Caller -> Calls \cup {Idle}]
           /\ call'[t] = [call[t] EXCEPT !.pc = x]
           /\ \A u \in Caller : u # t => call'[u] = call[u]
<1>1. call[t] \in Calls
  BY CallTyped
<1>2. [call[t] EXCEPT !.pc = x] \in Calls
  BY <1>1, SetPlace
<1> QED BY <1>2, Advance DEF Goto

LEMMA LocatedTyped ==
    ASSUME Typed, NEW t \in Caller, call[t].pc = "region", NEW b \in Nat, Located(t, b)
    PROVE  /\ call' \in [Caller -> Calls \cup {Idle}]
           /\ call'[t] = [call[t] EXCEPT !.pc = IF Allocating(t) THEN "page" ELSE "map",
                                         !.base = b]
           /\ \A u \in Caller : u # t => call'[u] = call[u]
<1>1. call[t] \in Calls
  BY CallTyped
<1> DEFINE c == [call[t] EXCEPT !.pc = IF Allocating(t) THEN "page" ELSE "map", !.base = b]
<1>2. c \in Calls
  BY <1>1 DEF Calls, Places
<1>3. call' = [call EXCEPT ![t] = c]
  BY DEF Located
<1> HIDE DEF c
<1>4. /\ call' \in [Caller -> Calls \cup {Idle}] /\ call'[t] = c
      /\ \A u \in Caller : u # t => call'[u] = call[u]
  BY <1>2, <1>3, Advance
<1> QED BY <1>4 DEF c

\* The calls the threads and the boot code begin with.
FirstCalls ==
    {c \in Calls : /\ c.pc \in {"region", "shm"} /\ c.done = 0 /\ c.frame = NoThread
                   /\ c.pc = "shm" <=> c.op \in {"create", "accept"}
                   /\ c.op \in {"map", "create", "accept"} => c.size = 1
                   /\ c.pages = IF c.op = "map" THEN << Device >> ELSE << >>}

\* What a step of the specification is, with the ways to begin a call as one.
LEMMA Steps ==
    ASSUME Typed, Next
    PROVE  \/ \E t \in Caller, c \in FirstCalls : Begin(t, c) /\ (t = Boot => ~Booted)
           \/ \E t \in Caller :
                \/ TakeAnywhere(t) \/ TakeFixed(t) \/ NoRegion(t) \/ Fault(t)
                \/ AllocPage(t) \/ NoPage(t) \/ MapPage(t) \/ CannotMap(t)
                \/ Create(t) \/ CreatePage(t) \/ Accept(t) \/ NoShmem(t)
                \/ /\ Finish(t)
                   /\ boot' \in [module : Nat \ {0}, section : Nat \ {0}]
                   /\ t # Boot => boot' = boot
           \/ KernelAlloc
           \/ \E f \in kernelFrames : KernelFree(f)
<1>1. ASSUME NEW t \in Thread, NEW n \in 1 .. MaxSize, VmmAlloc(t, n)
      PROVE  \E u \in Caller, c \in FirstCalls : Begin(u, c) /\ (u = Boot => ~Booted)
  <2> DEFINE c == NewCall("region", "alloc", ProcOf[t], 0, n, << >>, 0)
  <2>1. ProcOf[t] \in Process /\ n \in Nat \ {0} /\ << >> \in Seq(Frame \cup {Device})
    BY MemoryAssumption
  <2>2. c \in Calls
    BY <2>1 DEF NewCall, Calls, Places
  <2>3. c \in FirstCalls
    BY <2>2 DEF NewCall, FirstCalls
  <2> HIDE DEF c
  <2>4. Begin(t, c)
    BY <1>1 DEF VmmAlloc, c
  <2> QED BY <2>3, <2>4, MemoryAssumption DEF Caller
<1>2. ASSUME NEW t \in Thread, VmmMap(t)
      PROVE  \E u \in Caller, c \in FirstCalls : Begin(u, c) /\ (u = Boot => ~Booted)
  <2> DEFINE c == NewCall("region", "map", ProcOf[t], 0, 1, << Device >>, 0)
  <2>1. ProcOf[t] \in Process /\ << Device >> \in Seq(Frame \cup {Device})
    BY MemoryAssumption
  <2>2. c \in Calls
    BY <2>1 DEF NewCall, Calls, Places
  <2>3. c \in FirstCalls
    BY <2>2 DEF NewCall, FirstCalls
  <2> HIDE DEF c
  <2>4. Begin(t, c)
    BY <1>2 DEF VmmMap, c
  <2> QED BY <2>3, <2>4, MemoryAssumption DEF Caller
<1>3. ASSUME NEW t \in Thread, ShmemCreate(t)
      PROVE  \E u \in Caller, c \in FirstCalls : Begin(u, c) /\ (u = Boot => ~Booted)
  <2> DEFINE c == NewCall("shm", "create", ProcOf[t], 0, 1, << >>, 0)
  <2>1. ProcOf[t] \in Process /\ << >> \in Seq(Frame \cup {Device})
    BY MemoryAssumption
  <2>2. c \in Calls
    BY <2>1 DEF NewCall, Calls, Places
  <2>3. c \in FirstCalls
    BY <2>2 DEF NewCall, FirstCalls
  <2> HIDE DEF c
  <2>4. Begin(t, c)
    BY <1>3 DEF ShmemCreate, c
  <2> QED BY <2>3, <2>4, MemoryAssumption DEF Caller
<1>4. ASSUME NEW t \in Thread, NEW id \in 1 .. MaxShmem, ShmemAccept(t, id)
      PROVE  \E u \in Caller, c \in FirstCalls : Begin(u, c) /\ (u = Boot => ~Booted)
  <2> DEFINE c == NewCall("shm", "accept", ProcOf[t], 0, 1, << >>, id)
  <2>1. ProcOf[t] \in Process /\ id \in Nat /\ << >> \in Seq(Frame \cup {Device})
    BY MemoryAssumption
  <2>2. c \in Calls
    BY <2>1 DEF NewCall, Calls, Places
  <2>3. c \in FirstCalls
    BY <2>2 DEF NewCall, FirstCalls
  <2> HIDE DEF c
  <2>4. Begin(t, c)
    BY <1>4 DEF ShmemAccept, c
  <2> QED BY <2>3, <2>4, MemoryAssumption DEF Caller
<1>5. ASSUME ~Booted PROVE BootProc \in Process /\ Image[BootProc] \in Seq(Regions)
  <2>1. boot.module \in Nat \ {0} /\ BootOrder \in Seq(Process)
    BY MemoryAssumption DEF Typed
  <2>2. boot.module \in 1 .. Len(BootOrder)
    BY <1>5, <2>1 DEF Booted
  <2>3. BootProc \in Process
    BY <2>1, <2>2 DEF BootProc
  <2> QED BY <2>3, MemoryAssumption
<1>6. ASSUME BootSection
      PROVE  \E u \in Caller, c \in FirstCalls : Begin(u, c) /\ (u = Boot => ~Booted)
  <2> DEFINE r == Image[BootProc][boot.section]
             c == NewCall("region", "fixed", BootProc, r.base, r.size, << >>, 0)
  <2>1. BootProc \in Process /\ << >> \in Seq(Frame \cup {Device})
    BY <1>5, <1>6 DEF BootSection
  <2>2. r \in Regions
    <3>1. boot.section \in 1 .. Len(Image[BootProc])
      BY <1>5, <1>6 DEF BootSection, Typed
    <3> QED BY <1>5, <1>6, <3>1 DEF BootSection
  <2>3. Begin(Boot, c)
    BY <1>6 DEF BootSection
  <2> HIDE DEF r
  <2>4. c \in Calls
    <3>1. r.base \in Nat /\ r.size \in Nat \ {0}
      BY <2>2 DEF Regions
    <3> QED BY <2>1, <3>1 DEF NewCall, Calls, Places
  <2>5. c \in FirstCalls
    BY <2>4 DEF NewCall, FirstCalls
  <2> HIDE DEF c
  <2>6. ~Booted
    BY <1>6 DEF BootSection
  <2> QED BY <2>3, <2>5, <2>6 DEF Caller
<1>7. ASSUME BootStack
      PROVE  \E u \in Caller, c \in FirstCalls : Begin(u, c) /\ (u = Boot => ~Booted)
  <2> DEFINE c == NewCall("region", "alloc", BootProc, 0, 1, << >>, 0)
  <2>1. BootProc \in Process /\ << >> \in Seq(Frame \cup {Device})
    BY <1>5, <1>7 DEF BootStack
  <2>2. c \in Calls
    BY <2>1 DEF NewCall, Calls, Places
  <2>3. c \in FirstCalls
    BY <2>2 DEF NewCall, FirstCalls
  <2> HIDE DEF c
  <2>4. Begin(Boot, c)
    BY <1>7 DEF BootStack, c
  <2>5. ~Booted
    BY <1>7 DEF BootStack
  <2> QED BY <2>3, <2>4, <2>5 DEF Caller
<1>8. ASSUME BootReturn
      PROVE  Boot \in Caller /\ Finish(Boot) /\ boot' \in [module : Nat \ {0}, section : Nat \ {0}]
  <2>1. Finish(Boot) /\ Boot \in Caller
    BY <1>8 DEF BootReturn, Caller
  <2>2. call[Boot].pc # "idle"
    BY <2>1 DEF Finish
  <2>3. boot \in [module : Nat \ {0}, section : Nat \ {0}]
    BY DEF Typed
  <2>4. CASE call[Boot].op = "fixed"
    <3>1. boot' = [boot EXCEPT !.section =
                            IF call[Boot].pc = "done" THEN @ + 1
                            ELSE Len(Image[BootProc]) + 1]
      BY <1>8, <2>4 DEF BootReturn
    <3>2. Len(Image[BootProc]) \in Nat
      <4>1. call[Boot] # Idle
        BY <2>2 DEF Idle
      <4> QED BY <1>5, <4>1 DEF Typed
    <3> QED BY <2>1, <2>3, <3>1, <3>2
  <2>5. CASE call[Boot].op = "alloc" /\ call[Boot].pc = "done"
    <3>1. boot' = [module |-> boot.module + 1, section |-> 1]
      BY <1>8, <2>5 DEF BootReturn
    <3> QED BY <2>1, <2>3, <3>1
  <2>6. CASE ~(call[Boot].op = "fixed") /\ ~(call[Boot].op = "alloc" /\ call[Boot].pc = "done")
    <3>1. boot' = boot
      BY <1>8, <2>6 DEF BootReturn
    <3> QED BY <2>1, <2>3, <3>1
  <2> QED BY <2>1, <2>4, <2>5, <2>6
<1>9. ASSUME NEW t \in Caller, Return(t)
      PROVE  Finish(t) /\ boot' \in [module : Nat \ {0}, section : Nat \ {0}] /\ boot' = boot
  BY <1>9 DEF Return, Typed
<1> QED BY <1>1, <1>2, <1>3, <1>4, <1>6, <1>7, <1>8, <1>9 DEF Next, Continue

-----------------------------------------------------------------------------
(* Types. *)

LEMMA ExcludeOne ==
    ASSUME NEW item \in Regions, NEW e \in Regions
    PROVE  Excluded(<< item >>, e) = Pieces(item, e)
<1> DEFINE lists == [i \in DOMAIN << item >> |-> Pieces(<< item >>[i], e)]
           Flat(f) == f = [i \in 1 .. Len(lists) |-> IF i = 1 THEN lists[i] ELSE f[i - 1] \o lists[i]]
           flatten == CHOOSE f : Flat(f)
           one == [i \in 1 .. 1 |-> Pieces(item, e)]
<1>1. /\ lists = one /\ lists = << Pieces(item, e) >>
      /\ Len(lists) = 1 /\ lists[1] = Pieces(item, e)
  BY DEF one
<1> HIDE DEF lists
<1>2. Flat(one)
  BY <1>1
<1>3. Flat(flatten)
  <2> HIDE DEF Flat, one
  <2> QED BY <1>2, Zenon
<1>4. flatten[Len(lists)] = Pieces(item, e)
  <2> HIDE DEF flatten
  <2> QED BY <1>1, <1>3
<1>5. FlattenSeq(lists) = flatten[Len(lists)]
  BY <1>1 DEF FlattenSeq
<1> QED BY <1>4, <1>5 DEF Excluded, lists

LEMMA FirstMap ==
    LET list == Excluded(<< Region(0, LastPage + 1) >>, Region(0, 1))
    IN  list \in Seq(Regions) /\ Ordered(list) /\ PagesOf(list) = 1 .. LastPage
<1> DEFINE item == Region(0, LastPage + 1)
           e == Region(0, 1)
<1>1. LastPage \in Nat \ {0}
  BY MemoryAssumption
<1>2. item \in Regions /\ e \in Regions
  BY <1>1 DEF Region, Regions
<1>3. Pages(item) \ Pages(e) = 1 .. LastPage
  BY <1>1 DEF Region, Pages, EndOf
<1> HIDE DEF item, e
<1>4. Excluded(<< item >>, e) = Pieces(item, e)
  BY <1>2, ExcludeOne
<1>5. /\ Pieces(item, e) \in Seq(Regions) /\ Ordered(Pieces(item, e))
      /\ PagesOf(Pieces(item, e)) = Pages(item) \ Pages(e)
  BY <1>2, PiecesExact
<1> QED BY <1>3, <1>4, <1>5 DEF item, e

LEMMA InitTyped == Init => Typed
<1> SUFFICES ASSUME Init PROVE Typed
  OBVIOUS
<1>1. freeMap \in [Process -> Seq(Regions)] /\ \A p \in Process : Ordered(freeMap[p])
  BY FirstMap DEF Init
<1>2. freeFrames \subseteq Frame /\ kernelFrames \subseteq Frame
  BY DEF Init, Frame
<1>3. shmem \in Seq(SharedRegions) /\ call \in [Caller -> Calls \cup {Idle}]
  BY DEF Init
<1>4. ctxLock \in [Process -> Caller \cup {NoThread}] /\ shmLock \in Caller \cup {NoThread}
  BY DEF Init
<1>5. boot \in [module : Nat \ {0}, section : Nat \ {0}]
  BY DEF Init
<1>6. call[Boot] = Idle
  BY DEF Init, Caller
<1> QED BY <1>1, <1>2, <1>3, <1>4, <1>5, <1>6 DEF Typed

\* What a call takes from a map: pages that were free; the map stays ordered.
Taken(t, b, list) ==
    LET p == call[t].proc
        pages == Pages(Region(b, call[t].size))
    IN  /\ Lock(t)
        /\ Located(t, b)
        /\ Grant(p, Region(b, call[t].size))
        /\ freeMap' = [freeMap EXCEPT ![p] = list]
        /\ Ordered(list)
        /\ pages \subseteq PagesOf(freeMap[p])
        /\ PagesOf(list) = PagesOf(freeMap[p]) \ pages
        /\ UNCHANGED << frameVars, kernelFrames, shmVars, boot, halted >>

LEMMA TakenAnywhere ==
    ASSUME Typed, NEW t \in Caller, TakeAnywhere(t)
    PROVE  \E b \in Nat, list \in Seq(Regions) : Taken(t, b, list)
<1> DEFINE old == freeMap[call[t].proc]
           n == call[t].size
           b == old[FirstFit(old, n)].base
           list == Allocated(old, n)
<1>1. call[t] \in Calls
  <2>1. call[t].pc # "idle"
    BY DEF TakeAnywhere, Lock
  <2> QED BY <2>1, CallTyped
<1>2. old \in Seq(Regions) /\ Ordered(old) /\ n \in Nat \ {0}
  BY <1>1 DEF Typed, Calls
<1>3. Fits(old, n) # {}
  BY DEF TakeAnywhere, CanTake
<1>4. /\ Lock(t) /\ Located(t, b) /\ Grant(call[t].proc, Region(b, n))
      /\ freeMap' = [freeMap EXCEPT ![call[t].proc] = list]
      /\ UNCHANGED << frameVars, kernelFrames, shmVars, boot, halted >>
  BY DEF TakeAnywhere
<1> HIDE DEF old, n
<1>5. b \in Nat
  BY <1>2, <1>3, FirstFitExists
<1>6. /\ list \in Seq(Regions) /\ Ordered(list)
      /\ Pages(Region(b, n)) \subseteq PagesOf(old)
      /\ PagesOf(list) = PagesOf(old) \ Pages(Region(b, n))
  BY <1>2, <1>3, AllocTakesPages
<1> HIDE DEF b, list
<1> QED BY <1>4, <1>5, <1>6 DEF Taken, old, n

LEMMA TakenFixed ==
    ASSUME Typed, NEW t \in Caller, TakeFixed(t)
    PROVE  \E b \in Nat, list \in Seq(Regions) : Taken(t, b, list)
<1> DEFINE old == freeMap[call[t].proc]
           e == Region(call[t].base, call[t].size)
           list == AllocatedAt(old, e)
<1>1. call[t] \in Calls
  <2>1. call[t].pc # "idle"
    BY DEF TakeFixed, Lock
  <2> QED BY <2>1, CallTyped
<1>2. old \in Seq(Regions) /\ Ordered(old) /\ e \in Regions /\ call[t].base \in Nat
  BY <1>1 DEF Typed, Calls, Region, Regions
<1>3. CanAllocAt(old, e)
  BY DEF TakeFixed, CanTake
<1>4. /\ Lock(t) /\ Located(t, e.base) /\ Grant(call[t].proc, e)
      /\ freeMap' = [freeMap EXCEPT ![call[t].proc] = list]
      /\ UNCHANGED << frameVars, kernelFrames, shmVars, boot, halted >>
      /\ e.base = call[t].base
  BY DEF TakeFixed, Region
<1> HIDE DEF old
<1>5. /\ list \in Seq(Regions) /\ Ordered(list)
      /\ Pages(e) \subseteq PagesOf(old)
      /\ PagesOf(list) = PagesOf(old) \ Pages(e)
  <2> HIDE DEF e
  <2> QED BY <1>2, <1>3, AllocAtTakesPages
<1> HIDE DEF list
<1> QED BY <1>2, <1>4, <1>5 DEF Taken, old

LEMMA SomeFrameFree ==
    ASSUME Typed, freeFrames # {}
    PROVE  SomeFrame \in freeFrames /\ SomeFrame \in Frame
BY DEF SomeFrame, Typed

LEMMA TableTyped ==
    ASSUME Typed, NEW t \in Caller, Table(t)
    PROVE  freeFrames' \subseteq Frame
BY DEF Table, Typed

LEMMA StepTyped == Typed /\ [Next]_vars => Typed'
<1> SUFFICES ASSUME Typed, [Next]_vars PROVE Typed'
  OBVIOUS
<1> USE DEF Typed
<1>1. CASE UNCHANGED vars
  BY <1>1 DEF vars, mapVars, frameVars, shmVars, Booted
<1>2. ASSUME NEW t \in Caller, NEW c \in FirstCalls, Begin(t, c), t = Boot => ~Booted
      PROVE  Typed'
  <2>1. call' \in [Caller -> Calls \cup {Idle}] /\ call'[t] = c
    <3>1. call' = [call EXCEPT ![t] = c] /\ c \in Calls
      BY <1>2 DEF Begin, FirstCalls
    <3> QED BY <3>1, Advance
  <2>2. t # Boot => call'[Boot] = call[Boot]
    BY <1>2 DEF Begin, Caller
  <2> QED BY <1>2, <2>1, <2>2 DEF Begin, mapVars, frameVars, shmVars, Booted
<1>3. ASSUME NEW t \in Caller, NEW b \in Nat, NEW list \in Seq(Regions), Taken(t, b, list)
      PROVE  Typed'
  <2>1. call[t].pc = "region" /\ Located(t, b) /\ ctxLock' = [ctxLock EXCEPT ![call[t].proc] = t]
    BY <1>3 DEF Taken, Lock
  <2>2. /\ call' \in [Caller -> Calls \cup {Idle}]
        /\ \A u \in Caller : u # t => call'[u] = call[u]
    BY <2>1, LocatedTyped
  <2>3. call'[Boot] # Idle => call[Boot] # Idle
    BY <2>1, <2>2, CallTyped DEF Caller
  <2>4. /\ freeMap' \in [Process -> Seq(Regions)] /\ \A p \in Process : Ordered(freeMap'[p])
    BY <1>3 DEF Taken
  <2> QED BY <1>3, <2>1, <2>2, <2>3, <2>4 DEF Taken, frameVars, shmVars, Booted
<1>4. ASSUME NEW t \in Caller, NoRegion(t) PROVE Typed'
  <2>1. call[t].pc # "idle" /\ Goto(t, "failed") /\ ctxLock' = [ctxLock EXCEPT ![call[t].proc] = t]
    BY <1>4 DEF NoRegion, Lock
  <2>2. call' \in [Caller -> Calls \cup {Idle}]
    BY <2>1, GotoTyped DEF Places
  <2>3. call'[Boot] # Idle => call[Boot] # Idle
    BY <2>1 DEF Goto, Idle
  <2> QED BY <1>4, <2>1, <2>2, <2>3 DEF NoRegion, mapVars, frameVars, shmVars, Booted
<1>5. ASSUME NEW t \in Caller, Fault(t) PROVE Typed'
  BY <1>5 DEF Fault, Lock, mapVars, frameVars, shmVars, Booted
<1>6. ASSUME NEW t \in Caller, AllocPage(t) PROVE Typed'
  <2>1. call[t] \in Calls /\ call[t] # Idle
    BY <1>6, CallTyped DEF AllocPage
  <2>2. SomeFrame \in Frame
    BY <1>6, SomeFrameFree DEF AllocPage
  <2> DEFINE c == [call[t] EXCEPT !.pc = "map", !.frame = SomeFrame]
  <2>3. c \in Calls
    BY <2>1, <2>2 DEF Calls, Places
  <2>4. call' = [call EXCEPT ![t] = c]
    BY <1>6 DEF AllocPage
  <2> HIDE DEF c
  <2>5. call' \in [Caller -> Calls \cup {Idle}] /\ (call'[Boot] # Idle => call[Boot] # Idle)
    BY <2>1, <2>3, <2>4, Advance
  <2> QED BY <1>6, <2>5 DEF AllocPage, mapVars, shmVars, Booted
<1>7. ASSUME NEW t \in Caller, NoPage(t) PROVE Typed'
  <2>1. call[t].pc # "idle" /\ Goto(t, "failed")
    BY <1>7 DEF NoPage
  <2>2. call' \in [Caller -> Calls \cup {Idle}]
    BY <2>1, GotoTyped DEF Places
  <2>3. call'[Boot] # Idle => call[Boot] # Idle
    BY <2>1 DEF Goto, Idle
  <2> QED BY <1>7, <2>2, <2>3 DEF NoPage, mapVars, frameVars, shmVars, Booted
<1>8. ASSUME NEW t \in Caller, MapPage(t) PROVE Typed'
  <2>1. call[t] \in Calls /\ call[t] # Idle
    BY <1>8, CallTyped DEF MapPage
  <2> DEFINE c == [call[t] EXCEPT !.done = call[t].done + 1, !.frame = NoThread,
                                  !.pc = AfterPage(t)]
  <2>2. c \in Calls
    <3>1. AfterPage(t) \in Places
      BY DEF AfterPage, Places
    <3>2. call[t].done + 1 \in Nat
      BY <2>1 DEF Calls
    <3> QED BY <2>1, <3>1, <3>2 DEF Calls
  <2>3. call' = [call EXCEPT ![t] = c]
    BY <1>8 DEF MapPage
  <2> HIDE DEF c
  <2>4. call' \in [Caller -> Calls \cup {Idle}] /\ (call'[Boot] # Idle => call[Boot] # Idle)
    BY <2>1, <2>2, <2>3, Advance
  <2>5. freeFrames' \subseteq Frame
    BY <1>8, TableTyped DEF MapPage
  <2> QED BY <1>8, <2>4, <2>5 DEF MapPage, mapVars, shmVars, Booted
<1>9. ASSUME NEW t \in Caller, CannotMap(t) PROVE Typed'
  <2>1. call[t] \in Calls /\ call[t] # Idle
    BY <1>9, CallTyped DEF CannotMap
  <2> DEFINE c == [call[t] EXCEPT !.pc = "failed", !.frame = NoThread]
  <2>2. c \in Calls
    BY <2>1 DEF Calls, Places
  <2>3. call' = [call EXCEPT ![t] = c]
    BY <1>9 DEF CannotMap
  <2> HIDE DEF c
  <2>4. call' \in [Caller -> Calls \cup {Idle}] /\ (call'[Boot] # Idle => call[Boot] # Idle)
    BY <2>1, <2>2, <2>3, Advance
  <2>5. freeFrames' \subseteq Frame
    BY <1>9, TableTyped DEF CannotMap
  <2> QED BY <1>9, <2>4, <2>5 DEF CannotMap, mapVars, shmVars, Booted
<1>10. ASSUME NEW t \in Caller, Create(t) PROVE Typed'
  <2>1. call[t].pc # "idle" /\ Goto(t, "shm-page") /\ shmLock' = t
    BY <1>10 DEF Create, LockShmem
  <2>2. call' \in [Caller -> Calls \cup {Idle}]
    BY <2>1, GotoTyped DEF Places
  <2>3. call'[Boot] # Idle => call[Boot] # Idle
    BY <2>1 DEF Goto, Idle
  <2> QED BY <1>10, <2>1, <2>2, <2>3 DEF Create, mapVars, frameVars, Booted
<1>11. ASSUME NEW t \in Caller, CreatePage(t) PROVE Typed'
  <2>1. call[t] \in Calls /\ call[t] # Idle
    BY <1>11, CallTyped DEF CreatePage, Idle
  <2>2. CASE freeFrames = {}
    <3>1. Goto(t, "failed") /\ freeFrames' = freeFrames /\ call[t].pc # "idle"
      BY <1>11, <2>2 DEF CreatePage
    <3>2. call' \in [Caller -> Calls \cup {Idle}]
      BY <3>1, GotoTyped DEF Places
    <3>3. call'[Boot] # Idle => call[Boot] # Idle
      BY <3>1 DEF Goto, Idle
    <3> QED BY <1>11, <3>1, <3>2, <3>3 DEF CreatePage, mapVars, shmVars, Booted
  <2>3. CASE freeFrames # {}
    <3> DEFINE c == [call[t] EXCEPT !.pc = "region", !.pages = << SomeFrame >>]
    <3>1. c \in Calls
      <4>1. << SomeFrame >> \in Seq(Frame \cup {Device})
        BY <2>3, SomeFrameFree
      <4> QED BY <2>1, <4>1 DEF Calls, Places
    <3>2. call' = [call EXCEPT ![t] = c] /\ freeFrames' \subseteq Frame
      BY <1>11, <2>3 DEF CreatePage
    <3> HIDE DEF c
    <3>3. call' \in [Caller -> Calls \cup {Idle}] /\ (call'[Boot] # Idle => call[Boot] # Idle)
      BY <2>1, <3>1, <3>2, Advance
    <3> QED BY <1>11, <3>2, <3>3 DEF CreatePage, mapVars, shmVars, Booted
  <2> QED BY <2>2, <2>3
<1>12. ASSUME NEW t \in Caller, Accept(t) PROVE Typed'
  <2>1. call[t] \in Calls /\ call[t] # Idle /\ call[t].proc \in Process
    <3>1. call[t].pc # "idle"
      BY <1>12 DEF Accept, LockShmem
    <3> QED BY <3>1, CallTyped DEF Calls, Idle
  <2> DEFINE id == call[t].id
             region == shmem[id]
  <2>2. id \in DOMAIN shmem /\ region \in SharedRegions
    BY <1>12 DEF Accept, CanAccept
  <2>3. shmem' \in Seq(SharedRegions)
    <3>1. [region EXCEPT !.user = call[t].proc] \in SharedRegions
      BY <2>1, <2>2 DEF SharedRegions
    <3>2. shmem' = [shmem EXCEPT ![id] = [region EXCEPT !.user = call[t].proc]]
      BY <1>12 DEF Accept
    <3> HIDE DEF id, region
    <3> QED BY <2>2, <3>1, <3>2
  <2> DEFINE c == [call[t] EXCEPT !.pc = "region", !.pages = region.pages]
  <2>4. c \in Calls
    BY <2>1, <2>2 DEF Calls, Places, SharedRegions
  <2>5. call' = [call EXCEPT ![t] = c] /\ shmLock' = t
    BY <1>12 DEF Accept, LockShmem
  <2> HIDE DEF c, id, region
  <2>6. call' \in [Caller -> Calls \cup {Idle}] /\ (call'[Boot] # Idle => call[Boot] # Idle)
    BY <2>1, <2>4, <2>5, Advance
  <2> QED BY <1>12, <2>3, <2>5, <2>6 DEF Accept, mapVars, frameVars, Booted
<1>13. ASSUME NEW t \in Caller, NoShmem(t) PROVE Typed'
  <2>1. call[t].pc # "idle" /\ Goto(t, "failed") /\ shmLock' = t
    BY <1>13 DEF NoShmem, LockShmem
  <2>2. call' \in [Caller -> Calls \cup {Idle}]
    BY <2>1, GotoTyped DEF Places
  <2>3. call'[Boot] # Idle => call[Boot] # Idle
    BY <2>1 DEF Goto, Idle
  <2> QED BY <1>13, <2>1, <2>2, <2>3 DEF NoShmem, mapVars, frameVars, Booted
<1>14. ASSUME NEW t \in Caller, Finish(t),
              boot' \in [module : Nat \ {0}, section : Nat \ {0}], t # Boot => boot' = boot
       PROVE  Typed'
  <2>1. call[t] \in Calls
    BY <1>14, CallTyped DEF Finish
  <2>2. call' = [call EXCEPT ![t] = Idle]
    BY <1>14 DEF Finish
  <2>3. call' \in [Caller -> Calls \cup {Idle}] /\ call'[t] = Idle
    BY <2>2, Advance
  <2>4. shmem' \in Seq(SharedRegions)
    <3>1. [owner |-> call[t].proc, user |-> NoThread, pages |-> call[t].pages] \in SharedRegions
      BY <2>1 DEF Calls, SharedRegions
    <3>2. shmem \in Seq(SharedRegions)
      OBVIOUS
    <3>3. CASE call[t].op = "create" /\ call[t].pc = "done"
      <4> HIDE DEF Typed
      <4>1. shmem' = Append(shmem, [owner |-> call[t].proc, user |-> NoThread,
                                    pages |-> call[t].pages])
        BY <1>14, <3>3 DEF Finish, Created
      <4> QED BY <3>1, <3>2, <4>1
    <3>4. CASE ~(call[t].op = "create" /\ call[t].pc = "done")
      BY <1>14, <3>2, <3>4 DEF Finish, Created
    <3> QED BY <3>3, <3>4
  <2>5. ctxLock' \in [Process -> Caller \cup {NoThread}] /\ shmLock' \in Caller \cup {NoThread}
    BY <1>14 DEF Finish, Unlock
  <2>6. call'[Boot] # Idle => ~Booted'
    BY <1>14, <2>2, <2>3 DEF Booted
  <2> QED BY <1>14, <2>3, <2>4, <2>5, <2>6 DEF Finish, mapVars, frameVars
<1>15. CASE KernelAlloc
  BY <1>15, SomeFrameFree DEF KernelAlloc, mapVars, shmVars, Booted
<1>16. ASSUME NEW f \in kernelFrames, KernelFree(f) PROVE Typed'
  BY <1>16 DEF KernelFree, mapVars, shmVars, Booted
<1> QED
  <2> HIDE DEF Typed
  <2>1. ASSUME NEW t \in Caller, TakeAnywhere(t) PROVE Typed'
    BY <1>3, <2>1, TakenAnywhere
  <2>2. ASSUME NEW t \in Caller, TakeFixed(t) PROVE Typed'
    BY <1>3, <2>2, TakenFixed
  <2> QED BY <1>1, <1>2, <1>4, <1>5, <1>6, <1>7, <1>8, <1>9, <1>10, <1>11, <1>12, <1>13,
             <1>14, <1>15, <1>16, <2>1, <2>2, Steps

LEMMA TypedAlways == Spec => []Typed
BY InitTyped, StepTyped, PTL DEF Spec

-----------------------------------------------------------------------------
(* Locks. *)

\* A call that waits for the lock of the shared regions is one of theirs.
LocksInv ==
    /\ LocksInOrder
    /\ \A t \in Caller : call[t].pc = "shm" => Sharing(t)

\* A call that takes or releases no lock, and begins or ends no loop.
LEMMA KeepsLocks ==
    ASSUME Typed, LocksInv, ~halted, halted' = halted,
           ctxLock' = ctxLock, shmLock' = shmLock, NEW t \in Caller,
           \A u \in Caller : u # t => call'[u] = call[u],
           call'[t].proc = call[t].proc, call'[t].op = call[t].op,
           call'[t].pc \notin {"idle", "shm"},
           call[t].pc \in {"page", "map", "done", "failed"} =>
               call'[t].pc \in {"page", "map", "done", "failed"},
           call'[t].pc \in {"page", "map"} => call[t].pc \in {"page", "map"}
    PROVE  LocksInv'
<1> USE DEF LocksInv, LocksInOrder, Sharing
<1>1. ASSUME NEW p \in Process, ctxLock'[p] # NoThread
      PROVE  /\ call'[ctxLock'[p]].pc \in {"region", "page", "map", "done", "failed"}
             /\ call'[ctxLock'[p]].proc = p
             /\ call'[ctxLock'[p]].pc = "region" => halted'
  <2>1. ctxLock[p] \in Caller
    BY <1>1 DEF Typed
  <2>2. CASE ctxLock[p] = t
    BY <1>1, <2>2
  <2>3. CASE ctxLock[p] # t
    BY <1>1, <2>1, <2>3
  <2> QED BY <2>2, <2>3
<1>2. ASSUME shmLock' # NoThread
      PROVE  call'[shmLock'].pc # "idle" /\ call'[shmLock'].op \in {"create", "accept"}
  <2>1. shmLock \in Caller
    BY <1>2 DEF Typed
  <2> QED BY <1>2, <2>1
<1>3. ASSUME NEW u \in Caller, call'[u].pc \in {"page", "map"}
      PROVE  ctxLock'[call'[u].proc] = u
  BY <1>3
<1>4. ASSUME NEW u \in Caller, call'[u].pc = "shm"
      PROVE  call'[u].op \in {"create", "accept"}
  BY <1>4
<1> QED BY <1>1, <1>2, <1>3, <1>4

\* A call that takes the lock of its address space.
LEMMA TakesLock ==
    ASSUME Typed, LocksInv, NEW t \in Caller, Lock(t), halted' = halted,
           shmLock' = shmLock,
           \A u \in Caller : u # t => call'[u] = call[u],
           call'[t].proc = call[t].proc, call'[t].op = call[t].op,
           call'[t].pc \in {"page", "map", "failed"}
    PROVE  LocksInv'
<1> USE DEF LocksInv, LocksInOrder, Sharing
<1>1. /\ ~halted /\ call[t].pc = "region" /\ call[t].proc \in Process
      /\ ctxLock' = [ctxLock EXCEPT ![call[t].proc] = t]
      /\ ctxLock[call[t].proc] = NoThread
  <2>1. call[t].pc = "region"
    BY DEF Lock
  <2>2. call[t] \in Calls
    BY <2>1, CallTyped
  <2> QED BY <2>1, <2>2 DEF Lock, Calls
<1>2. \A p \in Process : ctxLock[p] # t
  <2> SUFFICES ASSUME NEW p \in Process, ctxLock[p] = t PROVE FALSE
    OBVIOUS
  <2>1. t # NoThread
    BY MemoryAssumption
  <2>2. call[t].proc = p
    BY <2>1
  <2> QED BY <1>1, <2>1, <2>2
<1>3. ASSUME NEW p \in Process, ctxLock'[p] # NoThread
      PROVE  /\ call'[ctxLock'[p]].pc \in {"region", "page", "map", "done", "failed"}
             /\ call'[ctxLock'[p]].proc = p
             /\ call'[ctxLock'[p]].pc = "region" => halted'
  <2>1. CASE p = call[t].proc
    <3>1. ctxLock'[p] = t
      BY <1>1, <2>1 DEF Typed
    <3> QED BY <2>1, <3>1
  <2>2. CASE p # call[t].proc
    <3>1. ctxLock'[p] = ctxLock[p]
      BY <1>1, <2>2 DEF Typed
    <3>2. ctxLock[p] \in Caller /\ ctxLock[p] # t
      BY <1>2, <1>3, <3>1 DEF Typed
    <3> QED BY <1>3, <3>1, <3>2
  <2> QED BY <2>1, <2>2
<1>4. ASSUME shmLock' # NoThread
      PROVE  call'[shmLock'].pc # "idle" /\ call'[shmLock'].op \in {"create", "accept"}
  <2>1. shmLock \in Caller
    BY <1>4 DEF Typed
  <2> QED BY <1>4, <2>1
<1>5. ASSUME NEW u \in Caller, call'[u].pc \in {"page", "map"}
      PROVE  ctxLock'[call'[u].proc] = u
  <2>1. CASE u = t
    BY <1>1, <2>1 DEF Typed
  <2>2. CASE u # t
    <3>1. ctxLock[call[u].proc] = u /\ call'[u] = call[u]
      BY <1>5, <2>2
    <3>2. call[u].proc \in Process
      <4>1. call[u].pc # "idle"
        BY <1>5, <3>1
      <4> QED BY <4>1, CallTyped DEF Calls
    <3>3. call[u].proc # call[t].proc
      BY <1>1, <3>1, MemoryAssumption
    <3> QED BY <1>1, <3>1, <3>2, <3>3 DEF Typed
  <2> QED BY <2>1, <2>2
<1>6. ASSUME NEW u \in Caller, call'[u].pc = "shm"
      PROVE  call'[u].op \in {"create", "accept"}
  BY <1>6
<1> QED BY <1>3, <1>4, <1>5, <1>6

\* A call that takes the lock of the shared regions.
LEMMA TakesShmLock ==
    ASSUME Typed, LocksInv, NEW t \in Caller, LockShmem(t), halted' = halted,
           ctxLock' = ctxLock,
           \A u \in Caller : u # t => call'[u] = call[u],
           call'[t].proc = call[t].proc, call'[t].op = call[t].op,
           call'[t].pc \in {"shm-page", "region", "failed"}
    PROVE  LocksInv'
<1> USE DEF LocksInv, LocksInOrder, Sharing
<1>1. ~halted /\ call[t].pc = "shm" /\ shmLock' = t
  BY DEF LockShmem
<1>2. \A p \in Process : ctxLock[p] # t
  <2> SUFFICES ASSUME NEW p \in Process, ctxLock[p] = t PROVE FALSE
    OBVIOUS
  <2>1. t # NoThread
    BY MemoryAssumption
  <2>2. call[t].pc \in {"region", "page", "map", "done", "failed"}
    BY <2>1
  <2> QED BY <1>1, <2>2
<1>3. ASSUME NEW p \in Process, ctxLock'[p] # NoThread
      PROVE  /\ call'[ctxLock'[p]].pc \in {"region", "page", "map", "done", "failed"}
             /\ call'[ctxLock'[p]].proc = p
             /\ call'[ctxLock'[p]].pc = "region" => halted'
  <2>1. ctxLock[p] \in Caller /\ ctxLock[p] # t
    BY <1>2, <1>3 DEF Typed
  <2> QED BY <1>3, <2>1
<1>4. call'[shmLock'].pc # "idle" /\ call'[shmLock'].op \in {"create", "accept"}
  BY <1>1
<1>5. ASSUME NEW u \in Caller, call'[u].pc \in {"page", "map"}
      PROVE  ctxLock'[call'[u].proc] = u
  BY <1>5
<1>6. ASSUME NEW u \in Caller, call'[u].pc = "shm"
      PROVE  call'[u].op \in {"create", "accept"}
  BY <1>6
<1> QED BY <1>3, <1>4, <1>5, <1>6

LEMMA GotoSame ==
    ASSUME NEW c \in Calls, NEW d, NEW x, d = [c EXCEPT !.pc = x]
    PROVE  d.pc = x /\ d.proc = c.proc /\ d.op = c.op /\ d.base = c.base
           /\ d.size = c.size /\ d.done = c.done
BY DEF Calls

LEMMA InitLocks == Init => LocksInv
BY MemoryAssumption DEF Init, LocksInv, LocksInOrder, Idle

LEMMA StepLocks == Typed /\ LocksInv /\ [Next]_vars => LocksInv'
<1> SUFFICES ASSUME Typed, LocksInv, [Next]_vars PROVE LocksInv'
  OBVIOUS
<1>1. CASE UNCHANGED vars
  BY <1>1 DEF vars, shmVars, LocksInv, LocksInOrder, Sharing
<1>2. ASSUME NEW t \in Caller, NEW c \in FirstCalls, Begin(t, c)
      PROVE  LocksInv'
  <2>1. /\ call[t].pc = "idle" /\ call' = [call EXCEPT ![t] = c]
        /\ UNCHANGED << ctxLock, shmLock, halted >>
    BY <1>2 DEF Begin, shmVars, Idle
  <2>2. call'[t] = c /\ \A u \in Caller : u # t => call'[u] = call[u]
    BY <2>1 DEF Typed
  <2>3. /\ c.pc \in {"region", "shm"}
        /\ c.pc = "shm" => c.op \in {"create", "accept"}
    BY DEF FirstCalls
  <2> USE DEF LocksInv, LocksInOrder, Sharing
  <2>4. ASSUME NEW p \in Process, ctxLock[p] # NoThread
        PROVE  ctxLock[p] # t /\ ctxLock[p] \in Caller
    BY <2>1, <2>4 DEF Typed
  <2>5. shmLock # NoThread => shmLock # t /\ shmLock \in Caller
    BY <2>1 DEF Typed
  <2>6. \A p \in Process : ctxLock'[p] # NoThread =>
           /\ call'[ctxLock'[p]].pc \in {"region", "page", "map", "done", "failed"}
           /\ call'[ctxLock'[p]].proc = p
           /\ call'[ctxLock'[p]].pc = "region" => halted'
    BY <2>1, <2>2, <2>4
  <2>7. shmLock' # NoThread =>
           call'[shmLock'].pc # "idle" /\ call'[shmLock'].op \in {"create", "accept"}
    BY <2>1, <2>2, <2>5
  <2>8. \A u \in Caller : call'[u].pc \in {"page", "map"} => ctxLock'[call'[u].proc] = u
    BY <2>1, <2>2, <2>3
  <2>9. \A u \in Caller : call'[u].pc = "shm" => call'[u].op \in {"create", "accept"}
    BY <2>2, <2>3
  <2> QED BY <2>6, <2>7, <2>8, <2>9
<1>3. ASSUME NEW t \in Caller, NEW b \in Nat, NEW list \in Seq(Regions), Taken(t, b, list)
      PROVE  LocksInv'
  <2>1. /\ Lock(t) /\ Located(t, b) /\ call[t].pc = "region"
        /\ UNCHANGED << shmLock, halted >>
    BY <1>3 DEF Taken, Lock, shmVars
  <2>2. /\ call'[t] = [call[t] EXCEPT !.pc = IF Allocating(t) THEN "page" ELSE "map", !.base = b]
        /\ \A u \in Caller : u # t => call'[u] = call[u]
    BY <2>1, LocatedTyped
  <2>3. call[t] \in Calls
    BY <2>1, CallTyped
  <2>4. /\ call'[t].proc = call[t].proc /\ call'[t].op = call[t].op
        /\ call'[t].pc \in {"page", "map", "failed"}
    BY <2>2, <2>3 DEF Calls
  <2> QED BY <2>1, <2>2, <2>4, TakesLock
<1>4. ASSUME NEW t \in Caller, NoRegion(t) PROVE LocksInv'
  <2>1. /\ Lock(t) /\ Goto(t, "failed") /\ call[t].pc # "idle"
        /\ UNCHANGED << shmLock, halted >>
    BY <1>4 DEF NoRegion, Lock, shmVars
  <2>2. /\ call'[t] = [call[t] EXCEPT !.pc = "failed"] /\ call[t] \in Calls
        /\ \A u \in Caller : u # t => call'[u] = call[u]
    BY <2>1, GotoTyped, CallTyped DEF Places
  <2>3. call'[t].proc = call[t].proc /\ call'[t].op = call[t].op /\ call'[t].pc = "failed"
    BY <2>2, GotoSame
  <2> QED BY <2>1, <2>2, <2>3, TakesLock
<1>5. ASSUME NEW t \in Caller, Fault(t) PROVE LocksInv'
  <2>1. /\ call[t].pc = "region" /\ ~halted /\ halted' /\ call' = call /\ shmLock' = shmLock
        /\ ctxLock[call[t].proc] = NoThread
        /\ ctxLock' = [ctxLock EXCEPT ![call[t].proc] = t]
    BY <1>5 DEF Fault, Lock, shmVars
  <2>2. call[t].proc \in Process
    BY <2>1, CallTyped DEF Calls
  <2> USE DEF LocksInv, LocksInOrder, Sharing
  <2>3. \A p \in Process : p # call[t].proc => ctxLock'[p] = ctxLock[p]
    BY <2>1 DEF Typed
  <2>4. ctxLock'[call[t].proc] = t
    BY <2>1, <2>2 DEF Typed
  <2>5. \A p \in Process : ctxLock'[p] # NoThread =>
           /\ call'[ctxLock'[p]].pc \in {"region", "page", "map", "done", "failed"}
           /\ call'[ctxLock'[p]].proc = p
           /\ call'[ctxLock'[p]].pc = "region" => halted'
    BY <2>1, <2>3, <2>4
  <2>6. \A u \in Caller : call'[u].pc \in {"page", "map"} => ctxLock'[call'[u].proc] = u
    <3> SUFFICES ASSUME NEW u \in Caller, call[u].pc \in {"page", "map"}
                 PROVE  ctxLock'[call[u].proc] = u
      BY <2>1
    <3>1. ctxLock[call[u].proc] = u /\ u # NoThread
      BY MemoryAssumption
    <3>2. call[u].proc \in Process
      <4>1. call[u].pc # "idle"
        OBVIOUS
      <4> QED BY <4>1, CallTyped DEF Calls
    <3> QED BY <2>1, <2>3, <3>1, <3>2
  <2> QED BY <2>1, <2>5, <2>6
<1>6. ASSUME NEW t \in Caller, AllocPage(t) PROVE LocksInv'
  <2>1. /\ call' = [call EXCEPT ![t].pc = "map", ![t].frame = SomeFrame]
        /\ call[t].pc = "page" /\ ~halted /\ UNCHANGED << ctxLock, shmLock, halted >>
    BY <1>6 DEF AllocPage, shmVars
  <2>2. call[t] \in Calls
    BY <2>1, CallTyped
  <2>3. \A u \in Caller : u # t => call'[u] = call[u]
    BY <2>1 DEF Typed
  <2>4. call'[t].proc = call[t].proc /\ call'[t].op = call[t].op /\ call'[t].pc = "map"
    BY <2>1, <2>2 DEF Typed, Calls
  <2> QED BY <2>1, <2>3, <2>4, KeepsLocks
<1>7. ASSUME NEW t \in Caller, NoPage(t) PROVE LocksInv'
  <2>1. /\ Goto(t, "failed") /\ call[t].pc = "page" /\ call[t].pc # "idle"
        /\ ~halted /\ UNCHANGED << ctxLock, shmLock, halted >>
    BY <1>7 DEF NoPage, shmVars
  <2>2. /\ call'[t] = [call[t] EXCEPT !.pc = "failed"] /\ call[t] \in Calls
        /\ \A u \in Caller : u # t => call'[u] = call[u]
    BY <2>1, GotoTyped, CallTyped DEF Places
  <2>3. call'[t].proc = call[t].proc /\ call'[t].op = call[t].op /\ call'[t].pc = "failed"
    BY <2>2, GotoSame
  <2> QED BY <2>1, <2>2, <2>3, KeepsLocks
<1>8. ASSUME NEW t \in Caller, MapPage(t) PROVE LocksInv'
  <2>1. /\ call' = [call EXCEPT ![t] = [@ EXCEPT !.done = call[t].done + 1,
                                                 !.frame = NoThread,
                                                 !.pc = AfterPage(t)]]
        /\ call[t].pc = "map" /\ ~halted /\ UNCHANGED << ctxLock, shmLock, halted >>
    BY <1>8 DEF MapPage, shmVars
  <2>2. call[t] \in Calls
    BY <2>1, CallTyped
  <2>3. \A u \in Caller : u # t => call'[u] = call[u]
    BY <2>1 DEF Typed
  <2>4. call'[t].proc = call[t].proc /\ call'[t].op = call[t].op /\ call'[t].pc = AfterPage(t)
    BY <2>1, <2>2 DEF Typed, Calls
  <2>5. AfterPage(t) \in {"done", "page", "map"}
    BY DEF AfterPage
  <2> QED BY <2>1, <2>3, <2>4, <2>5, KeepsLocks
<1>9. ASSUME NEW t \in Caller, CannotMap(t) PROVE LocksInv'
  <2>1. /\ call' = [call EXCEPT ![t].pc = "failed", ![t].frame = NoThread]
        /\ call[t].pc = "map" /\ ~halted /\ UNCHANGED << ctxLock, shmLock, halted >>
    BY <1>9 DEF CannotMap, shmVars
  <2>2. call[t] \in Calls
    BY <2>1, CallTyped
  <2>3. \A u \in Caller : u # t => call'[u] = call[u]
    BY <2>1 DEF Typed
  <2>4. call'[t].proc = call[t].proc /\ call'[t].op = call[t].op /\ call'[t].pc = "failed"
    BY <2>1, <2>2 DEF Typed, Calls
  <2> QED BY <2>1, <2>3, <2>4, KeepsLocks
<1>10. ASSUME NEW t \in Caller, Create(t) PROVE LocksInv'
  <2>1. /\ LockShmem(t) /\ Goto(t, "shm-page") /\ call[t].pc # "idle"
        /\ UNCHANGED << ctxLock, halted >>
    BY <1>10 DEF Create, LockShmem
  <2>2. /\ call'[t] = [call[t] EXCEPT !.pc = "shm-page"] /\ call[t] \in Calls
        /\ \A u \in Caller : u # t => call'[u] = call[u]
    BY <2>1, GotoTyped, CallTyped DEF Places
  <2>3. call'[t].proc = call[t].proc /\ call'[t].op = call[t].op /\ call'[t].pc = "shm-page"
    BY <2>2, GotoSame
  <2> QED BY <2>1, <2>2, <2>3, TakesShmLock
<1>11. ASSUME NEW t \in Caller, CreatePage(t) PROVE LocksInv'
  <2>1. /\ call[t].pc = "shm-page" /\ call[t].pc # "idle" /\ ~halted
        /\ UNCHANGED << ctxLock, shmLock, halted >>
        /\ \/ Goto(t, "failed")
           \/ call' = [call EXCEPT ![t].pc = "region", ![t].pages = << SomeFrame >>]
    BY <1>11 DEF CreatePage, shmVars
  <2>2. call[t] \in Calls
    BY <2>1, CallTyped
  <2>3. \A u \in Caller : u # t => call'[u] = call[u]
    BY <2>1 DEF Typed, Goto
  <2>4. /\ call'[t].proc = call[t].proc /\ call'[t].op = call[t].op
        /\ call'[t].pc \in {"region", "failed"}
    BY <2>1, <2>2 DEF Typed, Calls, Goto
  <2> QED BY <2>1, <2>3, <2>4, KeepsLocks
<1>12. ASSUME NEW t \in Caller, Accept(t) PROVE LocksInv'
  <2>1. /\ LockShmem(t) /\ call[t].pc # "idle" /\ UNCHANGED << ctxLock, halted >>
        /\ call' = [call EXCEPT ![t].pc = "region", ![t].pages = shmem[call[t].id].pages]
    BY <1>12 DEF Accept, LockShmem
  <2>2. call[t] \in Calls
    BY <2>1, CallTyped
  <2>3. \A u \in Caller : u # t => call'[u] = call[u]
    BY <2>1 DEF Typed
  <2>4. call'[t].proc = call[t].proc /\ call'[t].op = call[t].op /\ call'[t].pc = "region"
    BY <2>1, <2>2 DEF Typed, Calls
  <2> QED BY <2>1, <2>3, <2>4, TakesShmLock
<1>13. ASSUME NEW t \in Caller, NoShmem(t) PROVE LocksInv'
  <2>1. /\ LockShmem(t) /\ Goto(t, "failed") /\ call[t].pc # "idle"
        /\ UNCHANGED << ctxLock, halted >>
    BY <1>13 DEF NoShmem, LockShmem
  <2>2. /\ call'[t] = [call[t] EXCEPT !.pc = "failed"] /\ call[t] \in Calls
        /\ \A u \in Caller : u # t => call'[u] = call[u]
    BY <2>1, GotoTyped, CallTyped DEF Places
  <2>3. call'[t].proc = call[t].proc /\ call'[t].op = call[t].op /\ call'[t].pc = "failed"
    BY <2>2, GotoSame
  <2> QED BY <2>1, <2>2, <2>3, TakesShmLock
<1>14. ASSUME NEW t \in Caller, Finish(t) PROVE LocksInv'
  <2>1. /\ ctxLock' = [p \in Process |-> IF ctxLock[p] = t THEN NoThread ELSE ctxLock[p]]
        /\ shmLock' = IF shmLock = t THEN NoThread ELSE shmLock
        /\ call' = [call EXCEPT ![t] = Idle] /\ ~halted
    BY <1>14 DEF Finish, Unlock
  <2>2. call'[t].pc = "idle" /\ \A u \in Caller : u # t => call'[u] = call[u]
    BY <2>1 DEF Typed, Idle
  <2> USE DEF LocksInv, LocksInOrder, Sharing
  <2>3. ASSUME NEW p \in Process, ctxLock'[p] # NoThread
        PROVE  /\ call'[ctxLock'[p]].pc \in {"region", "page", "map", "done", "failed"}
               /\ call'[ctxLock'[p]].proc = p
               /\ call'[ctxLock'[p]].pc = "region" => halted'
    <3>1. ctxLock'[p] = ctxLock[p] /\ ctxLock[p] # t /\ ctxLock[p] \in Caller
      BY <2>1, <2>3 DEF Typed
    <3> QED BY <2>1, <2>2, <2>3, <3>1
  <2>4. shmLock' # NoThread =>
           call'[shmLock'].pc # "idle" /\ call'[shmLock'].op \in {"create", "accept"}
    BY <2>1, <2>2 DEF Typed
  <2>5. ASSUME NEW u \in Caller, call'[u].pc \in {"page", "map"}
        PROVE  ctxLock'[call'[u].proc] = u
    <3>1. u # t /\ call'[u] = call[u]
      BY <2>2, <2>5
    <3>2. call[u].proc \in Process
      <4>1. call[u].pc # "idle"
        BY <2>5, <3>1
      <4> QED BY <4>1, CallTyped DEF Calls
    <3> QED BY <2>1, <2>5, <3>1, <3>2
  <2>6. \A u \in Caller : call'[u].pc = "shm" => call'[u].op \in {"create", "accept"}
    BY <2>2
  <2> QED BY <2>3, <2>4, <2>5, <2>6
<1>15. CASE KernelAlloc
  BY <1>15 DEF KernelAlloc, shmVars, LocksInv, LocksInOrder, Sharing
<1>16. ASSUME NEW f \in kernelFrames, KernelFree(f) PROVE LocksInv'
  BY <1>16 DEF KernelFree, shmVars, LocksInv, LocksInOrder, Sharing
<1> QED
  <2>1. ASSUME NEW t \in Caller, TakeAnywhere(t) PROVE LocksInv'
    BY <1>3, <2>1, TakenAnywhere
  <2>2. ASSUME NEW t \in Caller, TakeFixed(t) PROVE LocksInv'
    BY <1>3, <2>2, TakenFixed
  <2> QED BY <1>1, <1>2, <1>4, <1>5, <1>6, <1>7, <1>8, <1>9, <1>10, <1>11, <1>12, <1>13,
             <1>14, <1>15, <1>16, <2>1, <2>2, Steps

\* No lock outlives its call, whatever way out the call takes, and no call waits
\* for the lock of the shared regions with that of an address space in hand.
THEOREM LocksOrdered == Spec => []LocksInOrder
<1>1. LocksInv => LocksInOrder
  BY DEF LocksInv
<1> QED BY <1>1, InitTyped, StepTyped, InitLocks, StepLocks, PTL DEF Spec

-----------------------------------------------------------------------------
(* Addresses. *)

Given(p) == UNION {Pages(r) : r \in granted[p]}

\* SpaceApart, with the region of a call in the loop over its pages.
SpaceInv ==
    /\ granted \in [Process -> SUBSET Regions]
    /\ DOMAIN mapping = Process /\ \A p \in Process : DOMAIN mapping[p] = Page
    /\ SpaceApart
    /\ \A t \in Caller : call[t].pc \in {"page", "map"} =>
          /\ Region(call[t].base, call[t].size) \in granted[call[t].proc]
          /\ call[t].done < call[t].size
    /\ \A t \in Caller : call[t].pc \in {"shm", "shm-page", "region"} => call[t].done = 0

LEMMA InitSpace == Init => SpaceInv
<1> SUFFICES ASSUME Init PROVE SpaceInv
  OBVIOUS
<1>1. granted \in [Process -> SUBSET Regions]
  BY DEF Init
<1>2. DOMAIN mapping = Process /\ \A p \in Process : DOMAIN mapping[p] = Page
  BY DEF Init
<1>3. \A t \in Caller : call[t].pc = "idle"
  BY DEF Init, Idle
<1>4. SpaceApart
  <2> SUFFICES ASSUME NEW p \in Process
               PROVE  /\ Ordered(freeMap[p])
                      /\ \A r, s \in granted[p] : r # s => Pages(r) \cap Pages(s) = {}
                      /\ Given(p) \cap PagesOf(freeMap[p]) = {}
                      /\ Given(p) \cup PagesOf(freeMap[p]) = 1 .. LastPage
                      /\ \A v \in Page : mapping[p][v] # NoThread => v \in Given(p)
    BY DEF SpaceApart, Given
  <2>1. freeMap[p] = Excluded(<< Region(0, LastPage + 1) >>, Region(0, 1))
    BY DEF Init
  <2>2. granted[p] = {} /\ \A v \in Page : mapping[p][v] = NoThread
    BY DEF Init
  <2>3. Given(p) = {}
    BY <2>2 DEF Given
  <2> QED BY <2>1, <2>2, <2>3, FirstMap
<1> QED BY <1>1, <1>2, <1>3, <1>4 DEF SpaceInv

\* A step that neither takes a region nor maps a page.
LEMMA KeepsSpace ==
    ASSUME Typed, SpaceInv, NEW t \in Caller, UNCHANGED << freeMap, granted, mapping >>,
           \A u \in Caller : u # t => call'[u] = call[u],
           call'[t].pc \in {"page", "map"} =>
               /\ call[t].pc \in {"page", "map"}
               /\ call'[t].proc = call[t].proc /\ call'[t].base = call[t].base
               /\ call'[t].size = call[t].size /\ call'[t].done = call[t].done,
           call'[t].pc \in {"shm", "shm-page", "region"} => call'[t].done = 0
    PROVE  SpaceInv'
<1>1. \A u \in Caller : call'[u].pc \in {"page", "map"} =>
         /\ Region(call'[u].base, call'[u].size) \in granted[call'[u].proc]
         /\ call'[u].done < call'[u].size
  BY DEF SpaceInv
<1>2. SpaceApart'
  BY DEF SpaceInv, SpaceApart
<1>3. \A u \in Caller : call'[u].pc \in {"shm", "shm-page", "region"} => call'[u].done = 0
  BY DEF SpaceInv
<1> QED BY <1>1, <1>2, <1>3 DEF SpaceInv

\* A call that takes a region: it was free, and is given away from now on.
LEMMA TakesSpace ==
    ASSUME Typed, SpaceInv, NEW t \in Caller, NEW b \in Nat, NEW list \in Seq(Regions),
           Taken(t, b, list), NEW p, p = call[t].proc
    PROVE  SpaceInv'
<1> DEFINE region == Region(b, call[t].size)
<1>1. /\ call[t].pc = "region" /\ Located(t, b) /\ mapping' = mapping
      /\ granted' = [granted EXCEPT ![p] = @ \cup {region}]
      /\ freeMap' = [freeMap EXCEPT ![p] = list]
      /\ Ordered(list)
      /\ Pages(region) \subseteq PagesOf(freeMap[p])
      /\ PagesOf(list) = PagesOf(freeMap[p]) \ Pages(region)
  BY DEF Taken, Lock, Grant, frameVars
<1>2. call[t] \in Calls
  BY <1>1, CallTyped
<1>3. p \in Process /\ call[t].size \in Nat \ {0}
  BY <1>2 DEF Calls
<1>4. region \in Regions
  BY <1>3 DEF Region, Regions
<1>5. \A u \in Caller : u # t => call'[u] = call[u]
  BY <1>1, LocatedTyped
<1>6. /\ call'[t].base = b /\ call'[t].proc = p /\ call'[t].size = call[t].size
      /\ call'[t].done = call[t].done /\ call'[t].pc \in {"page", "map"}
  <2>1. call'[t] = [call[t] EXCEPT !.pc = IF Allocating(t) THEN "page" ELSE "map", !.base = b]
    BY <1>1, LocatedTyped
  <2> QED BY <1>2, <2>1 DEF Calls
<1> HIDE DEF region
<1>7. granted' \in [Process -> SUBSET Regions]
  BY <1>1, <1>3, <1>4 DEF SpaceInv
<1>8. /\ granted'[p] = granted[p] \cup {region} /\ freeMap'[p] = list
      /\ \A q \in Process : q # p => granted'[q] = granted[q] /\ freeMap'[q] = freeMap[q]
  BY <1>1, <1>3 DEF SpaceInv, Typed
<1>9. \A r \in granted[p] : Pages(r) \cap Pages(region) = {}
  BY <1>1, <1>3 DEF SpaceInv, SpaceApart
<1>10. Given(p)' = Given(p) \cup Pages(region)
  BY <1>8 DEF Given
<1>11. ASSUME NEW q \in Process
       PROVE  /\ Ordered(freeMap'[q])
              /\ \A r, s \in granted'[q] : r # s => Pages(r) \cap Pages(s) = {}
              /\ Given(q)' \cap PagesOf(freeMap'[q]) = {}
              /\ Given(q)' \cup PagesOf(freeMap'[q]) = 1 .. LastPage
              /\ \A v \in Page : mapping'[q][v] # NoThread => v \in Given(q)'
  <2>1. /\ Ordered(freeMap[q])
        /\ \A r, s \in granted[q] : r # s => Pages(r) \cap Pages(s) = {}
        /\ Given(q) \cap PagesOf(freeMap[q]) = {}
        /\ Given(q) \cup PagesOf(freeMap[q]) = 1 .. LastPage
        /\ \A v \in Page : mapping[q][v] # NoThread => v \in Given(q)
    BY DEF SpaceInv, SpaceApart, Given
  <2>2. CASE q = p
    <3>1. \A r, s \in granted'[q] : r # s => Pages(r) \cap Pages(s) = {}
      BY <1>8, <1>9, <2>1, <2>2
    <3>2. Given(q)' = Given(q) \cup Pages(region)
      BY <1>10, <2>2
    <3>3. /\ PagesOf(freeMap'[q]) = PagesOf(freeMap[q]) \ Pages(region)
          /\ Pages(region) \subseteq PagesOf(freeMap[q])
      BY <1>1, <1>8, <2>2
    <3>4. Given(q)' \cap PagesOf(freeMap'[q]) = {}
      BY <2>1, <3>2, <3>3
    <3>5. Given(q)' \cup PagesOf(freeMap'[q]) = 1 .. LastPage
      BY <2>1, <3>2, <3>3
    <3>6. \A v \in Page : mapping'[q][v] # NoThread => v \in Given(q)'
      BY <1>1, <2>1, <3>2
    <3> QED BY <1>1, <1>8, <2>2, <3>1, <3>4, <3>5, <3>6
  <2>3. CASE q # p
    <3>1. Given(q)' = Given(q) /\ freeMap'[q] = freeMap[q] /\ granted'[q] = granted[q]
      BY <1>8, <2>3 DEF Given
    <3> QED BY <1>1, <2>1, <3>1
  <2> QED BY <2>2, <2>3
<1>12. SpaceApart'
  BY <1>11 DEF SpaceApart, Given
<1>13. ASSUME NEW u \in Caller, call'[u].pc \in {"page", "map"}
       PROVE  /\ Region(call'[u].base, call'[u].size) \in granted'[call'[u].proc]
              /\ call'[u].done < call'[u].size
  <2>1. CASE u = t
    <3>1. call[t].done = 0
      BY <1>1 DEF SpaceInv
    <3> QED BY <1>3, <1>6, <1>8, <2>1, <3>1 DEF region
  <2>2. CASE u # t
    <3>1. /\ call'[u] = call[u] /\ Region(call[u].base, call[u].size) \in granted[call[u].proc]
          /\ call[u].done < call[u].size
      BY <1>5, <1>13, <2>2 DEF SpaceInv
    <3>2. call[u].proc \in Process
      <4>1. call[u].pc # "idle"
        BY <1>13, <3>1
      <4> QED BY <4>1, CallTyped DEF Calls
    <3> QED BY <1>8, <3>1, <3>2
  <2> QED BY <2>1, <2>2
<1>14. ASSUME NEW u \in Caller, call'[u].pc \in {"shm", "shm-page", "region"}
       PROVE  call'[u].done = 0
  <2>1. u # t
    BY <1>6, <1>14
  <2> QED BY <1>5, <1>14, <2>1 DEF SpaceInv
<1> QED BY <1>1, <1>7, <1>12, <1>13, <1>14 DEF SpaceInv

LEMMA MapsSpace ==
    ASSUME Typed, SpaceInv, NEW t \in Caller, MapPage(t)
    PROVE  SpaceInv'
<1> DEFINE p == call[t].proc
<1>1. /\ call' = [call EXCEPT ![t] = [@ EXCEPT !.done = call[t].done + 1,
                                               !.frame = NoThread,
                                               !.pc = AfterPage(t)]]
      /\ call[t].pc = "map" /\ UNCHANGED << freeMap, granted >>
      /\ mapping' = [mapping EXCEPT ![p][At(t)] = ToMap(t)]
  BY DEF MapPage, mapVars
<1>2. call[t] \in Calls
  BY <1>1, CallTyped
<1>3. p \in Process /\ call[t].base \in Nat /\ call[t].size \in Nat /\ call[t].done \in Nat
  BY <1>2 DEF Calls
<1>4. Region(call[t].base, call[t].size) \in granted[p] /\ call[t].done < call[t].size
  BY <1>1 DEF SpaceInv
<1> HIDE DEF p
<1>5. At(t) \in Given(p)
  <2>1. At(t) \in Pages(Region(call[t].base, call[t].size))
    BY <1>3, <1>4 DEF At, Pages, EndOf, Region
  <2> QED BY <1>4, <2>1 DEF Given
<1>6. /\ DOMAIN mapping' = Process /\ \A q \in Process : DOMAIN mapping'[q] = Page
      /\ \A q \in Process, v \in Page :
            ~(q = p /\ v = At(t)) => mapping'[q][v] = mapping[q][v]
  BY <1>1, <1>3 DEF SpaceInv
<1>7. SpaceApart'
  <2> SUFFICES ASSUME NEW q \in Process
               PROVE  /\ Ordered(freeMap[q])
                      /\ \A r, s \in granted[q] : r # s => Pages(r) \cap Pages(s) = {}
                      /\ Given(q) \cap PagesOf(freeMap[q]) = {}
                      /\ Given(q) \cup PagesOf(freeMap[q]) = 1 .. LastPage
                      /\ \A v \in Page : mapping'[q][v] # NoThread => v \in Given(q)
    BY <1>1 DEF SpaceApart, Given
  <2>1. /\ Ordered(freeMap[q])
        /\ \A r, s \in granted[q] : r # s => Pages(r) \cap Pages(s) = {}
        /\ Given(q) \cap PagesOf(freeMap[q]) = {}
        /\ Given(q) \cup PagesOf(freeMap[q]) = 1 .. LastPage
        /\ \A v \in Page : mapping[q][v] # NoThread => v \in Given(q)
    BY DEF SpaceInv, SpaceApart, Given
  <2> QED BY <1>5, <1>6, <2>1
<1>8. \A u \in Caller : u # t => call'[u] = call[u]
  BY <1>1 DEF Typed
<1>9. /\ call'[t].done = call[t].done + 1 /\ call'[t].pc = AfterPage(t)
      /\ call'[t].base = call[t].base /\ call'[t].size = call[t].size /\ call'[t].proc = p
  BY <1>1, <1>2 DEF Typed, Calls, p
<1>10. AfterPage(t) # "done" => call[t].done + 1 # call[t].size
  BY DEF AfterPage
<1>11. ASSUME NEW u \in Caller, call'[u].pc \in {"page", "map"}
       PROVE  /\ Region(call'[u].base, call'[u].size) \in granted[call'[u].proc]
              /\ call'[u].done < call'[u].size
  <2>1. CASE u = t
    BY <1>3, <1>4, <1>9, <1>10, <1>11, <2>1
  <2>2. CASE u # t
    BY <1>8, <1>11, <2>2 DEF SpaceInv
  <2> QED BY <2>1, <2>2
<1>12. ASSUME NEW u \in Caller, call'[u].pc \in {"shm", "shm-page", "region"}
       PROVE  call'[u].done = 0
  <2>1. u # t
    BY <1>9, <1>12 DEF AfterPage
  <2> QED BY <1>8, <1>12, <2>1 DEF SpaceInv
<1> QED BY <1>1, <1>6, <1>7, <1>11, <1>12 DEF SpaceInv

LEMMA StepSpace == Typed /\ SpaceInv /\ [Next]_vars => SpaceInv'
<1> SUFFICES ASSUME Typed, SpaceInv, [Next]_vars PROVE SpaceInv'
  OBVIOUS
<1>1. CASE UNCHANGED vars
  <2>1. UNCHANGED << freeMap, granted, mapping, call >>
    BY <1>1 DEF vars, mapVars, frameVars
  <2> QED BY <2>1 DEF SpaceInv, SpaceApart
<1>2. ASSUME NEW t \in Caller, NEW c \in FirstCalls, Begin(t, c)
      PROVE  SpaceInv'
  <2>1. call' = [call EXCEPT ![t] = c] /\ UNCHANGED << freeMap, granted, mapping >>
    BY <1>2 DEF Begin, mapVars, frameVars
  <2>2. call'[t] = c /\ \A u \in Caller : u # t => call'[u] = call[u]
    BY <2>1 DEF Typed
  <2>3. c.pc \in {"region", "shm"} /\ c.done = 0
    BY DEF FirstCalls
  <2> QED BY <2>1, <2>2, <2>3, KeepsSpace
<1>3. ASSUME NEW t \in Caller, NEW b \in Nat, NEW list \in Seq(Regions), Taken(t, b, list)
      PROVE  SpaceInv'
  BY <1>3, TakesSpace
<1>4. ASSUME NEW t \in Caller, NoRegion(t) PROVE SpaceInv'
  <2>1. /\ Goto(t, "failed") /\ call[t].pc # "idle" /\ UNCHANGED << freeMap, granted, mapping >>
    BY <1>4 DEF NoRegion, Lock, mapVars, frameVars
  <2>2. /\ call'[t] = [call[t] EXCEPT !.pc = "failed"] /\ call[t] \in Calls
        /\ \A u \in Caller : u # t => call'[u] = call[u]
    BY <2>1, GotoTyped, CallTyped DEF Places
  <2>3. call'[t].pc = "failed"
    BY <2>2, GotoSame
  <2> QED BY <2>1, <2>2, <2>3, KeepsSpace
<1>5. ASSUME NEW t \in Caller, Fault(t) PROVE SpaceInv'
  <2>1. UNCHANGED << freeMap, granted, mapping, call >>
    BY <1>5 DEF Fault, mapVars, frameVars
  <2> QED BY <2>1 DEF SpaceInv, SpaceApart
<1>6. ASSUME NEW t \in Caller, AllocPage(t) PROVE SpaceInv'
  <2>1. /\ call' = [call EXCEPT ![t].pc = "map", ![t].frame = SomeFrame]
        /\ call[t].pc = "page" /\ UNCHANGED << freeMap, granted, mapping >>
    BY <1>6 DEF AllocPage, mapVars
  <2>2. call[t] \in Calls
    BY <2>1, CallTyped
  <2>3. \A u \in Caller : u # t => call'[u] = call[u]
    BY <2>1 DEF Typed
  <2>4. /\ call'[t].pc = "map" /\ call'[t].proc = call[t].proc /\ call'[t].base = call[t].base
        /\ call'[t].size = call[t].size /\ call'[t].done = call[t].done
    BY <2>1, <2>2 DEF Typed, Calls
  <2> QED BY <2>1, <2>3, <2>4, KeepsSpace
<1>7. ASSUME NEW t \in Caller, NoPage(t) PROVE SpaceInv'
  <2>1. /\ Goto(t, "failed") /\ call[t].pc # "idle" /\ UNCHANGED << freeMap, granted, mapping >>
    BY <1>7 DEF NoPage, mapVars, frameVars
  <2>2. /\ call'[t] = [call[t] EXCEPT !.pc = "failed"] /\ call[t] \in Calls
        /\ \A u \in Caller : u # t => call'[u] = call[u]
    BY <2>1, GotoTyped, CallTyped DEF Places
  <2>3. call'[t].pc = "failed"
    BY <2>2, GotoSame
  <2> QED BY <2>1, <2>2, <2>3, KeepsSpace
<1>8. ASSUME NEW t \in Caller, MapPage(t) PROVE SpaceInv'
  BY <1>8, MapsSpace
<1>9. ASSUME NEW t \in Caller, CannotMap(t) PROVE SpaceInv'
  <2>1. /\ call' = [call EXCEPT ![t].pc = "failed", ![t].frame = NoThread]
        /\ call[t].pc = "map" /\ UNCHANGED << freeMap, granted, mapping >>
    BY <1>9 DEF CannotMap, mapVars
  <2>2. call[t] \in Calls
    BY <2>1, CallTyped
  <2>3. call'[t].pc = "failed" /\ \A u \in Caller : u # t => call'[u] = call[u]
    BY <2>1, <2>2 DEF Typed, Calls
  <2> QED BY <2>1, <2>3, KeepsSpace
<1>10. ASSUME NEW t \in Caller, Create(t) PROVE SpaceInv'
  <2>1. /\ Goto(t, "shm-page") /\ call[t].pc = "shm" /\ call[t].pc # "idle"
        /\ UNCHANGED << freeMap, granted, mapping >>
    BY <1>10 DEF Create, LockShmem, mapVars, frameVars
  <2>2. /\ call'[t] = [call[t] EXCEPT !.pc = "shm-page"] /\ call[t] \in Calls
        /\ \A u \in Caller : u # t => call'[u] = call[u]
    BY <2>1, GotoTyped, CallTyped DEF Places
  <2>3. call'[t].pc = "shm-page" /\ call'[t].done = call[t].done
    BY <2>2, GotoSame
  <2>4. call[t].done = 0
    BY <2>1 DEF SpaceInv
  <2> QED BY <2>1, <2>2, <2>3, <2>4, KeepsSpace
<1>11. ASSUME NEW t \in Caller, CreatePage(t) PROVE SpaceInv'
  <2>1. /\ call[t].pc = "shm-page" /\ UNCHANGED << freeMap, granted, mapping >>
        /\ \/ Goto(t, "failed")
           \/ call' = [call EXCEPT ![t].pc = "region", ![t].pages = << SomeFrame >>]
    BY <1>11 DEF CreatePage, mapVars
  <2>2. call[t] \in Calls
    BY <2>1, CallTyped
  <2>3. \A u \in Caller : u # t => call'[u] = call[u]
    BY <2>1 DEF Typed, Goto
  <2>4. call'[t].pc \in {"failed", "region"} /\ call'[t].done = call[t].done
    BY <2>1, <2>2 DEF Typed, Calls, Goto
  <2>5. call[t].done = 0
    BY <2>1 DEF SpaceInv
  <2> QED BY <2>1, <2>3, <2>4, <2>5, KeepsSpace
<1>12. ASSUME NEW t \in Caller, Accept(t) PROVE SpaceInv'
  <2>1. /\ call[t].pc = "shm" /\ UNCHANGED << freeMap, granted, mapping >>
        /\ call' = [call EXCEPT ![t].pc = "region", ![t].pages = shmem[call[t].id].pages]
    BY <1>12 DEF Accept, LockShmem, mapVars, frameVars
  <2>2. call[t] \in Calls
    BY <2>1, CallTyped
  <2>3. \A u \in Caller : u # t => call'[u] = call[u]
    BY <2>1 DEF Typed
  <2>4. call'[t].pc = "region" /\ call'[t].done = call[t].done
    BY <2>1, <2>2 DEF Typed, Calls
  <2>5. call[t].done = 0
    BY <2>1 DEF SpaceInv
  <2> QED BY <2>1, <2>3, <2>4, <2>5, KeepsSpace
<1>13. ASSUME NEW t \in Caller, NoShmem(t) PROVE SpaceInv'
  <2>1. /\ Goto(t, "failed") /\ call[t].pc # "idle" /\ UNCHANGED << freeMap, granted, mapping >>
    BY <1>13 DEF NoShmem, LockShmem, mapVars, frameVars
  <2>2. /\ call'[t] = [call[t] EXCEPT !.pc = "failed"] /\ call[t] \in Calls
        /\ \A u \in Caller : u # t => call'[u] = call[u]
    BY <2>1, GotoTyped, CallTyped DEF Places
  <2>3. call'[t].pc = "failed"
    BY <2>2, GotoSame
  <2> QED BY <2>1, <2>2, <2>3, KeepsSpace
<1>14. ASSUME NEW t \in Caller, Finish(t) PROVE SpaceInv'
  <2>1. call' = [call EXCEPT ![t] = Idle] /\ UNCHANGED << freeMap, granted, mapping >>
    BY <1>14 DEF Finish, mapVars, frameVars
  <2>2. call'[t].pc = "idle" /\ \A u \in Caller : u # t => call'[u] = call[u]
    BY <2>1 DEF Typed, Idle
  <2> QED BY <2>1, <2>2, KeepsSpace
<1>15. CASE KernelAlloc \/ \E f \in kernelFrames : KernelFree(f)
  <2>1. UNCHANGED << freeMap, granted, mapping, call >>
    BY <1>15 DEF KernelAlloc, KernelFree, mapVars, frameVars
  <2> QED BY <2>1 DEF SpaceInv, SpaceApart
<1> QED
  <2>1. ASSUME NEW t \in Caller, TakeAnywhere(t) PROVE SpaceInv'
    BY <1>3, <2>1, TakenAnywhere
  <2>2. ASSUME NEW t \in Caller, TakeFixed(t) PROVE SpaceInv'
    BY <1>3, <2>2, TakenFixed
  <2> QED BY <1>1, <1>2, <1>4, <1>5, <1>6, <1>7, <1>8, <1>9, <1>10, <1>11, <1>12, <1>13,
             <1>14, <1>15, <2>1, <2>2, Steps

\* No address is given away twice, none is lost from the map, and only addresses
\* given away are mapped, however the calls of the threads interleave and fail.
THEOREM AddressesApart == Spec => []SpaceApart
<1>1. SpaceInv => SpaceApart
  BY DEF SpaceInv
<1> QED BY <1>1, InitTyped, StepTyped, InitSpace, StepSpace, PTL DEF Spec

-----------------------------------------------------------------------------
(* Uses of page frames, as sets of kind, place and frame. *)

FramesOf(uses) == {u[3] : u \in uses}

\* No two uses of a frame, none of a free one.
Sound(free, uses) ==
    /\ IsFiniteSet(free \cup FramesOf(uses))
    /\ free \cap FramesOf(uses) = {}
    /\ \A u, w \in uses : u[3] = w[3] => u = w

\* What steps do to the uses: some end, a free frame gets one, the use of a
\* frame becomes another, a frame is given back.
LEMMA FewerUses ==
    ASSUME NEW free, NEW uses, Sound(free, uses), NEW left, left \subseteq uses
    PROVE  Sound(free, left)
<1>1. free \cup FramesOf(left) \subseteq free \cup FramesOf(uses)
  BY DEF FramesOf
<1>2. IsFiniteSet(free \cup FramesOf(left))
  BY <1>1, FS_Subset DEF Sound
<1> QED BY <1>1, <1>2 DEF Sound, FramesOf

LEMMA NewUse ==
    ASSUME NEW free, NEW uses, Sound(free, uses), NEW u, u[3] \in free,
           NEW new, new \subseteq uses \cup {u}
    PROVE  Sound(free \ {u[3]}, new)
<1> DEFINE rest == free \ {u[3]}
<1>1. rest \cup FramesOf(new) \subseteq free \cup FramesOf(uses)
  BY DEF FramesOf
<1>2. IsFiniteSet(rest \cup FramesOf(new))
  BY <1>1, FS_Subset DEF Sound
<1>3. rest \cap FramesOf(new) = {}
  BY DEF Sound, FramesOf
<1>4. ASSUME NEW v \in new, NEW w \in new, v[3] = w[3] PROVE v = w
  BY <1>4 DEF Sound, FramesOf
<1> QED BY <1>2, <1>3, <1>4 DEF Sound

LEMMA MovedUse ==
    ASSUME NEW free, NEW uses, Sound(free, uses), NEW u \in uses, NEW w, w[3] = u[3],
           NEW new, new \subseteq (uses \ {u}) \cup {w}
    PROVE  Sound(free, new)
<1>1. free \cup FramesOf(new) \subseteq free \cup FramesOf(uses)
  BY DEF FramesOf
<1>2. IsFiniteSet(free \cup FramesOf(new))
  BY <1>1, FS_Subset DEF Sound
<1>3. free \cap FramesOf(new) = {}
  BY <1>1 DEF Sound, FramesOf
<1>4. ASSUME NEW x \in new, NEW y \in new, x[3] = y[3] PROVE x = y
  BY <1>4 DEF Sound
<1> QED BY <1>2, <1>3, <1>4 DEF Sound

LEMMA EndedUse ==
    ASSUME NEW free, NEW uses, Sound(free, uses), NEW u \in uses,
           NEW new, new \subseteq uses \ {u}
    PROVE  Sound(free \cup {u[3]}, new)
<1> DEFINE more == free \cup {u[3]}
<1>1. more \cup FramesOf(new) \subseteq free \cup FramesOf(uses)
  BY DEF FramesOf
<1>2. IsFiniteSet(more \cup FramesOf(new))
  BY <1>1, FS_Subset DEF Sound
<1>3. more \cap FramesOf(new) = {}
  BY DEF Sound, FramesOf
<1>4. ASSUME NEW v \in new, NEW w \in new, v[3] = w[3] PROVE v = w
  BY <1>4 DEF Sound
<1> QED BY <1>2, <1>3, <1>4 DEF Sound

\* Sets of triples that differ in one component.
LEMMA ColumnCount ==
    ASSUME NEW rows, NEW k, \A r, s \in rows : r[k] = s[k] => r = s
    PROVE  LET column == {r[k] : r \in rows}
           IN  /\ IsFiniteSet(rows) => IsFiniteSet(column)
               /\ IsFiniteSet(column) => IsFiniteSet(rows)
               /\ IsFiniteSet(rows) => Cardinality(column) = Cardinality(rows)
<1> DEFINE column == {r[k] : r \in rows}
           f == [r \in rows |-> r[k]]
<1>1. f \in Bijection(rows, column)
  BY DEF Bijection, Injection, Surjection, IsInjective
<1>2. ExistsBijection(rows, column)
  BY <1>1 DEF ExistsBijection
<1> HIDE DEF column
<1>3. ExistsBijection(column, rows)
  BY <1>2, Fun_ExistsBijSymmetric
<1>4. IsFiniteSet(rows) => IsFiniteSet(column) /\ Cardinality(column) = Cardinality(rows)
  BY <1>2, FS_Bijection
<1>5. IsFiniteSet(column) => IsFiniteSet(rows)
  BY <1>3, FS_Bijection
<1> QED BY <1>4, <1>5 DEF column

LEMMA DisjointCount ==
    ASSUME NEW S, NEW T, IsFiniteSet(S), IsFiniteSet(T), S \cap T = {}
    PROVE  /\ IsFiniteSet(S \cup T)
           /\ Cardinality(S \cup T) = Cardinality(S) + Cardinality(T)
           /\ Cardinality(S) \in Nat /\ Cardinality(T) \in Nat
BY FS_Union, FS_EmptySet, FS_CardinalityType

LEMMA SoundCount ==
    ASSUME NEW free, NEW uses, Sound(free, uses)
    PROVE  /\ IsFiniteSet(free) /\ IsFiniteSet(uses)
           /\ Cardinality(free \cup FramesOf(uses)) = Cardinality(free) + Cardinality(uses)
<1>1. IsFiniteSet(free) /\ IsFiniteSet(FramesOf(uses))
  <2>1. IsFiniteSet(free \cup FramesOf(uses))
    BY DEF Sound
  <2> QED BY <2>1, FS_Subset
<1>2. IsFiniteSet(uses) /\ Cardinality(FramesOf(uses)) = Cardinality(uses)
  BY <1>1, ColumnCount DEF Sound, FramesOf
<1>3. Cardinality(free \cup FramesOf(uses)) = Cardinality(free) + Cardinality(FramesOf(uses))
  BY <1>1, DisjointCount DEF Sound
<1> QED BY <1>1, <1>2, <1>3

-----------------------------------------------------------------------------
(* What a call holds at each place. *)

ShapedCall(c, regions) ==
    /\ c.op \in {"alloc", "fixed"} =>
          /\ c.pages = << >>
          /\ c.pc \in {"region", "page", "map", "done", "failed"}
          /\ c.frame # NoThread <=> c.pc = "map"
    /\ c.op \notin {"alloc", "fixed"} =>
          c.size = 1 /\ c.frame = NoThread /\ c.pc # "page"
    /\ c.op = "map" =>
          c.pages = << Device >> /\ c.pc \notin {"shm", "shm-page"}
    /\ c.op = "create" =>
          /\ c.pc \in {"shm", "shm-page"} => c.pages = << >>
          /\ c.pc \in {"region", "map", "done"} => c.pages # << >>
          /\ c.pages # << >> => Len(c.pages) = 1 /\ c.pages[1] \in Frame
    /\ c.op = "accept" =>
          /\ c.pc # "shm-page"
          /\ c.pc \in {"region", "map", "done"} =>
                /\ c.id \in DOMAIN regions
                /\ c.pages = regions[c.id].pages
                /\ c.proc = regions[c.id].user

OnePage(regions) ==
    \A i \in DOMAIN regions : Len(regions[i].pages) = 1 /\ regions[i].pages[1] \in Frame

Shaped ==
    /\ OnePage(shmem)
    /\ \A t \in Caller : call[t] # Idle => ShapedCall(call[t], shmem)

-----------------------------------------------------------------------------
(* Where the frames are: a use is its kind, its place and the frame. *)

KernelUses == {<< "kernel", f, f >> : f \in kernelFrames}
SharedUses == {<< "shared", i, shmem[i].pages[1] >> : i \in DOMAIN shmem}
CreatingUses == {<< "creating", t, call[t].pages[1] >> : t \in Creating}
TableUses == {<< "table", x, tables[x[1]][x[2]] >> : x \in TablePlaces}
HandUses == {<< "hand", t, call[t].frame >> : t \in InHand}
PrivateUses == {<< "private", x, mapping[x[1]][x[2]] >> : x \in PrivatePlaces}

Uses == KernelUses \cup SharedUses \cup CreatingUses \cup TableUses
          \cup HandUses \cup PrivateUses

\* The pages a frame is mapped at.
MappedAt(map, f) == {x \in Process \X Page : map[x[1]][x[2]] = f}

AtMostOne(S) == \A x, y \in S : x = y

AtMostTwo(S) == \A x, y, z \in S : x = y \/ y = z \/ x = z

\* A call that has accepted a region and not mapped it yet.
Accepts(c, i) ==
    c # Idle /\ c.op = "accept" /\ c.pc \in {"region", "map"} /\ c.id = i

\* The frame of a region that is being created is mapped at the end at most,
\* for the process that creates it.
CreatedMapped ==
    \A t \in Creating :
        LET at == MappedAt(mapping, call[t].pages[1])
        IN  /\ call[t].pc # "done" => at = {}
            /\ AtMostOne(at) /\ \A x \in at : x[1] = call[t].proc

FramesInv ==
    /\ tables \in [Process -> [0 .. LastPage \div Span -> Frame \cup {NoThread}]]
    /\ mapping \in [Process -> [Page -> Frame \cup {Device, NoThread}]]
    /\ Sound(freeFrames, Uses)
    /\ CreatedMapped

\* A region is mapped by its creator and by the one that accepts it.
RegionMapped(r, at) ==
    /\ \A x \in at : x[1] \in {r.owner, r.user}
    /\ r.user = NoThread => AtMostOne(at)
    /\ AtMostTwo(at)

TwoInv ==
    /\ \A i \in DOMAIN shmem :
          LET at == MappedAt(mapping, shmem[i].pages[1])
          IN  /\ RegionMapped(shmem[i], at)
              /\ \A t \in Caller : Accepts(call[t], i) => AtMostOne(at)
    /\ \A t, u \in Caller, i \in DOMAIN shmem :
          Accepts(call[t], i) /\ Accepts(call[u], i) => t = u

LEMMA KernelRows ==
    /\ \A u \in KernelUses : u[1] = "kernel" /\ u[2] \in kernelFrames /\ u[3] = u[2]
                         /\ u = << "kernel", u[2], u[3] >>
    /\ \A x \in kernelFrames : << "kernel", x, x >> \in KernelUses
BY DEF KernelUses

LEMMA SharedRows ==
    /\ \A u \in SharedUses : u[1] = "shared" /\ u[2] \in DOMAIN shmem /\ u[3] = shmem[u[2]].pages[1]
                         /\ u = << "shared", u[2], u[3] >>
    /\ \A x \in DOMAIN shmem : << "shared", x, shmem[x].pages[1] >> \in SharedUses
BY DEF SharedUses

LEMMA CreatingRows ==
    /\ \A u \in CreatingUses : u[1] = "creating" /\ u[2] \in Creating /\ u[3] = call[u[2]].pages[1]
                         /\ u = << "creating", u[2], u[3] >>
    /\ \A x \in Creating : << "creating", x, call[x].pages[1] >> \in CreatingUses
BY DEF CreatingUses

LEMMA TableRows ==
    /\ \A u \in TableUses : u[1] = "table" /\ u[2] \in TablePlaces /\ u[3] = tables[u[2][1]][u[2][2]]
                         /\ u = << "table", u[2], u[3] >>
    /\ \A x \in TablePlaces : << "table", x, tables[x[1]][x[2]] >> \in TableUses
BY DEF TableUses

LEMMA HandRows ==
    /\ \A u \in HandUses : u[1] = "hand" /\ u[2] \in InHand /\ u[3] = call[u[2]].frame
                         /\ u = << "hand", u[2], u[3] >>
    /\ \A x \in InHand : << "hand", x, call[x].frame >> \in HandUses
BY DEF HandUses

LEMMA PrivateRows ==
    /\ \A u \in PrivateUses : u[1] = "private" /\ u[2] \in PrivatePlaces /\ u[3] = mapping[u[2][1]][u[2][2]]
                         /\ u = << "private", u[2], u[3] >>
    /\ \A x \in PrivatePlaces : << "private", x, mapping[x[1]][x[2]] >> \in PrivateUses
BY DEF PrivateUses

LEMMA SharedOnes ==
    ASSUME Typed, Shaped
    PROVE  /\ Shared = {shmem[i].pages[1] : i \in DOMAIN shmem}
           /\ FramesOf(SharedUses) = Shared
<1>1. ASSUME NEW i \in DOMAIN shmem PROVE ToSet(shmem[i].pages) = {shmem[i].pages[1]}
  <2>1. DOMAIN shmem[i].pages = 1 .. Len(shmem[i].pages) /\ Len(shmem[i].pages) = 1
    BY DEF Typed, SharedRegions, Shaped, OnePage
  <2> QED BY <2>1 DEF ToSet
<1>2. Shared = {shmem[i].pages[1] : i \in DOMAIN shmem}
  BY <1>1 DEF Shared
<1>3. \A i \in DOMAIN shmem : \E u \in SharedUses : u[3] = shmem[i].pages[1]
  BY SharedRows
<1> QED BY <1>2, <1>3, SharedRows DEF FramesOf

LEMMA InUseOnes ==
    ASSUME Typed, Shaped
    PROVE  InUse = freeFrames \cup FramesOf(Uses)
<1>1. FramesOf(SharedUses) = Shared
  BY SharedOnes
<1>2. FramesOf(KernelUses) = kernelFrames
  <2>1. \A x \in kernelFrames : \E u \in KernelUses : u[3] = x
    BY KernelRows
  <2> QED BY <2>1, KernelRows DEF FramesOf
<1>3. FramesOf(CreatingUses) = CreatedFrames
  <2>1. \A x \in Creating : \E u \in CreatingUses : u[3] = call[x].pages[1]
    BY CreatingRows
  <2> QED BY <2>1, CreatingRows DEF FramesOf, CreatedFrames
<1>4. FramesOf(TableUses) = {tables[x[1]][x[2]] : x \in TablePlaces}
  <2>1. \A x \in TablePlaces : \E u \in TableUses : u[3] = tables[x[1]][x[2]]
    BY TableRows
  <2> QED BY <2>1, TableRows DEF FramesOf
<1>5. FramesOf(HandUses) = {call[t].frame : t \in InHand}
  <2>1. \A x \in InHand : \E u \in HandUses : u[3] = call[x].frame
    BY HandRows
  <2> QED BY <2>1, HandRows DEF FramesOf
<1>6. FramesOf(PrivateUses) = {mapping[x[1]][x[2]] : x \in PrivatePlaces}
  <2>1. \A x \in PrivatePlaces : \E u \in PrivateUses : u[3] = mapping[x[1]][x[2]]
    BY PrivateRows
  <2> QED BY <2>1, PrivateRows DEF FramesOf
<1>7. FramesOf(Uses) = UNION {FramesOf(KernelUses), FramesOf(SharedUses), FramesOf(CreatingUses),
                              FramesOf(TableUses), FramesOf(HandUses), FramesOf(PrivateUses)}
  BY DEF FramesOf, Uses
<1> QED BY <1>1, <1>2, <1>3, <1>4, <1>5, <1>6, <1>7 DEF InUse

LEMMA UsesCount ==
    ASSUME Typed, Shaped, IsFiniteSet(Uses)
    PROVE  /\ Cardinality(Uses) =
                 Cardinality(kernelFrames) + Len(shmem) + Cardinality(Creating)
                 + Cardinality(TablePlaces) + Cardinality(InHand) + Cardinality(PrivatePlaces)
           /\ {Cardinality(kernelFrames), Len(shmem), Cardinality(Creating),
               Cardinality(TablePlaces), Cardinality(InHand), Cardinality(PrivatePlaces)} \subseteq Nat
<1>1. Cardinality(KernelUses) = Cardinality(kernelFrames)
  <2>1. kernelFrames = {u[2] : u \in KernelUses}
    <3>1. \A x \in kernelFrames : \E u \in KernelUses : u[2] = x
      BY KernelRows
    <3> QED BY <3>1, KernelRows
  <2>2. \A u, w \in KernelUses : u[2] = w[2] => u = w
    BY KernelRows
  <2>3. IsFiniteSet(KernelUses)
    BY FS_Subset DEF Uses
  <2> QED BY <2>1, <2>2, <2>3, ColumnCount
<1>2. Cardinality(SharedUses) = Len(shmem)
  <2>1. DOMAIN shmem = {u[2] : u \in SharedUses}
    <3>1. \A x \in DOMAIN shmem : \E u \in SharedUses : u[2] = x
      BY SharedRows
    <3> QED BY <3>1, SharedRows
  <2>2. \A u, w \in SharedUses : u[2] = w[2] => u = w
    BY SharedRows
  <2>3. IsFiniteSet(SharedUses)
    BY FS_Subset DEF Uses
  <2>4. Cardinality(DOMAIN shmem) = Cardinality(SharedUses)
    BY <2>1, <2>2, <2>3, ColumnCount
  <2>5. DOMAIN shmem = 1 .. Len(shmem) /\ Len(shmem) \in Nat
    <3>1. shmem \in Seq(SharedRegions)
      BY DEF Typed
    <3> QED BY <3>1
  <2>6. Cardinality(1 .. Len(shmem)) = Len(shmem)
    <3> DEFINE n == Len(shmem)
    <3>1. 1 \in Int /\ n \in Int /\ n >= 0
      BY <2>5
    <3> HIDE DEF n
    <3>2. Cardinality(1 .. n) = IF 1 > n THEN 0 ELSE n - 1 + 1
      BY <3>1, FS_Interval, Zenon
    <3>3. Cardinality(1 .. n) = n
      BY <3>1, <3>2
    <3> QED BY <3>3 DEF n
  <2> QED BY <2>4, <2>5, <2>6
<1>3. Cardinality(CreatingUses) = Cardinality(Creating)
  <2>1. Creating = {u[2] : u \in CreatingUses}
    <3>1. \A x \in Creating : \E u \in CreatingUses : u[2] = x
      BY CreatingRows
    <3> QED BY <3>1, CreatingRows
  <2>2. \A u, w \in CreatingUses : u[2] = w[2] => u = w
    BY CreatingRows
  <2>3. IsFiniteSet(CreatingUses)
    BY FS_Subset DEF Uses
  <2> QED BY <2>1, <2>2, <2>3, ColumnCount
<1>4. Cardinality(TableUses) = Cardinality(TablePlaces)
  <2>1. TablePlaces = {u[2] : u \in TableUses}
    <3>1. \A x \in TablePlaces : \E u \in TableUses : u[2] = x
      BY TableRows
    <3> QED BY <3>1, TableRows
  <2>2. \A u, w \in TableUses : u[2] = w[2] => u = w
    BY TableRows
  <2>3. IsFiniteSet(TableUses)
    BY FS_Subset DEF Uses
  <2> QED BY <2>1, <2>2, <2>3, ColumnCount
<1>5. Cardinality(HandUses) = Cardinality(InHand)
  <2>1. InHand = {u[2] : u \in HandUses}
    <3>1. \A x \in InHand : \E u \in HandUses : u[2] = x
      BY HandRows
    <3> QED BY <3>1, HandRows
  <2>2. \A u, w \in HandUses : u[2] = w[2] => u = w
    BY HandRows
  <2>3. IsFiniteSet(HandUses)
    BY FS_Subset DEF Uses
  <2> QED BY <2>1, <2>2, <2>3, ColumnCount
<1>6. Cardinality(PrivateUses) = Cardinality(PrivatePlaces)
  <2>1. PrivatePlaces = {u[2] : u \in PrivateUses}
    <3>1. \A x \in PrivatePlaces : \E u \in PrivateUses : u[2] = x
      BY PrivateRows
    <3> QED BY <3>1, PrivateRows
  <2>2. \A u, w \in PrivateUses : u[2] = w[2] => u = w
    BY PrivateRows
  <2>3. IsFiniteSet(PrivateUses)
    BY FS_Subset DEF Uses
  <2> QED BY <2>1, <2>2, <2>3, ColumnCount
<1> DEFINE two == KernelUses \cup SharedUses
           three == two \cup CreatingUses
           four == three \cup TableUses
           five == four \cup HandUses
<1>7. /\ \A u \in KernelUses : u[1] = "kernel"
      /\ \A u \in SharedUses : u[1] = "shared"
      /\ \A u \in CreatingUses : u[1] = "creating"
      /\ \A u \in TableUses : u[1] = "table"
      /\ \A u \in HandUses : u[1] = "hand"
      /\ \A u \in PrivateUses : u[1] = "private"
  BY KernelRows, SharedRows, CreatingRows, TableRows, HandRows, PrivateRows
<1>8. /\ KernelUses \cap SharedUses = {} /\ two \cap CreatingUses = {}
      /\ three \cap TableUses = {} /\ four \cap HandUses = {} /\ five \cap PrivateUses = {}
  BY <1>7
<1>9. /\ IsFiniteSet(KernelUses) /\ IsFiniteSet(SharedUses) /\ IsFiniteSet(CreatingUses)
      /\ IsFiniteSet(TableUses) /\ IsFiniteSet(HandUses) /\ IsFiniteSet(PrivateUses)
      /\ IsFiniteSet(two) /\ IsFiniteSet(three) /\ IsFiniteSet(four) /\ IsFiniteSet(five)
  <2>1. /\ KernelUses \subseteq Uses /\ SharedUses \subseteq Uses /\ CreatingUses \subseteq Uses
        /\ TableUses \subseteq Uses /\ HandUses \subseteq Uses /\ PrivateUses \subseteq Uses
        /\ two \subseteq Uses /\ three \subseteq Uses /\ four \subseteq Uses /\ five \subseteq Uses
    BY DEF Uses
  <2> HIDE DEF two, three, four, five
  <2> QED BY <2>1, FS_Subset
<1>10. Uses = five \cup PrivateUses
  BY DEF Uses
<1>11. Cardinality(two) = Cardinality(KernelUses) + Cardinality(SharedUses)
       /\ Cardinality(KernelUses) \in Nat /\ Cardinality(SharedUses) \in Nat
  BY <1>8, <1>9, DisjointCount
<1>12. Cardinality(three) = Cardinality(two) + Cardinality(CreatingUses)
       /\ Cardinality(CreatingUses) \in Nat
  <2> HIDE DEF two
  <2> QED BY <1>8, <1>9, DisjointCount
<1>13. Cardinality(four) = Cardinality(three) + Cardinality(TableUses)
       /\ Cardinality(TableUses) \in Nat
  <2> HIDE DEF three
  <2> QED BY <1>8, <1>9, DisjointCount
<1>14. Cardinality(five) = Cardinality(four) + Cardinality(HandUses)
       /\ Cardinality(HandUses) \in Nat
  <2> HIDE DEF four
  <2> QED BY <1>8, <1>9, DisjointCount
<1>15. Cardinality(Uses) = Cardinality(five) + Cardinality(PrivateUses)
       /\ Cardinality(PrivateUses) \in Nat
  <2> HIDE DEF five
  <2> QED BY <1>8, <1>9, <1>10, DisjointCount
<1> HIDE DEF two, three, four, five
<1> QED BY <1>1, <1>2, <1>3, <1>4, <1>5, <1>6, <1>11, <1>12, <1>13, <1>14, <1>15

-----------------------------------------------------------------------------
(* Regions stay as they were made. *)

\* No region disappears or loses its user.
RegionsStay(regions, later) ==
    \A i \in DOMAIN regions :
        /\ i \in DOMAIN later /\ later[i].pages = regions[i].pages
        /\ later[i].owner = regions[i].owner
        /\ regions[i].user # NoThread => later[i].user = regions[i].user

LEMMA ShapeStays ==
    ASSUME NEW regions, NEW later, RegionsStay(regions, later),
           NEW c \in Calls, ShapedCall(c, regions)
    PROVE  ShapedCall(c, later)
<1>1. c.proc # NoThread
  BY MemoryAssumption DEF Calls
<1> QED BY <1>1 DEF ShapedCall, RegionsStay

LEMMA KeepsShape ==
    ASSUME Typed, Shaped, NEW t \in Caller,
           \A u \in Caller : u # t => call'[u] = call[u],
           RegionsStay(shmem, shmem'), OnePage(shmem'),
           call'[t] # Idle => ShapedCall(call'[t], shmem')
    PROVE  Shaped'
<1>1. ASSUME NEW u \in Caller, u # t, call'[u] # Idle PROVE ShapedCall(call'[u], shmem')
  <2>1. call[u] # Idle /\ call'[u] = call[u]
    BY <1>1
  <2>2. call[u] \in Calls /\ ShapedCall(call[u], shmem)
    BY <2>1 DEF Typed, Shaped
  <2>3. ShapedCall(call[u], shmem')
    BY <2>2, ShapeStays
  <2> QED BY <2>1, <2>3
<1> QED BY <1>1 DEF Shaped, OnePage

LEMMA SameRegions ==
    ASSUME Shaped, shmem' = shmem
    PROVE  RegionsStay(shmem, shmem') /\ OnePage(shmem')
BY DEF RegionsStay, OnePage, Shaped

LEMMA InitShaped == Init => Shaped
<1> SUFFICES ASSUME Init PROVE Shaped
  OBVIOUS
<1>1. shmem = << >> /\ \A t \in Caller : call[t] = Idle
  BY DEF Init
<1> QED BY <1>1 DEF Shaped, OnePage

LEMMA StepShaped == Typed /\ Shaped /\ [Next]_vars => Shaped'
<1> SUFFICES ASSUME Typed, Shaped, [Next]_vars PROVE Shaped'
  OBVIOUS
<1>1. CASE UNCHANGED << call, shmem >>
  BY <1>1 DEF Shaped, OnePage
<1>a. ASSUME NEW t \in Caller, call[t].pc # "idle"
      PROVE  call[t] \in Calls /\ ShapedCall(call[t], shmem)
  BY <1>a, CallTyped DEF Shaped
<1>2. ASSUME NEW t \in Caller, NEW c \in FirstCalls, Begin(t, c)
      PROVE  Shaped'
  <2>1. call' = [call EXCEPT ![t] = c] /\ shmem' = shmem
    BY <1>2 DEF Begin, shmVars
  <2>2. call'[t] = c /\ \A u \in Caller : u # t => call'[u] = call[u]
    BY <2>1 DEF Typed
  <2>3. ShapedCall(c, shmem)
    BY DEF FirstCalls, ShapedCall, Calls
  <2> QED BY <2>1, <2>2, <2>3, KeepsShape, SameRegions
<1>3. ASSUME NEW t \in Caller, NEW b \in Nat, NEW list \in Seq(Regions), Taken(t, b, list)
      PROVE  Shaped'
  <2>1. call[t].pc = "region" /\ Located(t, b) /\ shmem' = shmem
    BY <1>3 DEF Taken, Lock, shmVars
  <2>2. /\ call'[t] = [call[t] EXCEPT !.pc = IF Allocating(t) THEN "page" ELSE "map", !.base = b]
        /\ \A u \in Caller : u # t => call'[u] = call[u]
    BY <2>1, LocatedTyped
  <2>3. ShapedCall(call'[t], shmem')
    BY <1>a, <2>1, <2>2 DEF ShapedCall, Calls, Allocating
  <2> QED BY <2>1, <2>2, <2>3, KeepsShape, SameRegions
<1>4. ASSUME NEW t \in Caller, Goto(t, "failed"), call[t].pc # "idle", call[t].pc # "map",
             shmem' = shmem
      PROVE  Shaped'
  <2>1. /\ call'[t] = [call[t] EXCEPT !.pc = "failed"]
        /\ \A u \in Caller : u # t => call'[u] = call[u]
    BY <1>4, GotoTyped DEF Places
  <2>2. ShapedCall(call'[t], shmem')
    BY <1>a, <1>4, <2>1 DEF ShapedCall, Calls
  <2> QED BY <1>4, <2>1, <2>2, KeepsShape, SameRegions
<1>5. ASSUME NEW t \in Caller, NoRegion(t) PROVE Shaped'
  BY <1>4, <1>5 DEF NoRegion, Lock, shmVars
<1>6. ASSUME NEW t \in Caller, Fault(t) PROVE Shaped'
  BY <1>1, <1>6 DEF Fault, shmVars
<1>7. ASSUME NEW t \in Caller, AllocPage(t) PROVE Shaped'
  <2>1. /\ call' = [call EXCEPT ![t].pc = "map", ![t].frame = SomeFrame]
        /\ call[t].pc = "page" /\ shmem' = shmem
    BY <1>7 DEF AllocPage, shmVars
  <2>2. SomeFrame # NoThread
    <3>1. SomeFrame \in Frame
      BY <1>7, SomeFrameFree DEF AllocPage
    <3>2. Frame \subseteq Int
      BY MemoryAssumption DEF Frame
    <3> QED BY <3>1, <3>2, MemoryAssumption
  <2>3. call[t] \in Calls /\ ShapedCall(call[t], shmem)
    BY <1>a, <2>1
  <2>4. /\ call'[t] = [call[t] EXCEPT !.pc = "map", !.frame = SomeFrame]
        /\ \A u \in Caller : u # t => call'[u] = call[u]
    BY <2>1, <2>3 DEF Typed
  <2>5. /\ call'[t].pc = "map" /\ call'[t].frame = SomeFrame
        /\ call'[t].pages = call[t].pages /\ call'[t].op = call[t].op
        /\ call'[t].size = call[t].size /\ call'[t].id = call[t].id /\ call'[t].proc = call[t].proc
    BY <2>3, <2>4 DEF Calls
  <2>6. ShapedCall(call'[t], shmem')
    BY <2>1, <2>2, <2>3, <2>5 DEF ShapedCall
  <2> QED BY <2>1, <2>4, <2>6, KeepsShape, SameRegions
<1>8. ASSUME NEW t \in Caller, NoPage(t) PROVE Shaped'
  BY <1>4, <1>8 DEF NoPage, shmVars
<1>9. ASSUME NEW t \in Caller, MapPage(t) PROVE Shaped'
  <2>1. /\ call' = [call EXCEPT ![t] = [@ EXCEPT !.done = call[t].done + 1,
                                                !.frame = NoThread, !.pc = AfterPage(t)]]
        /\ call[t].pc = "map" /\ shmem' = shmem
    BY <1>9 DEF MapPage, shmVars
  <2>3. call[t] \in Calls /\ ShapedCall(call[t], shmem)
    BY <1>a, <2>1
  <2>4. /\ call'[t] = [call[t] EXCEPT !.done = call[t].done + 1,
                                      !.frame = NoThread, !.pc = AfterPage(t)]
        /\ \A u \in Caller : u # t => call'[u] = call[u]
    BY <2>1, <2>3 DEF Typed
  <2>5. call[t].op \notin {"alloc", "fixed"} => AfterPage(t) \in {"done", "map"}
    BY DEF AfterPage, Allocating
  <2>6. call[t].op \in {"alloc", "fixed"} => AfterPage(t) \in {"done", "page"}
    BY DEF AfterPage, Allocating
  <2>7. ShapedCall(call'[t], shmem')
    BY <2>1, <2>3, <2>4, <2>5, <2>6 DEF ShapedCall, Calls
  <2> QED BY <2>1, <2>4, <2>7, KeepsShape, SameRegions
<1>10. ASSUME NEW t \in Caller, CannotMap(t) PROVE Shaped'
  <2>1. /\ call' = [call EXCEPT ![t].pc = "failed", ![t].frame = NoThread]
        /\ call[t].pc = "map" /\ shmem' = shmem
    BY <1>10 DEF CannotMap, shmVars
  <2>3. call[t] \in Calls /\ ShapedCall(call[t], shmem)
    BY <1>a, <2>1
  <2>4. /\ call'[t] = [call[t] EXCEPT !.pc = "failed", !.frame = NoThread]
        /\ \A u \in Caller : u # t => call'[u] = call[u]
    BY <2>1, <2>3 DEF Typed
  <2>5. /\ call'[t].pc = "failed" /\ call'[t].frame = NoThread
        /\ call'[t].pages = call[t].pages /\ call'[t].op = call[t].op
        /\ call'[t].size = call[t].size /\ call'[t].id = call[t].id /\ call'[t].proc = call[t].proc
    BY <2>3, <2>4 DEF Calls
  <2>6. ShapedCall(call'[t], shmem')
    BY <2>1, <2>3, <2>5 DEF ShapedCall
  <2> QED BY <2>1, <2>4, <2>6, KeepsShape, SameRegions
<1>11. ASSUME NEW t \in Caller, Create(t) PROVE Shaped'
  <2>1. /\ Goto(t, "shm-page") /\ call[t].pc = "shm" /\ call[t].pc # "idle"
        /\ call[t].op = "create" /\ shmem' = shmem
    BY <1>11 DEF Create, LockShmem
  <2>2. /\ call'[t] = [call[t] EXCEPT !.pc = "shm-page"]
        /\ \A u \in Caller : u # t => call'[u] = call[u]
    BY <2>1, GotoTyped DEF Places
  <2>3. ShapedCall(call'[t], shmem')
    BY <1>a, <2>1, <2>2 DEF ShapedCall, Calls
  <2> QED BY <2>1, <2>2, <2>3, KeepsShape, SameRegions
<1>12. ASSUME NEW t \in Caller, CreatePage(t) PROVE Shaped'
  <2>1. CASE freeFrames = {}
    BY <1>4, <1>12, <2>1 DEF CreatePage, shmVars
  <2>2. CASE freeFrames # {}
    <3>1. /\ call' = [call EXCEPT ![t].pc = "region", ![t].pages = << SomeFrame >>]
          /\ call[t].pc = "shm-page" /\ shmem' = shmem
      BY <1>12, <2>2 DEF CreatePage, shmVars
    <3>2. SomeFrame \in Frame
      BY <2>2, SomeFrameFree
    <3>3. call[t] \in Calls /\ ShapedCall(call[t], shmem)
      BY <1>a, <3>1
    <3>4. /\ call'[t] = [call[t] EXCEPT !.pc = "region", !.pages = << SomeFrame >>]
          /\ \A u \in Caller : u # t => call'[u] = call[u]
      BY <3>1, <3>3 DEF Typed
    <3>5. call[t].op = "create"
      BY <3>1, <3>3 DEF ShapedCall, Calls
    <3>6. Len(<< SomeFrame >>) = 1 /\ << SomeFrame >>[1] = SomeFrame /\ << SomeFrame >> # << >>
      OBVIOUS
    <3>7. /\ call'[t].pc = "region" /\ call'[t].frame = call[t].frame
          /\ call'[t].pages = << SomeFrame >> /\ call'[t].op = call[t].op
          /\ call'[t].size = call[t].size /\ call'[t].id = call[t].id /\ call'[t].proc = call[t].proc
      BY <3>3, <3>4 DEF Calls
    <3>8. ShapedCall(call'[t], shmem')
      BY <3>2, <3>3, <3>5, <3>6, <3>7 DEF ShapedCall
    <3> QED BY <3>1, <3>4, <3>8, KeepsShape, SameRegions
  <2> QED BY <2>1, <2>2
<1>13. ASSUME NEW t \in Caller, Accept(t) PROVE Shaped'
  <2> DEFINE i == call[t].id
  <2>1. /\ call[t].pc = "shm" /\ call[t].op = "accept"
        /\ i \in DOMAIN shmem /\ shmem[i].user = NoThread
        /\ shmem' = [shmem EXCEPT ![i].user = call[t].proc]
        /\ call' = [call EXCEPT ![t].pc = "region", ![t].pages = shmem[i].pages]
    BY <1>13 DEF Accept, LockShmem, CanAccept
  <2>2. call[t] \in Calls /\ ShapedCall(call[t], shmem)
    BY <1>a, <2>1
  <2>3. /\ call'[t] = [call[t] EXCEPT !.pc = "region", !.pages = shmem[i].pages]
        /\ \A u \in Caller : u # t => call'[u] = call[u]
    BY <2>1, <2>2 DEF Typed
  <2> HIDE DEF i
  <2>4. /\ DOMAIN shmem' = DOMAIN shmem
        /\ \A j \in DOMAIN shmem : shmem'[j].pages = shmem[j].pages /\ shmem'[j].owner = shmem[j].owner
                                   /\ (j # i => shmem'[j] = shmem[j])
        /\ shmem'[i].user = call[t].proc
    <3>1. \A j \in DOMAIN shmem : shmem[j] \in SharedRegions
      BY DEF Typed
    <3>2. shmem'[i] = [shmem[i] EXCEPT !.user = call[t].proc]
      BY <2>1
    <3>3. /\ shmem'[i].user = call[t].proc /\ shmem'[i].pages = shmem[i].pages
          /\ shmem'[i].owner = shmem[i].owner
      BY <2>1, <3>1, <3>2 DEF SharedRegions
    <3> QED BY <2>1, <3>3
  <2>5. RegionsStay(shmem, shmem') /\ OnePage(shmem')
    BY <2>1, <2>4 DEF RegionsStay, Shaped, OnePage
  <2>6. /\ call'[t].pc = "region" /\ call'[t].frame = call[t].frame
        /\ call'[t].pages = shmem[i].pages /\ call'[t].op = call[t].op
        /\ call'[t].size = call[t].size /\ call'[t].id = call[t].id /\ call'[t].proc = call[t].proc
    BY <2>2, <2>3 DEF Calls
  <2>7. ShapedCall(call'[t], shmem')
    BY <2>1, <2>2, <2>4, <2>6 DEF ShapedCall, i
  <2> QED BY <2>3, <2>5, <2>7, KeepsShape
<1>14. ASSUME NEW t \in Caller, NoShmem(t) PROVE Shaped'
  BY <1>4, <1>14 DEF NoShmem, LockShmem
<1>15. ASSUME NEW t \in Caller, Finish(t) PROVE Shaped'
  <2>1. call' = [call EXCEPT ![t] = Idle] /\ call[t].pc \in {"done", "failed"} /\ Created(t)
    BY <1>15 DEF Finish
  <2>2. call'[t] = Idle /\ \A u \in Caller : u # t => call'[u] = call[u]
    BY <2>1 DEF Typed
  <2>3. CASE call[t].op = "create" /\ call[t].pc = "done"
    <3> DEFINE r == [owner |-> call[t].proc, user |-> NoThread, pages |-> call[t].pages]
    <3>1. shmem' = Append(shmem, r)
      BY <2>1, <2>3 DEF Created
    <3>2. Len(r.pages) = 1 /\ r.pages[1] \in Frame
      BY <1>a, <2>3 DEF ShapedCall
    <3>3. shmem \in Seq(SharedRegions)
      BY DEF Typed
    <3> HIDE DEF r
    <3>4. /\ \A i \in DOMAIN shmem : i \in DOMAIN shmem' /\ shmem'[i] = shmem[i]
          /\ \A i \in DOMAIN shmem' : i \notin DOMAIN shmem => shmem'[i] = r
      BY <3>1, <3>3
    <3>5. RegionsStay(shmem, shmem') /\ OnePage(shmem')
      BY <3>2, <3>4 DEF RegionsStay, OnePage, Shaped
    <3> QED BY <2>2, <3>5, KeepsShape
  <2>4. CASE ~(call[t].op = "create" /\ call[t].pc = "done")
    BY <2>1, <2>2, <2>4, KeepsShape, SameRegions DEF Created
  <2> QED BY <2>3, <2>4
<1>16. CASE KernelAlloc \/ (\E f \in kernelFrames : KernelFree(f)) \/ UNCHANGED vars
  BY <1>1, <1>16 DEF KernelAlloc, KernelFree, vars, shmVars
<1> QED
  <2>1. ASSUME NEW t \in Caller, TakeAnywhere(t) PROVE Shaped'
    BY <1>3, <2>1, TakenAnywhere
  <2>2. ASSUME NEW t \in Caller, TakeFixed(t) PROVE Shaped'
    BY <1>3, <2>2, TakenFixed
  <2> QED BY <1>2, <1>5, <1>6, <1>7, <1>8, <1>9, <1>10, <1>11, <1>12, <1>13,
             <1>14, <1>15, <1>16, <2>1, <2>2, Steps

-----------------------------------------------------------------------------
(* What a step leaves to the frames of calls, regions and mappings. *)

\* A call that creates a region has its frame; one in the loop over its pages
\* may have one in hand.
Creates(c) == c # Idle /\ c.op = "create" /\ c.pages # << >>
Holds(c) == c # Idle /\ c.frame # NoThread

LEMMA CreatingCalls ==
    /\ Creating = {t \in Caller : Creates(call[t])}
    /\ InHand = {t \in Caller : Holds(call[t])}
BY DEF Creating, InHand, Creates, Holds

LEMMA CreatingCallsLater ==
    /\ Creating' = {t \in Caller : Creates(call'[t])}
    /\ InHand' = {t \in Caller : Holds(call'[t])}
BY DEF Creating, InHand, Creates, Holds

\* Of a step in which at most the call of t changes.
LEMMA CallUses ==
    ASSUME NEW t \in Caller, \A u \in Caller : u # t => call'[u] = call[u],
           Creates(call'[t]) => Creates(call[t]) /\ call'[t].pages = call[t].pages,
           Holds(call'[t]) => Holds(call[t]) /\ call'[t].frame = call[t].frame
    PROVE  CreatingUses' \subseteq CreatingUses /\ HandUses' \subseteq HandUses
<1>1. ASSUME NEW w \in CreatingUses' PROVE w \in CreatingUses
  <2>1. PICK u \in Creating' : w = << "creating", u, call'[u].pages[1] >>
    BY DEF CreatingUses
  <2>2. u \in Creating /\ call'[u].pages = call[u].pages
    BY CreatingCalls, CreatingCallsLater
  <2> QED BY <2>1, <2>2 DEF CreatingUses
<1>2. ASSUME NEW w \in HandUses' PROVE w \in HandUses
  <2>1. PICK u \in InHand' : w = << "hand", u, call'[u].frame >>
    BY DEF HandUses
  <2>2. u \in InHand /\ call'[u].frame = call[u].frame
    BY CreatingCalls, CreatingCallsLater
  <2> QED BY <2>1, <2>2 DEF HandUses
<1> QED BY <1>1, <1>2

LEMMA OnePages ==
    ASSUME NEW regions \in Seq(SharedRegions), OnePage(regions)
    PROVE  UNION {ToSet(regions[i].pages) : i \in DOMAIN regions}
              = {regions[i].pages[1] : i \in DOMAIN regions}
<1>1. ASSUME NEW i \in DOMAIN regions PROVE ToSet(regions[i].pages) = {regions[i].pages[1]}
  <2>1. DOMAIN regions[i].pages = 1 .. Len(regions[i].pages) /\ Len(regions[i].pages) = 1
    BY DEF SharedRegions, OnePage
  <2> QED BY <2>1 DEF ToSet
<1>2. \A f : f \in UNION {ToSet(regions[i].pages) : i \in DOMAIN regions}
                 <=> \E i \in DOMAIN regions : f \in ToSet(regions[i].pages)
  BY Zenon
<1>3. \A f : f \in {regions[i].pages[1] : i \in DOMAIN regions}
                 <=> \E i \in DOMAIN regions : f = regions[i].pages[1]
  OBVIOUS
<1> DEFINE left == UNION {ToSet(regions[i].pages) : i \in DOMAIN regions}
           right == {regions[i].pages[1] : i \in DOMAIN regions}
<1>4. \A f : f \in left <=> f \in right
  <2> HIDE DEF left, right
  <2>1. \A f : f \in left <=> \E i \in DOMAIN regions : f \in ToSet(regions[i].pages)
    BY <1>2 DEF left
  <2>2. \A f : f \in right <=> \E i \in DOMAIN regions : f = regions[i].pages[1]
    BY <1>3 DEF right
  <2>3. ASSUME NEW i \in DOMAIN regions, NEW f
        PROVE  f \in ToSet(regions[i].pages) <=> f = regions[i].pages[1]
    BY <1>1, Zenon
  <2>4. ASSUME NEW f, f \in left PROVE f \in right
    <3>1. PICK i \in DOMAIN regions : f \in ToSet(regions[i].pages)
      BY <2>1, <2>4
    <3> QED BY <2>2, <2>3, <3>1
  <2>5. ASSUME NEW f, f \in right PROVE f \in left
    <3>1. PICK i \in DOMAIN regions : f = regions[i].pages[1]
      BY <2>2, <2>5
    <3> QED BY <2>1, <2>3, <3>1
  <2> QED BY <2>4, <2>5
<1> HIDE DEF left, right
<1>5. left = right
  BY <1>4
<1> QED BY <1>5 DEF left, right

\* The frames of the regions before and after a step.
LEMMA SharedFrames ==
    ASSUME Typed, Typed', Shaped, Shaped'
    PROVE  /\ Shared = {shmem[i].pages[1] : i \in DOMAIN shmem}
           /\ Shared' = {shmem'[i].pages[1] : i \in DOMAIN shmem'}
<1>1. shmem \in Seq(SharedRegions) /\ OnePage(shmem)
  BY DEF Typed, Shaped
<1>2. shmem' \in Seq(SharedRegions) /\ OnePage(shmem')
  BY DEF Typed, Shaped, OnePage
<1>3. Shared = UNION {ToSet(shmem[i].pages) : i \in DOMAIN shmem}
  BY DEF Shared
<1>4. Shared' = UNION {ToSet(shmem'[i].pages) : i \in DOMAIN shmem'}
  BY DEF Shared
<1>5. UNION {ToSet(shmem[i].pages) : i \in DOMAIN shmem}
              = {shmem[i].pages[1] : i \in DOMAIN shmem}
  BY <1>1, OnePages
<1>6. UNION {ToSet(shmem'[i].pages) : i \in DOMAIN shmem'}
              = {shmem'[i].pages[1] : i \in DOMAIN shmem'}
  BY <1>2, OnePages
<1> QED BY <1>3, <1>4, <1>5, <1>6

LEMMA SharedStays ==
    ASSUME Typed, Typed', Shaped, Shaped', RegionsStay(shmem, shmem')
    PROVE  Shared \subseteq Shared'
BY SharedFrames DEF RegionsStay

LEMMA CreatedStays ==
    ASSUME NEW t \in Caller, \A u \in Caller : u # t => call'[u] = call[u],
           Creates(call[t]) => Creates(call'[t]) /\ call'[t].pages = call[t].pages
    PROVE  CreatedFrames \subseteq CreatedFrames'
<1>1. ASSUME NEW u \in Creating PROVE u \in Creating' /\ call'[u].pages = call[u].pages
  BY CreatingCalls, CreatingCallsLater
<1> QED BY <1>1 DEF CreatedFrames

LEMMA PrivateStays ==
    ASSUME mapping' = mapping,
           \A f \in Shared \cup CreatedFrames :
               f \in Shared' \cup CreatedFrames' \/ MappedAt(mapping, f) = {}
    PROVE  PrivateUses' \subseteq PrivateUses
<1>1. ASSUME NEW w \in PrivateUses' PROVE w \in PrivateUses
  <2>1. PICK x \in PrivatePlaces' : w = << "private", x, mapping[x[1]][x[2]] >>
    BY DEF PrivateUses
  <2>2. /\ x \in Process \X Page /\ mapping[x[1]][x[2]] \in Frame
        /\ mapping[x[1]][x[2]] \notin Shared' \cup CreatedFrames'
    BY <2>1 DEF PrivatePlaces
  <2>3. x \in MappedAt(mapping, mapping[x[1]][x[2]])
    BY <2>2 DEF MappedAt
  <2>4. mapping[x[1]][x[2]] \notin Shared \cup CreatedFrames
    BY <2>2, <2>3
  <2>5. x \in PrivatePlaces
    BY <2>2, <2>4 DEF PrivatePlaces
  <2> QED BY <2>1, <2>5 DEF PrivateUses
<1> QED BY <1>1

\* A frame that is mapped has a use: private, or that of a region.
LEMMA MappedIsUsed ==
    ASSUME Typed, Shaped, NEW f \in Frame, MappedAt(mapping, f) # {}
    PROVE  f \in FramesOf(Uses)
<1>1. PICK x \in Process \X Page : mapping[x[1]][x[2]] = f
  BY DEF MappedAt
<1>2. CASE f \in Shared
  BY <1>2, SharedOnes DEF FramesOf, Uses
<1>3. CASE f \in CreatedFrames
  <2>1. PICK t \in Creating : f = call[t].pages[1]
    BY <1>3 DEF CreatedFrames
  <2>2. << "creating", t, f >> \in Uses
    BY <2>1 DEF CreatingUses, Uses
  <2>3. << "creating", t, f >>[3] = f
    OBVIOUS
  <2> QED BY <2>2, <2>3 DEF FramesOf
<1>4. CASE f \notin Shared \cup CreatedFrames
  <2>1. x \in PrivatePlaces
    BY <1>1, <1>4 DEF PrivatePlaces
  <2>2. << "private", x, f >> \in Uses
    BY <1>1, <2>1 DEF PrivateUses, Uses
  <2>3. << "private", x, f >>[3] = f
    OBVIOUS
  <2> QED BY <2>2, <2>3 DEF FramesOf
<1> QED BY <1>2, <1>3, <1>4

LEMMA FrameValues ==
    /\ Frame \subseteq Int /\ NoThread \notin Frame /\ Device \notin Frame
<1>1. Frame \subseteq Int
  BY MemoryAssumption DEF Frame
<1>2. Device \notin Frame
  BY MemoryAssumption DEF Frame
<1> QED BY <1>1, <1>2, MemoryAssumption

LEMMA UsesWithin ==
    ASSUME NEW more,
           KernelUses' \subseteq more, SharedUses' \subseteq more, CreatingUses' \subseteq more,
           TableUses' \subseteq more, HandUses' \subseteq more, PrivateUses' \subseteq more
    PROVE  Uses' \subseteq more
BY DEF Uses

LEMMA SameSharedUses ==
    ASSUME RegionsStay(shmem, shmem'), DOMAIN shmem' = DOMAIN shmem
    PROVE  SharedUses' \subseteq SharedUses
BY DEF RegionsStay, SharedUses

\* Of a step in which only the call of t changes, and neither its frames nor,
\* if it creates a region, how far it got.
LEMMA QuietFrames ==
    ASSUME Typed, Typed', Shaped, Shaped', FramesInv,
           NEW t \in Caller, \A u \in Caller : u # t => call'[u] = call[u],
           UNCHANGED << tables, mapping, freeFrames, kernelFrames >>,
           RegionsStay(shmem, shmem'), DOMAIN shmem' = DOMAIN shmem,
           Creates(call'[t]) <=> Creates(call[t]),
           Creates(call[t]) =>
               /\ call'[t].pages = call[t].pages /\ call'[t].proc = call[t].proc
               /\ call[t].pc # "done",
           Holds(call'[t]) => Holds(call[t]) /\ call'[t].frame = call[t].frame
    PROVE  FramesInv'
<1>1. CreatingUses' \subseteq CreatingUses /\ HandUses' \subseteq HandUses
  BY CallUses
<1>2. Shared \subseteq Shared' /\ CreatedFrames \subseteq CreatedFrames'
  BY SharedStays, CreatedStays
<1>3. PrivateUses' \subseteq PrivateUses
  BY <1>2, PrivateStays
<1>4. KernelUses' = KernelUses /\ TableUses' = TableUses
  BY DEF KernelUses, TableUses, TablePlaces
<1>5. SharedUses' \subseteq SharedUses
  BY SameSharedUses
<1>6. Uses' \subseteq Uses
  BY <1>1, <1>3, <1>4, <1>5, UsesWithin DEF Uses
<1>7. Sound(freeFrames', Uses')
  BY <1>6, FewerUses DEF FramesInv
<1>8. CreatedMapped'
  <2>1. ASSUME NEW u \in Creating'
        PROVE  LET at == MappedAt(mapping', call'[u].pages[1])
               IN  /\ call'[u].pc # "done" => at = {}
                   /\ AtMostOne(at) /\ \A x \in at : x[1] = call'[u].proc
    <3>1. u \in Creating /\ u \in Caller
      BY CreatingCalls, CreatingCallsLater
    <3>2. call'[u].pages = call[u].pages /\ call'[u].proc = call[u].proc
      BY <3>1, CreatingCalls
    <3>3. call'[u].pc # "done" => call[u].pc # "done"
      BY <3>1, CreatingCalls
    <3> QED BY <3>1, <3>2, <3>3 DEF FramesInv, CreatedMapped
  <2> QED BY <2>1 DEF CreatedMapped, AtMostOne, MappedAt
<1> QED BY <1>7, <1>8 DEF FramesInv

-----------------------------------------------------------------------------
(* Each action and the one use of each frame. *)

\* What a step leaves alone: the regions that are being created and where they
\* are mapped.
LEMMA CreatedStayMapped ==
    ASSUME FramesInv, NEW t \in Caller, \A u \in Caller : u # t => call'[u] = call[u],
           mapping' = mapping,
           Creates(call'[t]) =>
               \/ /\ Creates(call[t])
                  /\ call'[t].pages = call[t].pages /\ call'[t].proc = call[t].proc
                  /\ call[t].pc = "done" => call'[t].pc = "done"
                  /\ call'[t].pc = "done" => call[t].pc = "done"
               \/ MappedAt(mapping, call'[t].pages[1]) = {}
    PROVE  CreatedMapped'
<1>1. ASSUME NEW u \in Creating'
      PROVE  LET at == MappedAt(mapping', call'[u].pages[1])
             IN  /\ call'[u].pc # "done" => at = {}
                 /\ AtMostOne(at) /\ \A x \in at : x[1] = call'[u].proc
  <2>1. CASE u = t /\ MappedAt(mapping, call'[t].pages[1]) = {}
    BY <2>1 DEF AtMostOne
  <2>2. CASE ~(u = t /\ MappedAt(mapping, call'[t].pages[1]) = {})
    <3>1. u \in Creating /\ u \in Caller
      BY <2>2, CreatingCalls, CreatingCallsLater
    <3>2. call'[u].pages = call[u].pages /\ call'[u].proc = call[u].proc
          /\ (call'[u].pc # "done" => call[u].pc # "done")
      BY <2>2, <3>1, CreatingCallsLater
    <3> QED BY <3>1, <3>2 DEF FramesInv, CreatedMapped
  <2> QED BY <2>1, <2>2
<1> QED BY <1>1 DEF CreatedMapped, AtMostOne, MappedAt

LEMMA AllocFrames ==
    ASSUME Typed, Typed', Shaped, Shaped', FramesInv, NEW t \in Caller, AllocPage(t)
    PROVE  FramesInv'
<1>1. /\ call' = [call EXCEPT ![t].pc = "map", ![t].frame = SomeFrame]
      /\ call[t].pc = "page" /\ shmem' = shmem /\ freeFrames' = freeFrames \ {SomeFrame}
      /\ freeFrames # {} /\ UNCHANGED << tables, mapping, kernelFrames >>
  BY DEF AllocPage, shmVars
<1>2. call[t] \in Calls /\ call[t] # Idle
  BY <1>1, CallTyped
<1>3. /\ call'[t] = [call[t] EXCEPT !.pc = "map", !.frame = SomeFrame]
      /\ \A u \in Caller : u # t => call'[u] = call[u]
  BY <1>1 DEF Typed
<1>4. /\ call'[t].pages = call[t].pages /\ call'[t].op = call[t].op
      /\ call'[t].frame = SomeFrame
  BY <1>2, <1>3 DEF Calls
<1>5. ~Creates(call[t]) /\ ~Creates(call'[t])
  BY <1>1, <1>2, <1>4 DEF Shaped, ShapedCall, Creates
<1> DEFINE f == SomeFrame
           w == << "hand", t, f >>
<1>6. f \in freeFrames /\ f = w[3]
  BY <1>1, SomeFrameFree
<1> HIDE DEF f
<1>7. HandUses' \subseteq HandUses \cup {w}
  <2>1. ASSUME NEW x \in HandUses' PROVE x \in HandUses \cup {w}
    <3>1. PICK u \in InHand' : x = << "hand", u, call'[u].frame >>
      BY DEF HandUses
    <3>2. CASE u = t
      BY <1>4, <3>1, <3>2 DEF f
    <3>3. CASE u # t
      <4>1. u \in InHand /\ call'[u] = call[u]
        BY <1>3, <3>3, CreatingCalls, CreatingCallsLater
      <4> QED BY <3>1, <4>1 DEF HandUses
    <3> QED BY <3>2, <3>3
  <2> QED BY <2>1
<1>8. CreatingUses' \subseteq CreatingUses
  <2>1. ASSUME NEW x \in CreatingUses' PROVE x \in CreatingUses
    <3>1. PICK u \in Creating' : x = << "creating", u, call'[u].pages[1] >>
      BY DEF CreatingUses
    <3>2. u \in Creating /\ call'[u] = call[u]
      BY <1>3, <1>5, CreatingCalls, CreatingCallsLater
    <3> QED BY <3>1, <3>2 DEF CreatingUses
  <2> QED BY <2>1
<1>9. RegionsStay(shmem, shmem')
  BY <1>1, SameRegions
<1>10. Shared \subseteq Shared' /\ CreatedFrames \subseteq CreatedFrames'
  BY <1>3, <1>5, <1>9, SharedStays, CreatedStays
<1>11. PrivateUses' \subseteq PrivateUses
  BY <1>1, <1>10, PrivateStays
<1>12. KernelUses' = KernelUses /\ TableUses' = TableUses /\ SharedUses' = SharedUses
  BY <1>1 DEF KernelUses, TableUses, TablePlaces, SharedUses
<1>13. Uses' \subseteq Uses \cup {w}
  BY <1>7, <1>8, <1>11, <1>12, UsesWithin DEF Uses
<1>14. Sound(freeFrames', Uses')
  <2>1. freeFrames' = freeFrames \ {w[3]}
    BY <1>1, <1>6 DEF f
  <2>2. Sound(freeFrames, Uses)
    BY DEF FramesInv
  <2> HIDE DEF w
  <2>3. Sound(freeFrames \ {w[3]}, Uses')
    BY <1>6, <1>13, <2>2, NewUse
  <2> QED BY <2>1, <2>3
<1>15. CreatedMapped'
  BY <1>1, <1>3, <1>5, CreatedStayMapped
<1> QED BY <1>1, <1>14, <1>15 DEF FramesInv

LEMMA CreatePageFrames ==
    ASSUME Typed, Typed', Shaped, Shaped', FramesInv, NEW t \in Caller, CreatePage(t),
           freeFrames # {}
    PROVE  FramesInv'
<1>1. /\ call' = [call EXCEPT ![t].pc = "region", ![t].pages = << SomeFrame >>]
      /\ call[t].pc = "shm-page" /\ shmem' = shmem /\ freeFrames' = freeFrames \ {SomeFrame}
      /\ UNCHANGED << tables, mapping, kernelFrames >>
  BY DEF CreatePage, shmVars
<1>2. call[t] \in Calls /\ call[t] # Idle
  BY <1>1, CallTyped
<1>3. /\ call'[t] = [call[t] EXCEPT !.pc = "region", !.pages = << SomeFrame >>]
      /\ \A u \in Caller : u # t => call'[u] = call[u]
  BY <1>1, <1>2 DEF Typed
<1> DEFINE f == SomeFrame
           w == << "creating", t, f >>
<1>4. /\ call'[t].pages = << f >> /\ call'[t].frame = call[t].frame
      /\ call'[t].pages[1] = f
  BY <1>2, <1>3 DEF Calls
<1>5. ~Creates(call[t]) /\ ~Holds(call[t]) /\ ~Holds(call'[t])
  BY <1>1, <1>2, <1>4 DEF Shaped, ShapedCall, Creates, Holds
<1>6. f \in freeFrames /\ f \in Frame /\ f = w[3]
  BY <1>1, SomeFrameFree
<1> HIDE DEF f
<1>7. CreatingUses' \subseteq CreatingUses \cup {w}
  <2>1. ASSUME NEW x \in CreatingUses' PROVE x \in CreatingUses \cup {w}
    <3>1. PICK u \in Creating' : x = << "creating", u, call'[u].pages[1] >>
      BY DEF CreatingUses
    <3>2. CASE u = t
      BY <1>4, <3>1, <3>2
    <3>3. CASE u # t
      <4>1. u \in Creating /\ call'[u] = call[u]
        BY <1>3, <3>3, CreatingCalls, CreatingCallsLater
      <4> QED BY <3>1, <4>1 DEF CreatingUses
    <3> QED BY <3>2, <3>3
  <2> QED BY <2>1
<1>8. HandUses' \subseteq HandUses
  <2>1. ASSUME NEW x \in HandUses' PROVE x \in HandUses
    <3>1. PICK u \in InHand' : x = << "hand", u, call'[u].frame >>
      BY DEF HandUses
    <3>2. u \in InHand /\ call'[u] = call[u]
      BY <1>3, <1>5, CreatingCalls, CreatingCallsLater
    <3> QED BY <3>1, <3>2 DEF HandUses
  <2> QED BY <2>1
<1>9. RegionsStay(shmem, shmem')
  BY <1>1, SameRegions
<1>10. Shared \subseteq Shared' /\ CreatedFrames \subseteq CreatedFrames'
  BY <1>3, <1>5, <1>9, SharedStays, CreatedStays
<1>11. PrivateUses' \subseteq PrivateUses
  BY <1>1, <1>10, PrivateStays
<1>12. KernelUses' = KernelUses /\ TableUses' = TableUses /\ SharedUses' = SharedUses
  BY <1>1 DEF KernelUses, TableUses, TablePlaces, SharedUses
<1>13. Uses' \subseteq Uses \cup {w}
  BY <1>7, <1>8, <1>11, <1>12, UsesWithin DEF Uses
<1>a. Sound(freeFrames, Uses)
  BY DEF FramesInv
<1>14. Sound(freeFrames', Uses')
  <2>1. freeFrames' = freeFrames \ {w[3]}
    BY <1>1, <1>6 DEF f
  <2> HIDE DEF w
  <2>3. Sound(freeFrames \ {w[3]}, Uses')
    BY <1>6, <1>13, <1>a, NewUse
  <2> QED BY <2>1, <2>3
<1>15. MappedAt(mapping, f) = {}
  <2>1. f \notin FramesOf(Uses)
    BY <1>6, <1>a DEF Sound
  <2> QED BY <1>6, <2>1, MappedIsUsed
<1>16. CreatedMapped'
  BY <1>1, <1>3, <1>4, <1>15, CreatedStayMapped
<1> QED BY <1>1, <1>14, <1>16 DEF FramesInv

LEMMA KernelAllocFrames ==
    ASSUME Typed, Typed', Shaped, Shaped', FramesInv, KernelAlloc
    PROVE  FramesInv'
<1>1. /\ kernelFrames' = kernelFrames \cup {SomeFrame} /\ freeFrames' = freeFrames \ {SomeFrame}
      /\ freeFrames # {} /\ UNCHANGED << tables, mapping, call, shmem >>
  BY DEF KernelAlloc, shmVars
<1> DEFINE f == SomeFrame
           w == << "kernel", f, f >>
<1>2. f \in freeFrames /\ f = w[3]
  BY <1>1, SomeFrameFree
<1> HIDE DEF f
<1>3. KernelUses' \subseteq KernelUses \cup {w}
  BY <1>1 DEF KernelUses, f
<1>4. /\ TableUses' = TableUses /\ SharedUses' = SharedUses /\ CreatingUses' = CreatingUses
      /\ HandUses' = HandUses /\ PrivateUses' = PrivateUses
  BY <1>1 DEF TableUses, TablePlaces, SharedUses, CreatingUses, Creating, HandUses, InHand,
              PrivateUses, PrivatePlaces, Shared, CreatedFrames
<1>5. Uses' \subseteq Uses \cup {w}
  BY <1>3, <1>4, UsesWithin DEF Uses
<1>6. Sound(freeFrames', Uses')
  <2>1. freeFrames' = freeFrames \ {w[3]}
    BY <1>1, <1>2 DEF f
  <2>2. Sound(freeFrames, Uses)
    BY DEF FramesInv
  <2> HIDE DEF w
  <2>3. Sound(freeFrames \ {w[3]}, Uses')
    BY <1>2, <1>5, <2>2, NewUse
  <2> QED BY <2>1, <2>3
<1> QED BY <1>1, <1>6 DEF FramesInv, CreatedMapped, Creating

LEMMA KernelFreeFrames ==
    ASSUME Typed, Typed', Shaped, Shaped', FramesInv, NEW f \in kernelFrames, KernelFree(f)
    PROVE  FramesInv'
<1>1. /\ kernelFrames' = kernelFrames \ {f} /\ freeFrames' = freeFrames \cup {f}
      /\ UNCHANGED << tables, mapping, call, shmem >>
  BY DEF KernelFree, shmVars
<1> DEFINE w == << "kernel", f, f >>
<1>2. w \in KernelUses /\ f = w[3]
  BY DEF KernelUses
<1>3. KernelUses' \subseteq KernelUses \ {w}
  BY <1>1 DEF KernelUses
<1>4. /\ TableUses' = TableUses /\ SharedUses' = SharedUses /\ CreatingUses' = CreatingUses
      /\ HandUses' = HandUses /\ PrivateUses' = PrivateUses
  BY <1>1 DEF TableUses, TablePlaces, SharedUses, CreatingUses, Creating, HandUses, InHand,
              PrivateUses, PrivatePlaces, Shared, CreatedFrames
<1>5. /\ w \notin TableUses /\ w \notin SharedUses /\ w \notin CreatingUses
      /\ w \notin HandUses /\ w \notin PrivateUses
  <2>1. w[1] = "kernel"
    OBVIOUS
  <2> HIDE DEF w
  <2> QED BY <2>1, TableRows, SharedRows, CreatingRows, HandRows, PrivateRows
<1>6. Uses' \subseteq Uses \ {w}
  <2> HIDE DEF w
  <2> QED BY <1>3, <1>4, <1>5, UsesWithin DEF Uses
<1>7. Sound(freeFrames', Uses')
  <2>1. freeFrames' = freeFrames \cup {w[3]}
    BY <1>1, <1>2
  <2>2. Sound(freeFrames, Uses) /\ w \in Uses
    BY <1>2 DEF FramesInv, Uses
  <2> HIDE DEF w
  <2>3. Sound(freeFrames \cup {w[3]}, Uses')
    BY <1>2, <1>6, <2>2, EndedUse
  <2> QED BY <2>1, <2>3
<1> QED BY <1>1, <1>7 DEF FramesInv, CreatedMapped, Creating

\* A page table that is missing gets a free frame.
LEMMA TableFrames ==
    ASSUME Typed, FramesInv, NEW t \in Caller, call[t] \in Calls, Table(t)
    PROVE  \E more :
               /\ Sound(freeFrames', Uses \cup more)
               /\ TableUses' \subseteq TableUses \cup more
               /\ \A w \in more : w[1] = "table"
               /\ tables' \in [Process -> [0 .. LastPage \div Span -> Frame \cup {NoThread}]]
<1> DEFINE p == call[t].proc
           i == At(t) \div Span
           Extends(more) ==
               /\ Sound(freeFrames', Uses \cup more)
               /\ TableUses' \subseteq TableUses \cup more
               /\ \A w \in more : w[1] = "table"
               /\ tables' \in [Process -> [0 .. LastPage \div Span -> Frame \cup {NoThread}]]
<1> SUFFICES \E more : Extends(more)
  BY Zenon
<1>a. Sound(freeFrames, Uses)
  BY DEF FramesInv
<1>b. tables \in [Process -> [0 .. LastPage \div Span -> Frame \cup {NoThread}]]
  BY DEF FramesInv
<1>1. CASE ~(NeedsTable(t) /\ freeFrames # {})
  <2>1. UNCHANGED << tables, freeFrames >>
    BY <1>1 DEF Table
  <2>2. TableUses' = TableUses
    BY <2>1 DEF TableUses, TablePlaces
  <2>3. Uses \cup {} = Uses
    OBVIOUS
  <2>4. Extends({})
    BY <1>a, <1>b, <2>1, <2>2, <2>3
  <2> HIDE DEF Extends
  <2> QED BY <2>4, Zenon
<1>2. CASE NeedsTable(t) /\ freeFrames # {}
  <2> DEFINE f == SomeFrame
             x == << p, i >>
             w == << "table", x, f >>
  <2>1. tables' = [tables EXCEPT ![p][i] = f] /\ freeFrames' = freeFrames \ {f}
    BY <1>2 DEF Table
  <2>2. f \in freeFrames /\ f \in Frame /\ f = w[3]
    BY <1>2, SomeFrameFree
  <2>3. p \in Process
    BY DEF Calls
  <2> HIDE DEF f, i, p
  <2>4. /\ tables' \in [Process -> [0 .. LastPage \div Span -> Frame \cup {NoThread}]]
        /\ \A q \in Process, k \in 0 .. LastPage \div Span :
              tables'[q][k] = IF q = p /\ k = i THEN f ELSE tables[q][k]
    <3> DEFINE K == 0 .. LastPage \div Span
               V == Frame \cup {NoThread}
    <3>1. tables \in [Process -> [K -> V]] /\ f \in V
      BY <1>b, <2>2
    <3> HIDE DEF K, V
    <3>2. tables' \in [Process -> [K -> V]]
      BY <2>1, <2>3, <3>1
    <3>3. \A q \in Process, k \in K :
              tables'[q][k] = IF q = p /\ k = i THEN f ELSE tables[q][k]
      BY <2>1, <2>3, <3>1
    <3> QED BY <3>2, <3>3 DEF K, V
  <2>5. TableUses' \subseteq TableUses \cup {w}
    <3>1. ASSUME NEW u \in TableUses' PROVE u \in TableUses \cup {w}
      <4>1. PICK y \in TablePlaces' : u = << "table", y, tables'[y[1]][y[2]] >>
        BY DEF TableUses
      <4>2. PICK q \in Process, k \in 0 .. LastPage \div Span : y = << q, k >>
        BY DEF TablePlaces
      <4>3. tables'[q][k] # NoThread
        BY <4>1, <4>2 DEF TablePlaces
      <4>4. CASE q = p /\ k = i
        BY <2>4, <4>1, <4>2, <4>4
      <4>5. CASE ~(q = p /\ k = i)
        <5>1. tables'[q][k] = tables[q][k]
          BY <2>4, <4>5
        <5>2. y \in TablePlaces
          BY <4>2, <4>3, <5>1 DEF TablePlaces
        <5> QED BY <4>1, <4>2, <5>1, <5>2 DEF TableUses
      <4> QED BY <4>4, <4>5
    <3> QED BY <3>1
  <2>6. w[1] = "table"
    OBVIOUS
  <2>7. freeFrames' = freeFrames \ {w[3]}
    BY <2>1, <2>2
  <2> HIDE DEF w
  <2>8. Sound(freeFrames \ {w[3]}, Uses \cup {w})
    BY <1>a, <2>2, NewUse
  <2>9. Sound(freeFrames', Uses \cup {w})
    BY <2>7, <2>8
  <2>10. Extends({w})
    BY <2>4, <2>5, <2>6, <2>9
  <2> HIDE DEF Extends
  <2> QED BY <2>10, Zenon
<1> QED BY <1>1, <1>2

LEMMA CannotMapFrames ==
    ASSUME Typed, Typed', Shaped, Shaped', FramesInv, NEW t \in Caller, CannotMap(t)
    PROVE  FramesInv'
<1>1. /\ call' = [call EXCEPT ![t].pc = "failed", ![t].frame = NoThread]
      /\ call[t].pc = "map" /\ shmem' = shmem /\ Table(t)
      /\ UNCHANGED << mapping, kernelFrames >>
  BY DEF CannotMap, shmVars
<1>2. call[t] \in Calls /\ call[t] # Idle
  BY <1>1, CallTyped
<1>3. /\ call'[t] = [call[t] EXCEPT !.pc = "failed", !.frame = NoThread]
      /\ \A u \in Caller : u # t => call'[u] = call[u]
  BY <1>1, <1>2 DEF Typed
<1>4. /\ call'[t].pages = call[t].pages /\ call'[t].proc = call[t].proc
      /\ call'[t].op = call[t].op /\ call'[t].frame = NoThread /\ call'[t].pc = "failed"
      /\ call'[t] # Idle
  BY <1>2, <1>3 DEF Calls, Idle
<1>5. (Creates(call'[t]) <=> Creates(call[t])) /\ ~Holds(call'[t])
  BY <1>2, <1>4 DEF Creates, Holds
<1>6. CreatingUses' \subseteq CreatingUses /\ HandUses' \subseteq HandUses
  BY <1>3, <1>4, <1>5, CallUses
<1>7. RegionsStay(shmem, shmem')
  BY <1>1, SameRegions
<1>8. Shared \subseteq Shared' /\ CreatedFrames \subseteq CreatedFrames'
  BY <1>3, <1>4, <1>5, <1>7, SharedStays, CreatedStays
<1>9. PrivateUses' \subseteq PrivateUses
  BY <1>1, <1>8, PrivateStays
<1>10. KernelUses' = KernelUses /\ SharedUses' = SharedUses
  BY <1>1 DEF KernelUses, SharedUses
<1>11. PICK more :
          /\ Sound(freeFrames', Uses \cup more)
          /\ TableUses' \subseteq TableUses \cup more
          /\ tables' \in [Process -> [0 .. LastPage \div Span -> Frame \cup {NoThread}]]
  BY <1>1, <1>2, TableFrames
<1>12. Uses' \subseteq Uses \cup more
  BY <1>6, <1>9, <1>10, <1>11, UsesWithin DEF Uses
<1>13. Sound(freeFrames', Uses')
  BY <1>11, <1>12, FewerUses
<1>14. CreatedMapped'
  BY <1>1, <1>3, <1>4, <1>5, CreatedStayMapped
<1> QED BY <1>1, <1>11, <1>13, <1>14 DEF FramesInv

LEMMA FinishFrames ==
    ASSUME Typed, Typed', Shaped, Shaped', FramesInv, NEW t \in Caller, Finish(t)
    PROVE  FramesInv'
<1>1. /\ call' = [call EXCEPT ![t] = Idle] /\ call[t].pc \in {"done", "failed"} /\ Created(t)
      /\ UNCHANGED << tables, mapping, freeFrames, kernelFrames >>
  BY DEF Finish, frameVars
<1>2. call'[t] = Idle /\ \A u \in Caller : u # t => call'[u] = call[u]
  BY <1>1 DEF Typed
<1>3. call[t] \in Calls /\ call[t] # Idle
  BY <1>1, CallTyped
<1>4. ~Creates(call'[t]) /\ ~Holds(call'[t])
  BY <1>2 DEF Creates, Holds
<1>5. CreatingUses' \subseteq CreatingUses /\ HandUses' \subseteq HandUses
  BY <1>2, <1>4, CallUses
<1>6. CreatedMapped'
  BY <1>1, <1>2, <1>4, CreatedStayMapped
<1>7. KernelUses' = KernelUses /\ TableUses' = TableUses
  BY <1>1 DEF KernelUses, TableUses, TablePlaces
<1>8. Sound(freeFrames, Uses)
  BY DEF FramesInv
<1>9. ASSUME NEW f \in CreatedFrames
      PROVE  f \in CreatedFrames' \/ (Creates(call[t]) /\ f = call[t].pages[1])
  <2>1. PICK u \in Creating : f = call[u].pages[1]
    BY DEF CreatedFrames
  <2>2. CASE u = t
    BY <2>1, <2>2, CreatingCalls
  <2>3. CASE u # t
    <3>1. u \in Creating' /\ call'[u] = call[u]
      BY <1>2, <2>3, CreatingCalls, CreatingCallsLater
    <3> QED BY <2>1, <3>1 DEF CreatedFrames
  <2> QED BY <2>2, <2>3
<1>10. CASE call[t].op = "create" /\ call[t].pc = "done"
  <2> DEFINE f == call[t].pages[1]
             r == [owner |-> call[t].proc, user |-> NoThread, pages |-> call[t].pages]
             n == Len(shmem) + 1
             u == << "creating", t, f >>
             w == << "shared", n, f >>
  <2>1. shmem' = Append(shmem, r)
    BY <1>1, <1>10 DEF Created
  <2>2. shmem \in Seq(SharedRegions)
    BY DEF Typed
  <2>3. r.pages = call[t].pages
    OBVIOUS
  <2>4. Creates(call[t])
    BY <1>3, <1>10 DEF Shaped, ShapedCall, Creates
  <2> HIDE DEF r
  <2>5. /\ DOMAIN shmem' = DOMAIN shmem \cup {n} /\ shmem'[n] = r
        /\ \A i \in DOMAIN shmem : i # n /\ shmem'[i] = shmem[i]
    BY <2>1, <2>2
  <2>6. RegionsStay(shmem, shmem')
    BY <2>5 DEF RegionsStay
  <2>7. Shared \subseteq Shared' /\ f \in Shared'
    <3>1. f = shmem'[n].pages[1] /\ n \in DOMAIN shmem'
      BY <2>3, <2>5
    <3> QED BY <2>6, <3>1, SharedStays, SharedFrames
  <2>8. PrivateUses' \subseteq PrivateUses
    BY <1>1, <1>9, <2>7, PrivateStays
  <2>9. SharedUses' \subseteq SharedUses \cup {w}
    <3>1. ASSUME NEW x \in SharedUses' PROVE x \in SharedUses \cup {w}
      <4>1. PICK i \in DOMAIN shmem' : x = << "shared", i, shmem'[i].pages[1] >>
        BY DEF SharedUses
      <4>2. CASE i = n
        BY <2>3, <2>5, <4>1, <4>2
      <4>3. CASE i # n
        BY <2>5, <4>1, <4>3 DEF SharedUses
      <4> QED BY <4>2, <4>3
    <3> QED BY <3>1
  <2>10. u \in CreatingUses /\ u[3] = w[3] /\ u[1] = "creating"
    BY <2>4, CreatingCalls DEF CreatingUses
  <2>11. u \notin CreatingUses'
    <3>1. ASSUME u \in CreatingUses' PROVE FALSE
      <4>1. PICK y \in Creating' : u = << "creating", y, call'[y].pages[1] >>
        BY <3>1 DEF CreatingUses
      <4>2. y = t
        BY <4>1
      <4> QED BY <1>4, <4>2, CreatingCallsLater
    <3> QED BY <3>1
  <2>12. /\ u \notin TableUses /\ u \notin SharedUses /\ u \notin KernelUses
         /\ u \notin HandUses /\ u \notin PrivateUses
    <3> HIDE DEF u
    <3> QED BY <2>10, TableRows, SharedRows, KernelRows, HandRows, PrivateRows
  <2> HIDE DEF u, w
  <2>13. Uses' \subseteq (Uses \ {u}) \cup {w}
    BY <1>5, <1>7, <2>8, <2>9, <2>11, <2>12, UsesWithin DEF Uses
  <2>14. u \in Uses
    BY <2>10 DEF Uses
  <2>15. Sound(freeFrames, Uses')
    BY <1>8, <2>10, <2>13, <2>14, MovedUse
  <2> QED BY <1>1, <1>6, <2>15 DEF FramesInv
<1>11. CASE ~(call[t].op = "create" /\ call[t].pc = "done")
  <2>1. shmem' = shmem
    BY <1>1, <1>11 DEF Created
  <2>2. Creates(call[t]) => MappedAt(mapping, call[t].pages[1]) = {}
    <3> SUFFICES ASSUME Creates(call[t]) PROVE MappedAt(mapping, call[t].pages[1]) = {}
      OBVIOUS
    <3>1. t \in Creating /\ call[t].pc # "done"
      BY <1>11, CreatingCalls DEF Creates
    <3> QED BY <3>1 DEF FramesInv, CreatedMapped
  <2>3. RegionsStay(shmem, shmem')
    BY <2>1, SameRegions
  <2>4. Shared \subseteq Shared'
    BY <2>3, SharedStays
  <2>5. PrivateUses' \subseteq PrivateUses
    BY <1>1, <1>9, <2>2, <2>4, PrivateStays
  <2>6. SharedUses' = SharedUses
    BY <2>1 DEF SharedUses
  <2>7. Uses' \subseteq Uses
    BY <1>5, <1>7, <2>5, <2>6, UsesWithin DEF Uses
  <2>8. Sound(freeFrames, Uses')
    BY <1>8, <2>7, FewerUses
  <2> QED BY <1>1, <1>6, <2>8 DEF FramesInv
<1> QED BY <1>10, <1>11

\* What is mapped: the frame in hand, the screen, or the page of a region.
LEMMA ToMapIs ==
    ASSUME Typed, Shaped, SpaceInv, NEW t \in Caller, call[t].pc = "map"
    PROVE  /\ call[t].op \in {"alloc", "fixed"} =>
                ToMap(t) = call[t].frame /\ t \in InHand /\ ToMap(t) \in Frame
           /\ call[t].op = "map" => ToMap(t) = Device
           /\ call[t].op = "create" => ToMap(t) = call[t].pages[1] /\ t \in Creating
           /\ call[t].op = "accept" =>
                /\ call[t].id \in DOMAIN shmem
                /\ ToMap(t) = shmem[call[t].id].pages[1]
           /\ ToMap(t) \in Frame \cup {Device}
<1>1. call[t] \in Calls /\ call[t] # Idle /\ ShapedCall(call[t], shmem)
  BY CallTyped DEF Shaped
<1>2. CASE call[t].op \in {"alloc", "fixed"}
  <2>1. ToMap(t) = call[t].frame
    BY <1>2 DEF ToMap, Allocating
  <2>2. call[t].frame # NoThread /\ call[t].frame \in Frame
    BY <1>1, <1>2 DEF ShapedCall, Calls
  <2> QED BY <1>1, <1>2, <2>1, <2>2 DEF InHand
<1>3. CASE call[t].op \notin {"alloc", "fixed"}
  <2>1. call[t].size = 1 /\ call[t].done < call[t].size /\ call[t].done \in Nat
    BY <1>1, <1>3 DEF ShapedCall, SpaceInv, Calls
  <2>2. call[t].done + 1 = 1
    BY <2>1
  <2>3. ToMap(t) = call[t].pages[1]
    BY <1>3, <2>2 DEF ToMap, Allocating
  <2>4. CASE call[t].op = "map"
    BY <1>1, <2>3, <2>4 DEF ShapedCall
  <2>5. CASE call[t].op = "create"
    <3>1. call[t].pages # << >> /\ call[t].pages[1] \in Frame
      BY <1>1, <2>5 DEF ShapedCall
    <3> QED BY <1>1, <2>3, <2>5, <3>1 DEF Creating
  <2>6. CASE call[t].op = "accept"
    <3>1. call[t].id \in DOMAIN shmem /\ call[t].pages = shmem[call[t].id].pages
      BY <1>1, <2>6 DEF ShapedCall
    <3>2. shmem[call[t].id].pages[1] \in Frame
      BY <3>1 DEF Shaped, OnePage
    <3> QED BY <2>3, <2>6, <3>1, <3>2
  <2> QED BY <1>1, <1>3, <2>4, <2>5, <2>6 DEF Calls
<1> QED BY <1>2, <1>3

LEMMA MapPageMaps ==
    ASSUME Typed, Shaped, SpaceInv, FramesInv, NEW t \in Caller, MapPage(t)
    PROVE  /\ mapping' \in [Process -> [Page -> Frame \cup {Device, NoThread}]]
           /\ \A x \in Process \X Page :
                 mapping'[x[1]][x[2]] =
                    IF x = << call[t].proc, At(t) >> THEN ToMap(t) ELSE mapping[x[1]][x[2]]
<1> DEFINE V == Frame \cup {Device, NoThread}
           p == call[t].proc
           g == ToMap(t)
           at == At(t)
<1>1. mapping' = [mapping EXCEPT ![p][at] = g] /\ call[t].pc = "map"
  BY DEF MapPage
<1>2. g \in V
  BY <1>1, ToMapIs
<1>3. p \in Process
  <2>1. call[t] \in Calls
    BY <1>1, CallTyped
  <2> QED BY <2>1 DEF Calls
<1>4. mapping \in [Process -> [Page -> V]]
  BY DEF FramesInv
<1> HIDE DEF V, p, g, at
<1>5. mapping' \in [Process -> [Page -> V]]
  BY <1>1, <1>2, <1>3, <1>4
<1>6. \A q \in Process, v \in Page :
          mapping'[q][v] = IF q = p /\ v = at THEN g ELSE mapping[q][v]
  BY <1>1, <1>3, <1>4
<1>7. ASSUME NEW x \in Process \X Page
      PROVE  mapping'[x[1]][x[2]] = IF x = << p, at >> THEN g ELSE mapping[x[1]][x[2]]
  <2>1. x[1] \in Process /\ x[2] \in Page /\ x = << x[1], x[2] >>
    OBVIOUS
  <2> QED BY <1>6, <2>1
<1> QED BY <1>5, <1>7 DEF V, p, g, at

LEMMA MapFrames ==
    ASSUME Typed, Typed', Shaped, Shaped', SpaceInv, FramesInv, NEW t \in Caller, MapPage(t)
    PROVE  FramesInv'
<1> DEFINE p == call[t].proc
           g == ToMap(t)
           here == << p, At(t) >>
<1>1. /\ call' = [call EXCEPT ![t] = [@ EXCEPT !.done = call[t].done + 1,
                                               !.frame = NoThread, !.pc = AfterPage(t)]]
      /\ call[t].pc = "map" /\ shmem' = shmem /\ Table(t) /\ kernelFrames' = kernelFrames
  BY DEF MapPage, shmVars
<1>2. call[t] \in Calls /\ call[t] # Idle
  BY <1>1, CallTyped
<1>3. /\ call'[t] = [call[t] EXCEPT !.done = call[t].done + 1,
                                    !.frame = NoThread, !.pc = AfterPage(t)]
      /\ \A u \in Caller : u # t => call'[u] = call[u]
  BY <1>1, <1>2 DEF Typed
<1>4. /\ call'[t].pages = call[t].pages /\ call'[t].proc = call[t].proc
      /\ call'[t].op = call[t].op /\ call'[t].frame = NoThread /\ call'[t].pc = AfterPage(t)
      /\ call'[t].pc # "idle" /\ call'[t] # Idle
  BY <1>2, <1>3 DEF Calls, Idle, AfterPage
<1>5. (Creates(call'[t]) <=> Creates(call[t])) /\ ~Holds(call'[t])
  BY <1>2, <1>4 DEF Creates, Holds
<1>6. CreatingUses' \subseteq CreatingUses /\ HandUses' \subseteq HandUses
  BY <1>3, <1>4, <1>5, CallUses
<1>7. RegionsStay(shmem, shmem')
  BY <1>1, SameRegions
<1>8. Shared \subseteq Shared' /\ CreatedFrames \subseteq CreatedFrames'
  BY <1>3, <1>4, <1>5, <1>7, SharedStays, CreatedStays
<1>9. KernelUses' = KernelUses /\ SharedUses' = SharedUses
  BY <1>1 DEF KernelUses, SharedUses
<1>10. PICK more :
          /\ Sound(freeFrames', Uses \cup more)
          /\ TableUses' \subseteq TableUses \cup more
          /\ \A w \in more : w[1] = "table"
          /\ tables' \in [Process -> [0 .. LastPage \div Span -> Frame \cup {NoThread}]]
  BY <1>1, <1>2, TableFrames
<1>11. /\ mapping' \in [Process -> [Page -> Frame \cup {Device, NoThread}]]
       /\ \A x \in Process \X Page :
             mapping'[x[1]][x[2]] = IF x = here THEN g ELSE mapping[x[1]][x[2]]
  BY MapPageMaps
<1>12. /\ call[t].op \in {"alloc", "fixed"} => g = call[t].frame /\ t \in InHand /\ g \in Frame
       /\ call[t].op = "map" => g = Device
       /\ call[t].op = "create" => g = call[t].pages[1] /\ t \in Creating
       /\ call[t].op = "accept" =>
             call[t].id \in DOMAIN shmem /\ g = shmem[call[t].id].pages[1]
  BY <1>1, ToMapIs
<1> HIDE DEF g, here
<1>13. ASSUME NEW w \in PrivateUses'
       PROVE  w \in PrivateUses \/ (/\ w = << "private", here, g >> /\ g \in Frame
                                    /\ g \notin Shared' \cup CreatedFrames')
  <2>1. PICK x \in PrivatePlaces' : w = << "private", x, mapping'[x[1]][x[2]] >>
    BY DEF PrivateUses
  <2>2. /\ x \in Process \X Page /\ mapping'[x[1]][x[2]] \in Frame
        /\ mapping'[x[1]][x[2]] \notin Shared' \cup CreatedFrames'
    BY <2>1 DEF PrivatePlaces
  <2>3. CASE x = here
    BY <1>11, <2>1, <2>2, <2>3
  <2>4. CASE x # here
    <3>1. mapping'[x[1]][x[2]] = mapping[x[1]][x[2]]
      BY <1>11, <2>2, <2>4
    <3>2. x \in PrivatePlaces
      BY <1>8, <2>2, <3>1 DEF PrivatePlaces
    <3> QED BY <2>1, <3>1, <3>2 DEF PrivateUses
  <2> QED BY <2>3, <2>4
<1>14. Sound(freeFrames', Uses')
  <2>1. CASE call[t].op \in {"alloc", "fixed"}
    <3> DEFINE w == << "private", here, g >>
               u == << "hand", t, g >>
    <3>1. u \in HandUses /\ u[3] = g /\ u[1] = "hand"
      BY <1>12, <2>1 DEF HandUses
    <3>2. u \notin HandUses'
      <4>1. ASSUME u \in HandUses' PROVE FALSE
        <5>1. PICK y \in InHand' : u = << "hand", y, call'[y].frame >>
          BY <4>1 DEF HandUses
        <5>2. y = t
          BY <5>1
        <5> QED BY <1>5, <5>2, CreatingCallsLater
      <4> QED BY <4>1
    <3>3. w[3] = g
      OBVIOUS
    <3>4. PrivateUses' \subseteq PrivateUses \cup {w}
      BY <1>13
    <3> HIDE DEF u, w
    <3>5. /\ u \notin TableUses /\ u \notin SharedUses /\ u \notin KernelUses
          /\ u \notin CreatingUses /\ u \notin PrivateUses /\ u \notin more
      BY <1>10, <3>1, TableRows, SharedRows, KernelRows, CreatingRows, PrivateRows
    <3>6. Uses' \subseteq ((Uses \cup more) \ {u}) \cup {w}
      BY <1>6, <1>9, <1>10, <3>2, <3>4, <3>5, UsesWithin DEF Uses
    <3>7. u \in Uses \cup more
      BY <3>1 DEF Uses
    <3> QED BY <1>10, <3>1, <3>3, <3>6, <3>7, MovedUse
  <2>2. CASE call[t].op \notin {"alloc", "fixed"}
    <3>1. g \in Shared \cup CreatedFrames \/ g = Device
      <4>1. CASE call[t].op = "create"
        BY <1>12, <4>1 DEF CreatedFrames
      <4>2. CASE call[t].op = "accept"
        BY <1>12, <4>2, SharedFrames
      <4> QED BY <1>2, <1>12, <2>2, <4>1, <4>2 DEF Calls
    <3>2. PrivateUses' \subseteq PrivateUses
      BY <1>8, <1>13, <3>1, FrameValues
    <3>3. Uses' \subseteq Uses \cup more
      BY <1>6, <1>9, <1>10, <3>2, UsesWithin DEF Uses
    <3> QED BY <1>10, <3>3, FewerUses
  <2> QED BY <2>1, <2>2
<1>15. Sound(freeFrames, Uses)
  BY DEF FramesInv
<1>16. ASSUME NEW u \in Creating, u # t PROVE g # call[u].pages[1]
  <2> DEFINE f == call[u].pages[1]
             w == << "creating", u, f >>
  <2>1. w \in Uses /\ w[3] = f /\ w[1] = "creating" /\ w[2] = u
    BY DEF CreatingUses, Uses
  <2>2. f \in Frame
    BY CreatingCalls DEF Shaped, ShapedCall, Creating
  <2> HIDE DEF f, w
  <2>3. CASE call[t].op \in {"alloc", "fixed"}
    <3>1. << "hand", t, g >> \in Uses
      BY <1>12, <2>3 DEF HandUses, Uses
    <3>2. << "hand", t, g >> # w /\ << "hand", t, g >>[3] = g
      BY <2>1
    <3> QED BY <1>15, <2>1, <3>1, <3>2 DEF Sound, f
  <2>4. CASE call[t].op = "map"
    BY <1>12, <2>2, <2>4, FrameValues DEF f
  <2>5. CASE call[t].op = "create"
    <3>1. << "creating", t, g >> \in Uses
      BY <1>12, <2>5 DEF CreatingUses, Uses
    <3>2. << "creating", t, g >> # w /\ << "creating", t, g >>[3] = g
      BY <1>16, <2>1
    <3> QED BY <1>15, <2>1, <3>1, <3>2 DEF Sound, f
  <2>6. CASE call[t].op = "accept"
    <3> DEFINE i == call[t].id
    <3>1. << "shared", i, g >> \in Uses
      BY <1>12, <2>6 DEF SharedUses, Uses
    <3>2. << "shared", i, g >> # w /\ << "shared", i, g >>[3] = g
      BY <2>1
    <3> QED BY <1>15, <2>1, <3>1, <3>2 DEF Sound, f
  <2> QED BY <1>2, <2>3, <2>4, <2>5, <2>6 DEF Calls
<1>17. ASSUME NEW u \in Creating'
       PROVE  LET at == MappedAt(mapping', call'[u].pages[1])
              IN  /\ call'[u].pc # "done" => at = {}
                  /\ AtMostOne(at) /\ \A x \in at : x[1] = call'[u].proc
  <2> DEFINE f == call[u].pages[1]
  <2>1. u \in Creating /\ u \in Caller /\ call'[u].pages = call[u].pages
        /\ call'[u].proc = call[u].proc
    BY <1>3, <1>4, <1>5, CreatingCalls, CreatingCallsLater
  <2>2. /\ call[u].pc # "done" => MappedAt(mapping, f) = {}
        /\ AtMostOne(MappedAt(mapping, f))
        /\ \A x \in MappedAt(mapping, f) : x[1] = call[u].proc
    BY <2>1 DEF FramesInv, CreatedMapped
  <2> HIDE DEF f
  <2>3. CASE u = t
    <3>1. MappedAt(mapping, f) = {}
      BY <1>1, <2>2, <2>3
    <3>2. MappedAt(mapping', f) \subseteq {here}
      BY <1>11, <3>1 DEF MappedAt
    <3>3. call'[t].pc = "done"
      <4>1. call[t].op = "create"
        BY <2>1, <2>3 DEF Creating
      <4>2. call[t].size = 1 /\ call[t].done < call[t].size /\ call[t].done \in Nat
        BY <1>1, <1>2, <4>1 DEF Shaped, ShapedCall, SpaceInv, Calls
      <4> QED BY <1>4, <4>2 DEF AfterPage
    <3>4. here[1] = call[u].proc
      BY <2>3 DEF here
    <3> QED BY <2>1, <2>3, <3>2, <3>3, <3>4 DEF AtMostOne, f
  <2>4. CASE u # t
    <3>1. g # f
      BY <1>16, <2>1, <2>4 DEF f
    <3>2. MappedAt(mapping', f) \subseteq MappedAt(mapping, f)
      BY <1>11, <3>1 DEF MappedAt
    <3>3. call'[u] = call[u]
      BY <1>3, <2>1, <2>4
    <3> QED BY <2>1, <2>2, <3>2, <3>3 DEF AtMostOne, f
  <2> QED BY <2>3, <2>4
<1>18. CreatedMapped'
  BY <1>17 DEF CreatedMapped, AtMostOne, MappedAt
<1> QED BY <1>10, <1>11, <1>14, <1>18 DEF FramesInv

LEMMA InitFrames == Init => FramesInv
<1> SUFFICES ASSUME Init PROVE FramesInv
  OBVIOUS
<1>1. /\ tables \in [Process -> [0 .. LastPage \div Span -> Frame \cup {NoThread}]]
      /\ \A p \in Process, i \in 0 .. LastPage \div Span : tables[p][i] = NoThread
  <2> DEFINE K == 0 .. LastPage \div Span
  <2>1. tables = [p \in Process |-> [i \in K |-> NoThread]]
    BY DEF Init
  <2> HIDE DEF K
  <2>2. /\ tables \in [Process -> [K -> Frame \cup {NoThread}]]
        /\ \A p \in Process, i \in K : tables[p][i] = NoThread
    BY <2>1
  <2> QED BY <2>2 DEF K
<1>2. /\ mapping \in [Process -> [Page -> Frame \cup {Device, NoThread}]]
      /\ \A p \in Process, v \in Page : mapping[p][v] = NoThread
  BY DEF Init
<1>3. /\ TablePlaces = {} /\ PrivatePlaces = {}
  BY <1>1, <1>2, FrameValues DEF TablePlaces, PrivatePlaces
<1>4. Creating = {} /\ InHand = {}
  BY DEF Init, Creating, InHand
<1>5. /\ KernelUses = {} /\ SharedUses = {} /\ CreatingUses = {}
      /\ TableUses = {} /\ HandUses = {} /\ PrivateUses = {}
  <2>1. kernelFrames = {} /\ DOMAIN shmem = {}
    BY DEF Init
  <2> QED BY <1>3, <1>4, <2>1 DEF KernelUses, SharedUses, CreatingUses, TableUses, HandUses, PrivateUses
<1>6. FramesOf(Uses) = {} /\ Uses = {}
  BY <1>5 DEF FramesOf, Uses
<1>7. IsFiniteSet(freeFrames)
  <2>1. PICK n \in MemorySizes : freeFrames = 1 .. n
    BY DEF Init
  <2>2. 1 \in Int /\ n \in Int
    BY MemoryAssumption
  <2> QED BY <2>1, <2>2, FS_Interval
<1>8. Sound(freeFrames, Uses)
  BY <1>6, <1>7 DEF Sound
<1> QED BY <1>1, <1>2, <1>4, <1>8 DEF FramesInv, CreatedMapped

LEMMA StepFrames ==
    Typed /\ Typed' /\ Shaped /\ Shaped' /\ SpaceInv /\ FramesInv /\ [Next]_vars => FramesInv'
<1> SUFFICES ASSUME Typed, Typed', Shaped, Shaped', SpaceInv, FramesInv, [Next]_vars
             PROVE  FramesInv'
  OBVIOUS
<1>1. CASE UNCHANGED << tables, mapping, freeFrames, kernelFrames, shmem, call >>
  <2>1. KernelUses' = KernelUses /\ SharedUses' = SharedUses /\ TableUses' = TableUses
    BY <1>1 DEF KernelUses, SharedUses, TableUses, TablePlaces
  <2>2. CreatingUses' = CreatingUses /\ HandUses' = HandUses /\ PrivateUses' = PrivateUses
    BY <1>1 DEF CreatingUses, Creating, HandUses, InHand, PrivateUses, PrivatePlaces,
                Shared, CreatedFrames
  <2>3. Uses' = Uses
    BY <2>1, <2>2 DEF Uses
  <2>4. CreatedMapped'
    BY <1>1 DEF FramesInv, CreatedMapped, Creating
  <2> QED BY <1>1, <2>3, <2>4 DEF FramesInv
<1>2. ASSUME NEW t \in Caller, NEW c \in FirstCalls, Begin(t, c)
      PROVE  FramesInv'
  <2>1. /\ call' = [call EXCEPT ![t] = c] /\ call[t] = Idle
        /\ UNCHANGED << tables, mapping, freeFrames, kernelFrames, shmem >>
    BY <1>2 DEF Begin, shmVars, frameVars
  <2>2. call'[t] = c /\ \A u \in Caller : u # t => call'[u] = call[u]
    BY <2>1 DEF Typed
  <2>3. ~Creates(c) /\ ~Holds(c) /\ ~Creates(call[t])
    BY <2>1 DEF FirstCalls, Creates, Holds
  <2> QED BY <2>1, <2>2, <2>3, SameRegions, QuietFrames
<1>a. ASSUME NEW t \in Caller, call[t].pc \notin {"idle", "done"},
             call'[t] \in Calls, call'[t].op = call[t].op, call'[t].pages = call[t].pages,
             call'[t].proc = call[t].proc, call'[t].frame = call[t].frame,
             \A u \in Caller : u # t => call'[u] = call[u],
             UNCHANGED << tables, mapping, freeFrames, kernelFrames, shmem >>
      PROVE  FramesInv'
  <2>1. call[t] # Idle /\ call'[t] # Idle
    BY <1>a, CallTyped DEF Calls, Idle, Places
  <2>2. (Creates(call'[t]) <=> Creates(call[t])) /\ (Holds(call'[t]) <=> Holds(call[t]))
    BY <1>a, <2>1 DEF Creates, Holds
  <2> QED BY <1>a, <2>2, SameRegions, QuietFrames
<1>b. ASSUME NEW t \in Caller, call[t].pc \notin {"idle", "done"}, NEW x \in Places, Goto(t, x),
             UNCHANGED << tables, mapping, freeFrames, kernelFrames, shmem >>
      PROVE  FramesInv'
  <2>1. call[t] \in Calls
    BY <1>b, CallTyped
  <2>2. /\ call'[t] = [call[t] EXCEPT !.pc = x]
        /\ \A u \in Caller : u # t => call'[u] = call[u]
    BY <1>b, GotoTyped
  <2>3. /\ call'[t] \in Calls /\ call'[t].op = call[t].op /\ call'[t].pages = call[t].pages
        /\ call'[t].proc = call[t].proc /\ call'[t].frame = call[t].frame
    BY <2>1, <2>2 DEF Calls
  <2> QED BY <1>a, <1>b, <2>2, <2>3
<1>3. ASSUME NEW t \in Caller, NEW b \in Nat, NEW list \in Seq(Regions), Taken(t, b, list)
      PROVE  FramesInv'
  <2>1. /\ call[t].pc = "region" /\ Located(t, b)
        /\ UNCHANGED << tables, mapping, freeFrames, kernelFrames, shmem >>
    BY <1>3 DEF Taken, Lock, shmVars, frameVars
  <2>2. /\ call'[t] = [call[t] EXCEPT !.pc = IF Allocating(t) THEN "page" ELSE "map", !.base = b]
        /\ \A u \in Caller : u # t => call'[u] = call[u]
    BY <2>1, LocatedTyped
  <2>3. call[t] \in Calls
    BY <2>1, CallTyped
  <2>4. /\ call'[t] \in Calls /\ call'[t].op = call[t].op /\ call'[t].pages = call[t].pages
        /\ call'[t].proc = call[t].proc /\ call'[t].frame = call[t].frame
    BY <2>2, <2>3 DEF Calls, Places
  <2> QED BY <1>a, <2>1, <2>2, <2>4
<1>4. ASSUME NEW t \in Caller, NoRegion(t) PROVE FramesInv'
  BY <1>b, <1>4 DEF NoRegion, Lock, shmVars, frameVars, Places
<1>5. ASSUME NEW t \in Caller, Fault(t) PROVE FramesInv'
  BY <1>1, <1>5 DEF Fault, shmVars, frameVars
<1>6. ASSUME NEW t \in Caller, NoPage(t) PROVE FramesInv'
  BY <1>b, <1>6 DEF NoPage, shmVars, frameVars, Places
<1>7. ASSUME NEW t \in Caller, Create(t) PROVE FramesInv'
  BY <1>b, <1>7 DEF Create, LockShmem, frameVars, Places
<1>8. ASSUME NEW t \in Caller, CreatePage(t) PROVE FramesInv'
  <2>1. CASE freeFrames = {}
    BY <1>b, <1>8, <2>1 DEF CreatePage, shmVars, Places
  <2>2. CASE freeFrames # {}
    BY <1>8, <2>2, CreatePageFrames
  <2> QED BY <2>1, <2>2
<1>9. ASSUME NEW t \in Caller, Accept(t) PROVE FramesInv'
  <2> DEFINE i == call[t].id
  <2>1. /\ call[t].pc = "shm" /\ call[t].op = "accept"
        /\ i \in DOMAIN shmem /\ shmem[i].user = NoThread
        /\ shmem' = [shmem EXCEPT ![i].user = call[t].proc]
        /\ call' = [call EXCEPT ![t].pc = "region", ![t].pages = shmem[i].pages]
        /\ UNCHANGED << tables, mapping, freeFrames, kernelFrames >>
    BY <1>9 DEF Accept, LockShmem, CanAccept, frameVars
  <2>2. call[t] \in Calls
    BY <2>1, CallTyped
  <2>3. /\ call'[t] = [call[t] EXCEPT !.pc = "region", !.pages = shmem[i].pages]
        /\ \A u \in Caller : u # t => call'[u] = call[u]
    BY <2>1, <2>2 DEF Typed
  <2> HIDE DEF i
  <2>4. call'[t].op = "accept" /\ call'[t].frame = call[t].frame /\ call'[t] # Idle
    <3>1. call'[t].op = call[t].op /\ call'[t].frame = call[t].frame /\ call'[t].pc = "region"
      BY <2>2, <2>3 DEF Calls
    <3>2. call'[t] # Idle
      BY <3>1 DEF Idle
    <3> QED BY <2>1, <3>1, <3>2
  <2>5. ~Creates(call[t]) /\ ~Creates(call'[t]) /\ (Holds(call'[t]) => Holds(call[t]))
    <3>1. call[t] # Idle
      BY <2>1 DEF Idle
    <3> QED BY <2>1, <2>4, <3>1 DEF Creates, Holds
  <2>6. DOMAIN shmem' = DOMAIN shmem /\ RegionsStay(shmem, shmem')
    <3>1. \A j \in DOMAIN shmem : shmem[j] \in SharedRegions
      BY DEF Typed
    <3>2. shmem'[i] = [shmem[i] EXCEPT !.user = call[t].proc]
      BY <2>1
    <3>3. shmem'[i].pages = shmem[i].pages /\ shmem'[i].owner = shmem[i].owner
      BY <2>1, <3>1, <3>2 DEF SharedRegions
    <3> QED BY <2>1, <3>3 DEF RegionsStay
  <2> QED BY <2>1, <2>3, <2>4, <2>5, <2>6, QuietFrames
<1>10. ASSUME NEW t \in Caller, NoShmem(t) PROVE FramesInv'
  BY <1>b, <1>10 DEF NoShmem, LockShmem, frameVars, Places
<1>11. CASE UNCHANGED vars
  BY <1>1, <1>11 DEF vars, shmVars, frameVars
<1> QED
  <2>1. ASSUME NEW t \in Caller, TakeAnywhere(t) PROVE FramesInv'
    BY <1>3, <2>1, TakenAnywhere
  <2>2. ASSUME NEW t \in Caller, TakeFixed(t) PROVE FramesInv'
    BY <1>3, <2>2, TakenFixed
  <2>3. CASE KernelAlloc
    BY <2>3, KernelAllocFrames
  <2>4. ASSUME NEW f \in kernelFrames, KernelFree(f) PROVE FramesInv'
    BY <2>4, KernelFreeFrames
  <2>5. ASSUME NEW t \in Caller, AllocPage(t) PROVE FramesInv'
    BY <2>5, AllocFrames
  <2>6. ASSUME NEW t \in Caller, MapPage(t) PROVE FramesInv'
    BY <2>6, MapFrames
  <2>7. ASSUME NEW t \in Caller, CannotMap(t) PROVE FramesInv'
    BY <2>7, CannotMapFrames
  <2>8. ASSUME NEW t \in Caller, Finish(t) PROVE FramesInv'
    BY <2>8, FinishFrames
  <2> QED BY <1>2, <1>4, <1>5, <1>6, <1>7, <1>8, <1>9, <1>10, <1>11,
             <2>1, <2>2, <2>3, <2>4, <2>5, <2>6, <2>7, <2>8, Steps

-----------------------------------------------------------------------------
(* A region is mapped by two. *)

LEMMA InitTwo == Init => TwoInv
<1> SUFFICES ASSUME Init PROVE TwoInv
  OBVIOUS
<1>1. DOMAIN shmem = {}
  BY DEF Init
<1> QED BY <1>1 DEF TwoInv

LEMMA TwoLater ==
    ASSUME \A i \in DOMAIN shmem' :
              LET at == MappedAt(mapping', shmem'[i].pages[1])
              IN  /\ RegionMapped(shmem'[i], at)
                  /\ \A u \in Caller : Accepts(call'[u], i) => AtMostOne(at),
           \A u, w \in Caller, i \in DOMAIN shmem' :
              Accepts(call'[u], i) /\ Accepts(call'[w], i) => u = w
    PROVE  TwoInv'
BY DEF TwoInv, MappedAt, RegionMapped, AtMostOne, AtMostTwo, Accepts

\* Of a step that neither maps a page nor changes a region, and in which nobody
\* accepts one.
LEMMA QuietTwo ==
    ASSUME TwoInv, mapping' = mapping, shmem' = shmem,
           NEW t \in Caller, \A u \in Caller : u # t => call'[u] = call[u],
           \A i \in DOMAIN shmem : Accepts(call'[t], i) => Accepts(call[t], i)
    PROVE  TwoInv'
<1>1. \A u \in Caller, i \in DOMAIN shmem : Accepts(call'[u], i) => Accepts(call[u], i)
  OBVIOUS
<1>2. ASSUME NEW i \in DOMAIN shmem
      PROVE  LET at == MappedAt(mapping, shmem[i].pages[1])
             IN  /\ RegionMapped(shmem[i], at)
                 /\ \A u \in Caller : Accepts(call'[u], i) => AtMostOne(at)
  BY <1>1 DEF TwoInv
<1>3. ASSUME NEW u \in Caller, NEW w \in Caller, NEW i \in DOMAIN shmem,
             Accepts(call'[u], i), Accepts(call'[w], i)
      PROVE  u = w
  BY <1>1, <1>3 DEF TwoInv
<1> QED BY <1>2, <1>3, TwoLater

LEMMA AcceptTwo ==
    ASSUME Typed, Shaped, TwoInv, NEW t \in Caller, Accept(t)
    PROVE  TwoInv'
<1> DEFINE i == call[t].id
<1>1. /\ call[t].pc = "shm" /\ call[t].op = "accept"
      /\ i \in DOMAIN shmem /\ shmem[i].user = NoThread
      /\ shmem' = [shmem EXCEPT ![i].user = call[t].proc]
      /\ call' = [call EXCEPT ![t].pc = "region", ![t].pages = shmem[i].pages]
      /\ mapping' = mapping
  BY DEF Accept, LockShmem, CanAccept, frameVars
<1>2. call[t] \in Calls
  BY <1>1, CallTyped
<1>3. /\ call'[t] = [call[t] EXCEPT !.pc = "region", !.pages = shmem[i].pages]
      /\ \A u \in Caller : u # t => call'[u] = call[u]
  BY <1>1, <1>2 DEF Typed
<1> HIDE DEF i
<1>4. call'[t].id = call[t].id
  BY <1>2, <1>3 DEF Calls
<1>5. call[t].proc \in Process /\ call[t].proc # NoThread
  BY <1>2, MemoryAssumption DEF Calls
<1>6. /\ DOMAIN shmem' = DOMAIN shmem
      /\ \A j \in DOMAIN shmem : j # i => shmem'[j] = shmem[j]
      /\ shmem'[i].pages = shmem[i].pages /\ shmem'[i].owner = shmem[i].owner
      /\ shmem'[i].user = call[t].proc
  <2>1. \A j \in DOMAIN shmem : shmem[j] \in SharedRegions
    BY DEF Typed
  <2>2. shmem'[i] = [shmem[i] EXCEPT !.user = call[t].proc]
    BY <1>1
  <2>3. /\ shmem'[i].pages = shmem[i].pages /\ shmem'[i].owner = shmem[i].owner
        /\ shmem'[i].user = call[t].proc
    BY <1>1, <2>1, <2>2 DEF SharedRegions
  <2> QED BY <1>1, <2>3
<1>7. \A u \in Caller, j \in DOMAIN shmem : Accepts(call'[u], j) => Accepts(call[u], j) \/ (u = t /\ j = i)
  BY <1>3, <1>4 DEF Accepts, i
<1>8. \A u \in Caller : ~Accepts(call[u], i)
  <2>1. ASSUME NEW u \in Caller, Accepts(call[u], i) PROVE FALSE
    <3>1. call[u] \in Calls /\ ShapedCall(call[u], shmem)
      BY <2>1 DEF Accepts, Typed, Shaped
    <3>2. call[u].proc = shmem[i].user
      BY <2>1, <3>1 DEF Accepts, ShapedCall
    <3>3. call[u].proc # NoThread
      BY <3>1, MemoryAssumption DEF Calls
    <3> QED BY <1>1, <3>2, <3>3
  <2> QED BY <2>1
<1>9. ASSUME NEW j \in DOMAIN shmem'
      PROVE  LET at == MappedAt(mapping', shmem'[j].pages[1])
             IN  /\ RegionMapped(shmem'[j], at)
                 /\ \A u \in Caller : Accepts(call'[u], j) => AtMostOne(at)
  <2> DEFINE at == MappedAt(mapping, shmem[j].pages[1])
  <2>1. /\ RegionMapped(shmem[j], at)
        /\ \A u \in Caller : Accepts(call[u], j) => AtMostOne(at)
    BY <1>6 DEF TwoInv
  <2>2. at = MappedAt(mapping', shmem'[j].pages[1])
    BY <1>1, <1>6
  <2> HIDE DEF at
  <2>3. CASE j = i
    <3>1. AtMostOne(at) /\ \A x \in at : x[1] \in {shmem[i].owner, shmem[i].user}
      BY <1>1, <2>1, <2>3 DEF RegionMapped
    <3>2. \A x \in at : x[1] = shmem[i].owner
      <4>1. at \subseteq Process \X Page
        BY DEF at, MappedAt
      <4>2. \A x \in at : x[1] # NoThread
        BY <4>1, MemoryAssumption
      <4> QED BY <1>1, <3>1, <4>2
    <3>3. RegionMapped(shmem'[i], at)
      BY <1>6, <3>1, <3>2 DEF RegionMapped, AtMostOne, AtMostTwo
    <3> QED BY <2>2, <2>3, <3>1, <3>3
  <2>4. CASE j # i
    <3>1. shmem'[j] = shmem[j]
      BY <1>6, <2>4
    <3> QED BY <1>6, <1>7, <2>1, <2>2, <2>4, <3>1
  <2> QED BY <2>3, <2>4
<1>10. ASSUME NEW u \in Caller, NEW w \in Caller, NEW j \in DOMAIN shmem',
              Accepts(call'[u], j), Accepts(call'[w], j)
       PROVE  u = w
  BY <1>6, <1>7, <1>8, <1>10 DEF TwoInv
<1> QED BY <1>9, <1>10, TwoLater

LEMMA CreatedTwo ==
    ASSUME Typed, Shaped, FramesInv, TwoInv, NEW t \in Caller, Finish(t)
    PROVE  TwoInv'
<1>1. /\ call' = [call EXCEPT ![t] = Idle] /\ call[t].pc \in {"done", "failed"} /\ Created(t)
      /\ mapping' = mapping
  BY DEF Finish, frameVars
<1>2. call'[t] = Idle /\ \A u \in Caller : u # t => call'[u] = call[u]
  BY <1>1 DEF Typed
<1>3. call[t] \in Calls /\ call[t] # Idle
  BY <1>1, CallTyped
<1>4. \A u \in Caller : \A i : Accepts(call'[u], i) => Accepts(call[u], i)
  BY <1>2 DEF Accepts
<1>5. CASE call[t].op = "create" /\ call[t].pc = "done"
  <2> DEFINE f == call[t].pages[1]
             r == [owner |-> call[t].proc, user |-> NoThread, pages |-> call[t].pages]
             n == Len(shmem) + 1
  <2>1. shmem' = Append(shmem, r) /\ shmem \in Seq(SharedRegions)
    BY <1>1, <1>5 DEF Created, Typed
  <2>2. r.pages = call[t].pages /\ r.owner = call[t].proc /\ r.user = NoThread
    OBVIOUS
  <2>3. t \in Creating
    BY <1>3, <1>5 DEF Shaped, ShapedCall, Creating
  <2> HIDE DEF r
  <2>4. /\ DOMAIN shmem' = DOMAIN shmem \cup {n} /\ shmem'[n] = r
        /\ \A i \in DOMAIN shmem : i # n /\ shmem'[i] = shmem[i]
    BY <2>1
  <2>5. n \notin DOMAIN shmem
    BY <2>4
  <2>6. \A u \in Caller : ~Accepts(call[u], n)
    <3>1. ASSUME NEW u \in Caller, Accepts(call[u], n) PROVE FALSE
      <4>1. ShapedCall(call[u], shmem)
        BY <3>1 DEF Accepts, Shaped
      <4>2. n \in DOMAIN shmem
        BY <3>1, <4>1 DEF Accepts, ShapedCall
      <4> QED BY <2>5, <4>2
    <3> QED BY <3>1
  <2> HIDE DEF n, f
  <2>7. ASSUME NEW i \in DOMAIN shmem'
        PROVE  LET at == MappedAt(mapping', shmem'[i].pages[1])
               IN  /\ RegionMapped(shmem'[i], at)
                   /\ \A u \in Caller : Accepts(call'[u], i) => AtMostOne(at)
    <3>1. CASE i = n
      <4> DEFINE at == MappedAt(mapping', shmem'[n].pages[1])
      <4>1. at = MappedAt(mapping, f)
        BY <1>1, <2>2, <2>4 DEF f
      <4>2. AtMostOne(MappedAt(mapping, f)) /\ \A x \in MappedAt(mapping, f) : x[1] = call[t].proc
        BY <2>3 DEF FramesInv, CreatedMapped, f
      <4> HIDE DEF at
      <4>3. RegionMapped(r, at) /\ AtMostOne(at)
        BY <2>2, <4>1, <4>2 DEF RegionMapped, AtMostOne, AtMostTwo
      <4>4. RegionMapped(shmem'[n], at)
        BY <2>4, <4>3
      <4> QED BY <3>1, <4>3, <4>4 DEF at
    <3>2. CASE i # n
      <4>1. i \in DOMAIN shmem /\ shmem'[i] = shmem[i]
        BY <2>4, <3>2
      <4> QED BY <1>1, <1>4, <4>1 DEF TwoInv
    <3> QED BY <3>1, <3>2
  <2>8. ASSUME NEW u \in Caller, NEW w \in Caller, NEW i \in DOMAIN shmem',
               Accepts(call'[u], i), Accepts(call'[w], i)
        PROVE  u = w
    <3>1. i # n
      BY <1>4, <2>6, <2>8
    <3> QED BY <1>4, <2>4, <2>8, <3>1 DEF TwoInv
  <2> QED BY <2>7, <2>8, TwoLater
<1>6. CASE ~(call[t].op = "create" /\ call[t].pc = "done")
  <2>1. shmem' = shmem
    BY <1>1, <1>6 DEF Created
  <2> QED BY <1>1, <1>2, <1>4, <2>1, QuietTwo
<1> QED BY <1>5, <1>6

LEMMA MapTwo ==
    ASSUME Typed, Shaped, SpaceInv, FramesInv, TwoInv, NEW t \in Caller, MapPage(t)
    PROVE  TwoInv'
<1> DEFINE p == call[t].proc
           g == ToMap(t)
           here == << p, At(t) >>
<1>1. /\ call' = [call EXCEPT ![t] = [@ EXCEPT !.done = call[t].done + 1,
                                               !.frame = NoThread, !.pc = AfterPage(t)]]
      /\ call[t].pc = "map" /\ shmem' = shmem
  BY DEF MapPage, shmVars
<1>2. call[t] \in Calls /\ call[t] # Idle /\ ShapedCall(call[t], shmem)
  BY <1>1, CallTyped DEF Shaped
<1>3. /\ call'[t] = [call[t] EXCEPT !.done = call[t].done + 1,
                                    !.frame = NoThread, !.pc = AfterPage(t)]
      /\ \A u \in Caller : u # t => call'[u] = call[u]
  BY <1>1, <1>2 DEF Typed
<1>4. /\ call'[t].op = call[t].op /\ call'[t].pc = AfterPage(t)
  BY <1>2, <1>3 DEF Calls
<1>5. \A i : ~Accepts(call'[t], i)
  <2>1. CASE call[t].op = "accept"
    <3>1. call[t].size = 1 /\ call[t].done < call[t].size /\ call[t].done \in Nat
      BY <1>1, <1>2, <2>1 DEF ShapedCall, SpaceInv, Calls
    <3>2. call'[t].pc = "done"
      BY <1>4, <3>1 DEF AfterPage
    <3> QED BY <3>2 DEF Accepts
  <2>2. CASE call[t].op # "accept"
    BY <1>4, <2>2 DEF Accepts
  <2> QED BY <2>1, <2>2
<1>6. \A u \in Caller : \A i : Accepts(call'[u], i) => u # t /\ Accepts(call[u], i)
  BY <1>3, <1>5
<1>7. \A x \in Process \X Page :
          mapping'[x[1]][x[2]] = IF x = here THEN g ELSE mapping[x[1]][x[2]]
  BY MapPageMaps
<1>8. Sound(freeFrames, Uses)
  BY DEF FramesInv
<1>9. /\ call[t].op \in {"alloc", "fixed"} => g = call[t].frame /\ t \in InHand
      /\ call[t].op = "map" => g = Device
      /\ call[t].op = "create" => g = call[t].pages[1] /\ t \in Creating
      /\ call[t].op = "accept" =>
            call[t].id \in DOMAIN shmem /\ g = shmem[call[t].id].pages[1]
  BY <1>1, ToMapIs
<1> HIDE DEF g, here
<1>10. ASSUME NEW i \in DOMAIN shmem, g = shmem[i].pages[1]
       PROVE  call[t].op = "accept" /\ call[t].id = i
  <2> DEFINE w == << "shared", i, g >>
  <2>1. w \in Uses /\ w[1] = "shared" /\ w[2] = i /\ w[3] = g
    BY <1>10 DEF SharedUses, Uses
  <2> HIDE DEF w
  <2>2. CASE call[t].op \in {"alloc", "fixed"}
    <3>1. << "hand", t, g >> \in Uses
      BY <1>9, <2>2 DEF HandUses, Uses
    <3>2. << "hand", t, g >> # w /\ << "hand", t, g >>[3] = g
      BY <2>1
    <3> QED BY <1>8, <2>1, <3>1, <3>2 DEF Sound
  <2>3. CASE call[t].op = "map"
    <3>1. shmem[i].pages[1] \in Frame
      BY DEF Shaped, OnePage
    <3> QED BY <1>9, <1>10, <2>3, <3>1, FrameValues
  <2>4. CASE call[t].op = "create"
    <3>1. << "creating", t, g >> \in Uses
      BY <1>9, <2>4 DEF CreatingUses, Uses
    <3>2. << "creating", t, g >> # w /\ << "creating", t, g >>[3] = g
      BY <2>1
    <3> QED BY <1>8, <2>1, <3>1, <3>2 DEF Sound
  <2>5. CASE call[t].op = "accept"
    <3> DEFINE j == call[t].id
    <3>1. << "shared", j, g >> \in Uses
      BY <1>9, <2>5 DEF SharedUses, Uses
    <3>2. << "shared", j, g >>[3] = g /\ << "shared", j, g >>[2] = j
      OBVIOUS
    <3>3. << "shared", j, g >> = w
      BY <1>8, <2>1, <3>1, <3>2 DEF Sound
    <3> QED BY <2>1, <2>5, <3>2, <3>3
  <2> QED BY <1>2, <2>2, <2>3, <2>4, <2>5 DEF Calls
<1>11. ASSUME NEW i \in DOMAIN shmem
       PROVE  LET at == MappedAt(mapping', shmem[i].pages[1])
              IN  /\ RegionMapped(shmem[i], at)
                  /\ \A u \in Caller : Accepts(call'[u], i) => AtMostOne(at)
  <2> DEFINE f == shmem[i].pages[1]
             before == MappedAt(mapping, f)
             after == MappedAt(mapping', f)
  <2>1. /\ RegionMapped(shmem[i], before)
        /\ \A u \in Caller : Accepts(call[u], i) => AtMostOne(before)
    BY DEF TwoInv
  <2>2. CASE g = f
    <3>1. call[t].op = "accept" /\ call[t].id = i
      BY <1>10, <2>2
    <3>2. Accepts(call[t], i)
      BY <1>1, <1>2, <3>1 DEF Accepts
    <3>3. AtMostOne(before)
      BY <2>1, <3>2
    <3>4. after \subseteq before \cup {here}
      BY <1>7 DEF MappedAt
    <3>5. here[1] = shmem[i].user /\ shmem[i].user # NoThread
      <4>1. here[1] = call[t].proc /\ call[t].proc \in Process
        BY <1>2 DEF Calls, here
      <4>2. call[t].proc = shmem[i].user
        BY <1>1, <1>2, <3>1 DEF ShapedCall
      <4> QED BY <4>1, <4>2, MemoryAssumption
    <3>6. \A u \in Caller : ~Accepts(call'[u], i)
      BY <1>6, <3>2 DEF TwoInv
    <3> HIDE DEF before, after
    <3>7. RegionMapped(shmem[i], after)
      BY <2>1, <3>3, <3>4, <3>5 DEF RegionMapped, AtMostOne, AtMostTwo
    <3> QED BY <3>6, <3>7 DEF after
  <2>3. CASE g # f
    <3>1. after \subseteq before
      BY <1>7, <2>3 DEF MappedAt
    <3> HIDE DEF before, after
    <3>2. RegionMapped(shmem[i], after)
      BY <2>1, <3>1 DEF RegionMapped, AtMostOne, AtMostTwo
    <3>3. \A u \in Caller : Accepts(call'[u], i) => AtMostOne(after)
      BY <1>6, <2>1, <3>1 DEF AtMostOne
    <3> QED BY <3>2, <3>3 DEF after
  <2> QED BY <2>2, <2>3
<1>12. ASSUME NEW u \in Caller, NEW w \in Caller, NEW i \in DOMAIN shmem',
              Accepts(call'[u], i), Accepts(call'[w], i)
       PROVE  u = w
  BY <1>1, <1>6, <1>12 DEF TwoInv
<1> QED BY <1>1, <1>11, <1>12, TwoLater

LEMMA StepTwo ==
    Typed /\ Shaped /\ SpaceInv /\ FramesInv /\ TwoInv /\ [Next]_vars => TwoInv'
<1> SUFFICES ASSUME Typed, Shaped, SpaceInv, FramesInv, TwoInv, [Next]_vars
             PROVE  TwoInv'
  OBVIOUS
<1>1. CASE UNCHANGED << mapping, shmem, call >>
  BY <1>1, TwoLater DEF TwoInv
<1>2. ASSUME NEW t \in Caller, NEW c \in FirstCalls, Begin(t, c)
      PROVE  TwoInv'
  <2>1. /\ call' = [call EXCEPT ![t] = c]
        /\ mapping' = mapping /\ shmem' = shmem
    BY <1>2 DEF Begin, shmVars, frameVars
  <2>2. call'[t] = c /\ \A u \in Caller : u # t => call'[u] = call[u]
    BY <2>1 DEF Typed
  <2>3. \A i \in DOMAIN shmem : ~Accepts(c, i)
    BY DEF FirstCalls, Accepts
  <2> QED BY <2>1, <2>2, <2>3, QuietTwo
<1>a. ASSUME NEW t \in Caller, call[t].pc # "idle",
             call'[t].op = call[t].op, call'[t].id = call[t].id,
             call'[t].pc \in {"region", "map"} => call[t].pc \in {"region", "map"}
                                                  \/ call[t].op # "accept",
             \A u \in Caller : u # t => call'[u] = call[u],
             mapping' = mapping, shmem' = shmem
      PROVE  TwoInv'
  <2>1. call[t] # Idle
    BY <1>a, CallTyped
  <2>2. \A i \in DOMAIN shmem : Accepts(call'[t], i) => Accepts(call[t], i)
    BY <1>a, <2>1 DEF Accepts
  <2> QED BY <1>a, <2>2, QuietTwo
<1>b. ASSUME NEW t \in Caller, call[t].pc # "idle", NEW x \in Places \ {"region", "map"},
             Goto(t, x), mapping' = mapping, shmem' = shmem
      PROVE  TwoInv'
  <2>1. call[t] \in Calls
    BY <1>b, CallTyped
  <2>2. /\ call'[t] = [call[t] EXCEPT !.pc = x]
        /\ \A u \in Caller : u # t => call'[u] = call[u]
    BY <1>b, GotoTyped
  <2>3. call'[t].op = call[t].op /\ call'[t].id = call[t].id /\ call'[t].pc = x
    BY <2>1, <2>2 DEF Calls
  <2> QED BY <1>a, <1>b, <2>2, <2>3
<1>3. ASSUME NEW t \in Caller, NEW b \in Nat, NEW list \in Seq(Regions), Taken(t, b, list)
      PROVE  TwoInv'
  <2>1. call[t].pc = "region" /\ Located(t, b) /\ mapping' = mapping /\ shmem' = shmem
    BY <1>3 DEF Taken, Lock, shmVars, frameVars
  <2>2. /\ call'[t] = [call[t] EXCEPT !.pc = IF Allocating(t) THEN "page" ELSE "map", !.base = b]
        /\ \A u \in Caller : u # t => call'[u] = call[u]
    BY <2>1, LocatedTyped
  <2>3. call[t] \in Calls
    BY <2>1, CallTyped
  <2>4. call'[t].op = call[t].op /\ call'[t].id = call[t].id
    BY <2>2, <2>3 DEF Calls
  <2> QED BY <1>a, <2>1, <2>2, <2>4
<1>4. ASSUME NEW t \in Caller, NoRegion(t) PROVE TwoInv'
  BY <1>b, <1>4 DEF NoRegion, Lock, shmVars, frameVars, Places
<1>5. ASSUME NEW t \in Caller, Fault(t) PROVE TwoInv'
  BY <1>1, <1>5 DEF Fault, shmVars, frameVars
<1>6. ASSUME NEW t \in Caller, AllocPage(t) PROVE TwoInv'
  <2>1. /\ call[t].pc = "page" /\ mapping' = mapping /\ shmem' = shmem
        /\ call' = [call EXCEPT ![t].pc = "map", ![t].frame = SomeFrame]
    BY <1>6 DEF AllocPage, shmVars
  <2>2. call[t] \in Calls /\ call[t] # Idle
    BY <2>1, CallTyped
  <2>3. /\ call'[t] = [call[t] EXCEPT !.pc = "map", !.frame = SomeFrame]
        /\ \A u \in Caller : u # t => call'[u] = call[u]
    BY <2>1, <2>2 DEF Typed
  <2>4. call'[t].op = call[t].op /\ call'[t].id = call[t].id
    BY <2>2, <2>3 DEF Calls
  <2>5. call[t].op # "accept"
    BY <2>1, <2>2 DEF Shaped, ShapedCall, Calls
  <2> QED BY <1>a, <2>1, <2>3, <2>4, <2>5
<1>7. ASSUME NEW t \in Caller, NoPage(t) PROVE TwoInv'
  BY <1>b, <1>7 DEF NoPage, shmVars, frameVars, Places
<1>8. ASSUME NEW t \in Caller, CannotMap(t) PROVE TwoInv'
  <2>1. /\ call[t].pc = "map" /\ mapping' = mapping /\ shmem' = shmem
        /\ call' = [call EXCEPT ![t].pc = "failed", ![t].frame = NoThread]
    BY <1>8 DEF CannotMap, shmVars
  <2>2. call[t] \in Calls
    BY <2>1, CallTyped
  <2>3. /\ call'[t] = [call[t] EXCEPT !.pc = "failed", !.frame = NoThread]
        /\ \A u \in Caller : u # t => call'[u] = call[u]
    BY <2>1, <2>2 DEF Typed
  <2>4. call'[t].op = call[t].op /\ call'[t].id = call[t].id
    BY <2>2, <2>3 DEF Calls
  <2> QED BY <1>a, <2>1, <2>3, <2>4
<1>9. ASSUME NEW t \in Caller, Create(t) PROVE TwoInv'
  BY <1>b, <1>9 DEF Create, LockShmem, frameVars, Places
<1>10. ASSUME NEW t \in Caller, CreatePage(t) PROVE TwoInv'
  <2>1. call[t].pc = "shm-page" /\ mapping' = mapping /\ shmem' = shmem
    BY <1>10 DEF CreatePage, shmVars
  <2>2. CASE freeFrames = {}
    BY <1>b, <1>10, <2>1, <2>2 DEF CreatePage, Places
  <2>3. CASE freeFrames # {}
    <3>1. call' = [call EXCEPT ![t].pc = "region", ![t].pages = << SomeFrame >>]
      BY <1>10, <2>3 DEF CreatePage
    <3>2. call[t] \in Calls /\ call[t] # Idle
      BY <2>1, CallTyped
    <3>3. /\ call'[t] = [call[t] EXCEPT !.pc = "region", !.pages = << SomeFrame >>]
          /\ \A u \in Caller : u # t => call'[u] = call[u]
      BY <3>1, <3>2 DEF Typed
    <3>4. call'[t].op = call[t].op /\ call'[t].id = call[t].id
      BY <3>2, <3>3 DEF Calls
    <3>5. call[t].op # "accept"
      BY <2>1, <3>2 DEF Shaped, ShapedCall
    <3> QED BY <1>a, <2>1, <3>3, <3>4, <3>5
  <2> QED BY <2>2, <2>3
<1>11. ASSUME NEW t \in Caller, NoShmem(t) PROVE TwoInv'
  BY <1>b, <1>11 DEF NoShmem, LockShmem, frameVars, Places
<1>12. CASE UNCHANGED vars
  BY <1>1, <1>12 DEF vars, shmVars, frameVars
<1>13. CASE KernelAlloc
  BY <1>1, <1>13 DEF KernelAlloc, shmVars
<1>14. ASSUME NEW f \in kernelFrames, KernelFree(f) PROVE TwoInv'
  BY <1>1, <1>14 DEF KernelFree, shmVars
<1> QED
  <2>1. ASSUME NEW t \in Caller, TakeAnywhere(t) PROVE TwoInv'
    BY <1>3, <2>1, TakenAnywhere
  <2>2. ASSUME NEW t \in Caller, TakeFixed(t) PROVE TwoInv'
    BY <1>3, <2>2, TakenFixed
  <2>3. ASSUME NEW t \in Caller, Accept(t) PROVE TwoInv'
    BY <2>3, AcceptTwo
  <2>4. ASSUME NEW t \in Caller, MapPage(t) PROVE TwoInv'
    BY <2>4, MapTwo
  <2>5. ASSUME NEW t \in Caller, Finish(t) PROVE TwoInv'
    BY <2>5, CreatedTwo
  <2> QED BY <1>2, <1>4, <1>5, <1>6, <1>7, <1>8, <1>9, <1>10, <1>11, <1>12, <1>13, <1>14,
             <2>1, <2>2, <2>3, <2>4, <2>5, Steps

LEMMA AtMostOneCount ==
    ASSUME NEW S, AtMostOne(S)
    PROVE  Cardinality(S) <= 1
<1>1. CASE S = {}
  <2>1. Cardinality(S) = 0
    BY <1>1, FS_EmptySet
  <2> QED BY <2>1
<1>2. CASE S # {}
  <2>1. PICK x \in S : TRUE
    BY <1>2
  <2>2. S = {x}
    BY <2>1 DEF AtMostOne
  <2>3. Cardinality({x}) = 1
    BY FS_Singleton
  <2> QED BY <2>2, <2>3
<1> QED BY <1>1, <1>2

LEMMA AtMostTwoCount ==
    ASSUME NEW S, AtMostTwo(S)
    PROVE  Cardinality(S) <= 2
<1>1. CASE AtMostOne(S)
  <2>1. Cardinality(S) <= 1 /\ (S = {} \/ \E x \in S : S = {x})
    BY <1>1, AtMostOneCount DEF AtMostOne
  <2>2. Cardinality(S) \in Nat
    BY <2>1, FS_EmptySet, FS_Singleton, FS_CardinalityType
  <2> QED BY <2>1, <2>2
<1>2. CASE ~AtMostOne(S)
  <2>1. PICK x \in S, y \in S : x # y
    BY <1>2 DEF AtMostOne
  <2>2. S = {x} \cup {y} /\ {x} \cap {y} = {}
    BY <2>1 DEF AtMostTwo
  <2>3. Cardinality({x}) = 1 /\ IsFiniteSet({x}) /\ Cardinality({y}) = 1 /\ IsFiniteSet({y})
    BY FS_Singleton
  <2>4. Cardinality(S) = 1 + 1
    BY <2>2, <2>3, DisjointCount
  <2> QED BY <2>4
<1> QED BY <1>1, <1>2

\* The region a process shares is seen by it and by the one that accepted it,
\* each at one page, and by nobody else (mm/shmem.c, vmm_map_shmem).
THEOREM SharedWithOne == Spec => []SharedByTwo
<1>1. Typed /\ TwoInv => SharedByTwo
  <2> SUFFICES ASSUME Typed, TwoInv, NEW i \in DOMAIN shmem
               PROVE  LET at == MappedAt(mapping, shmem[i].pages[1])
                      IN  /\ \A x \in at : x[1] \in {shmem[i].owner, shmem[i].user}
                          /\ Cardinality(at) <= IF shmem[i].user = NoThread THEN 1 ELSE 2
    BY DEF SharedByTwo, MappedAt
  <2> DEFINE at == MappedAt(mapping, shmem[i].pages[1])
  <2>1. RegionMapped(shmem[i], at)
    BY DEF TwoInv
  <2> HIDE DEF at
  <2>2. shmem[i].user = NoThread => Cardinality(at) <= 1
    BY <2>1, AtMostOneCount DEF RegionMapped
  <2>3. Cardinality(at) <= 2
    BY <2>1, AtMostTwoCount DEF RegionMapped
  <2>4. \A x \in at : x[1] \in {shmem[i].owner, shmem[i].user}
    BY <2>1 DEF RegionMapped
  <2> QED BY <2>2, <2>3, <2>4 DEF at
<1> QED BY <1>1, InitTyped, StepTyped, InitShaped, StepShaped, InitSpace, StepSpace,
           InitFrames, StepFrames, InitTwo, StepTwo, PTL DEF Spec

-----------------------------------------------------------------------------
(* The entries of the maps, counted one by one. *)

Listed(maps, S) == {x \in S \X Nat : x[2] \in 1 .. maps[x[1]]}

\* The places in one list.
LEMMA RowCount ==
    ASSUME NEW x, NEW n \in Nat
    PROVE  LET row == {<< x, k >> : k \in 1 .. n}
           IN  IsFiniteSet(row) /\ Cardinality(row) = n
<1> DEFINE row == {<< x, k >> : k \in 1 .. n}
           f == [k \in 1 .. n |-> << x, k >>]
<1>1. f \in Bijection(1 .. n, row)
  BY DEF Bijection, Injection, Surjection, IsInjective
<1>2. ExistsBijection(1 .. n, row)
  BY <1>1 DEF ExistsBijection
<1>3. IsFiniteSet(1 .. n) /\ Cardinality(1 .. n) = n
  <2>1. 1 \in Int /\ n \in Int
    OBVIOUS
  <2>2. IsFiniteSet(1 .. n) /\ Cardinality(1 .. n) = IF 1 > n THEN 0 ELSE n - 1 + 1
    BY <2>1, FS_Interval, Zenon
  <2> QED BY <2>2
<1> HIDE DEF row, f
<1>4. IsFiniteSet(row) /\ Cardinality(row) = Cardinality(1 .. n)
  BY <1>2, <1>3, FS_Bijection, Zenon
<1> QED BY <1>3, <1>4 DEF row

LEMMA ListedFinite ==
    ASSUME NEW S, IsFiniteSet(S), NEW maps \in [S -> Nat]
    PROVE  IsFiniteSet(Listed(maps, S))
<1> DEFINE Of(x) == {y \in Listed(maps, S) : y[1] = x}
           rows == {Of(x) : x \in S}
<1>1. ASSUME NEW x \in S PROVE IsFiniteSet(Of(x))
  <2>1. maps[x] \in Nat /\ Of(x) = {<< x, k >> : k \in 1 .. maps[x]}
    BY DEF Listed
  <2>3. IsFiniteSet({<< x, k >> : k \in 1 .. maps[x]})
    BY <2>1, RowCount
  <2> QED BY <2>1, <2>3
<1>2. Listed(maps, S) = UNION rows
  <2>1. \A y \in Listed(maps, S) : y[1] \in S /\ y \in Of(y[1])
    BY DEF Listed
  <2> QED BY <2>1
<1>3. IsFiniteSet(rows)
  <2> DEFINE f == [x \in S |-> Of(x)]
  <2>1. f \in Surjection(S, rows)
    BY DEF Surjection
  <2> HIDE DEF f, rows
  <2> QED BY <2>1, FS_Surjection
<1>4. \A r \in rows : IsFiniteSet(r)
  BY <1>1
<1> HIDE DEF rows
<1>5. IsFiniteSet(UNION rows)
  BY <1>3, <1>4, FS_UNION
<1> QED BY <1>2, <1>5

LEMMA ListedWithout ==
    ASSUME NEW S, IsFiniteSet(S), NEW maps \in [S -> Nat], NEW x \in S
    PROVE  Cardinality(Listed(maps, S)) = maps[x] + Cardinality(Listed(maps, S \ {x}))
<1> DEFINE cols == {<< x, k >> : k \in 1 .. maps[x]}
<1>3. Listed(maps, S) = cols \cup Listed(maps, S \ {x}) /\ cols \cap Listed(maps, S \ {x}) = {}
  BY DEF Listed
<1>5. IsFiniteSet(cols) /\ Cardinality(cols) = maps[x]
  <2>1. maps[x] \in Nat
    OBVIOUS
  <2> QED BY <2>1, RowCount
<1> HIDE DEF cols
<1>6. IsFiniteSet(Listed(maps, S \ {x}))
  <2>1. IsFiniteSet(Listed(maps, S))
    BY ListedFinite
  <2> QED BY <1>3, <2>1, FS_Subset
<1> QED BY <1>3, <1>5, <1>6, DisjointCount

\* MapThenSumSet adds up the lengths of the lists.
LEMMA EntriesSum ==
    ASSUME Typed
    PROVE  MapThenSumSet(Entries, Process)
              = Cardinality(Listed([p \in Process |-> Len(freeMap[p])], Process))
<1> DEFINE maps == [p \in Process |-> Len(freeMap[p])]
           One(s) == CHOOSE x \in s : TRUE
           Iter(f) == f = [s \in SUBSET Process |->
                             IF s = {} THEN 0 ELSE Len(freeMap[One(s)]) + f[s \ {One(s)}]]
           count == [s \in SUBSET Process |-> Cardinality(Listed(maps, s))]
           sum == CHOOSE f : Iter(f)
<1>1. MapThenSumSet(Entries, Process) = sum[Process]
  BY Zenon DEF MapThenSumSet, MapThenFoldSet, Entries
<1>2. maps \in [Process -> Nat] /\ IsFiniteSet(Process)
  BY MemoryAssumption DEF Typed
<1>3. \A s : s # {} => One(s) \in s
  OBVIOUS
<1>4. Iter(count)
  <2>1. ASSUME NEW s \in SUBSET Process
        PROVE  count[s] = IF s = {} THEN 0 ELSE Len(freeMap[One(s)]) + count[s \ {One(s)}]
    <3>1. CASE s = {}
      <4>1. Listed(maps, s) = {}
        BY <3>1 DEF Listed
      <4> QED BY <3>1, <4>1, FS_EmptySet
    <3>2. CASE s # {}
      <4> DEFINE p == One(s)
      <4>1. p \in s /\ p \in Process
        BY <1>3, <3>2
      <4>2. IsFiniteSet(s)
        BY <1>2, FS_Subset
      <4>3. maps[p] = Len(freeMap[p])
        BY <4>1
      <4>4. /\ count[s] = Cardinality(Listed(maps, s))
            /\ count[s \ {p}] = Cardinality(Listed(maps, s \ {p}))
        OBVIOUS
      <4>5. Cardinality(Listed(maps, s)) = maps[p] + Cardinality(Listed(maps, s \ {p}))
        <5> DEFINE some == [q \in s |-> maps[q]]
        <5>1. some \in [s -> Nat]
          BY <1>2
        <5>2. Listed(some, s) = Listed(maps, s) /\ Listed(some, s \ {p}) = Listed(maps, s \ {p})
              /\ some[p] = maps[p]
          BY <4>1 DEF Listed
        <5> HIDE DEF some, maps, p
        <5>3. Cardinality(Listed(some, s)) = some[p] + Cardinality(Listed(some, s \ {p}))
          BY <4>1, <4>2, <5>1, ListedWithout
        <5> QED BY <5>2, <5>3
      <4> HIDE DEF count, maps, p
      <4>6. count[s] = Len(freeMap[p]) + count[s \ {p}]
        BY <4>3, <4>4, <4>5
      <4> QED BY <3>2, <4>6 DEF p
    <3> QED BY <3>1, <3>2
  <2> QED BY <2>1, Zenon
<1>5. Iter(sum)
  <2> HIDE DEF Iter, count
  <2> QED BY <1>4, Zenon
<1>6. \A s \in SUBSET Process : sum[s] = count[s]
  <2> SUFFICES ASSUME NEW wrong \in SUBSET Process, sum[wrong] # count[wrong]
               PROVE  FALSE
    OBVIOUS
  <2> DEFINE Sizes == {Cardinality(s) : s \in {r \in SUBSET Process : sum[r] # count[r]}}
  <2>1. \A s \in SUBSET Process : IsFiniteSet(s) /\ Cardinality(s) \in Nat
    BY <1>2, FS_Subset, FS_CardinalityType
  <2>2. Sizes \in SUBSET Nat /\ Sizes # {}
    <3> HIDE DEF sum, count
    <3> QED BY <2>1
  <2>3. PICK m \in Sizes : \A k \in Sizes : m <= k
    <3> HIDE DEF Sizes
    <3> QED BY <2>2, LeastNatural
  <2> HIDE DEF sum, count
  <2>4. PICK s \in SUBSET Process : sum[s] # count[s] /\ Cardinality(s) = m
    BY <2>3
  <2>5. \A r \in SUBSET Process : Cardinality(r) < Cardinality(s) => sum[r] = count[r]
    <3> SUFFICES ASSUME NEW r \in SUBSET Process, Cardinality(r) < Cardinality(s), sum[r] # count[r]
                 PROVE  FALSE
      OBVIOUS
    <3>1. Cardinality(r) \in Sizes
      OBVIOUS
    <3>2. m <= Cardinality(r)
      <4> HIDE DEF Sizes
      <4> QED BY <2>3, <3>1
    <3> HIDE DEF Sizes
    <3> QED BY <2>1, <2>4, <3>2
  <2>6. /\ sum[s] = IF s = {} THEN 0 ELSE Len(freeMap[One(s)]) + sum[s \ {One(s)}]
        /\ count[s] = IF s = {} THEN 0 ELSE Len(freeMap[One(s)]) + count[s \ {One(s)}]
    BY <1>4, <1>5, Zenon
  <2>7. CASE s = {}
    BY <2>4, <2>6, <2>7
  <2>8. CASE s # {}
    <3> DEFINE p == One(s)
    <3>1. p \in s
      BY <1>3, <2>8
    <3> HIDE DEF p
    <3>2. Cardinality(s \ {p}) = Cardinality(s) - 1
      BY <2>1, <3>1, FS_RemoveElement
    <3>3. sum[s \ {p}] = count[s \ {p}]
      BY <2>1, <2>5, <3>2
    <3> QED BY <2>4, <2>6, <2>8, <3>3 DEF p
  <2> QED BY <2>7, <2>8
<1>7. count[Process] = Cardinality(Listed(maps, Process))
  OBVIOUS
<1> QED BY <1>1, <1>6, <1>7

\* An entry is left or in one map.
EntriesInv ==
    /\ entries \in Nat
    /\ entries + Cardinality(Listed([p \in Process |-> Len(freeMap[p])], Process))
          = MaxEntries + Cardinality(Process)

LEMMA EntriesMove ==
    ASSUME Typed, EntriesInv, NEW p \in Process, NEW list \in Seq(Regions),
           freeMap' = [freeMap EXCEPT ![p] = list], entries' \in Nat,
           NEW before \in Nat, Len(freeMap[p]) = before,
           NEW after \in Nat, Len(list) = after,
           entries' + after = entries + before
    PROVE  EntriesInv'
<1> DEFINE old == [q \in Process |-> Len(freeMap[q])]
           new == [q \in Process |-> Len(freeMap'[q])]
           rest == Cardinality(Listed(old, Process \ {p}))
<1>1. /\ old \in [Process -> Nat] /\ new \in [Process -> Nat] /\ IsFiniteSet(Process)
      /\ old[p] = before /\ new[p] = after
      /\ \A q \in Process \ {p} : new[q] = old[q]
  BY MemoryAssumption DEF Typed
<1> HIDE DEF old, new
<1>2. Listed(new, Process \ {p}) = Listed(old, Process \ {p})
  BY <1>1 DEF Listed
<1>3. /\ Cardinality(Listed(old, Process)) = before + rest
      /\ Cardinality(Listed(new, Process)) = after + rest
  <2>1. Cardinality(Listed(old, Process)) = old[p] + Cardinality(Listed(old, Process \ {p}))
    BY <1>1, ListedWithout, Zenon
  <2>2. Cardinality(Listed(new, Process)) = new[p] + Cardinality(Listed(new, Process \ {p}))
    BY <1>1, ListedWithout, Zenon
  <2> QED BY <1>1, <1>2, <2>1, <2>2
<1>4. rest \in Nat
  <2>1. IsFiniteSet(Listed(old, Process))
    BY <1>1, ListedFinite
  <2>2. Listed(old, Process \ {p}) \subseteq Listed(old, Process)
    BY DEF Listed
  <2>3. IsFiniteSet(Listed(old, Process \ {p}))
    BY <2>1, <2>2, FS_Subset
  <2> QED BY <2>3, FS_CardinalityType
<1> HIDE DEF rest
<1>5. Cardinality(Process) \in Nat /\ MaxEntries \in Nat
  BY <1>1, FS_CardinalityType, MemoryAssumption
<1>6. /\ entries \in Nat
      /\ entries + Cardinality(Listed(old, Process)) = MaxEntries + Cardinality(Process)
  BY DEF EntriesInv, old
<1>7. entries' + (after + rest) = entries + (before + rest)
  <2>1. PICK v \in Nat, w \in Nat : v = entries' /\ w = entries
    BY <1>6
  <2>2. PICK r \in Nat : r = rest
    BY <1>4
  <2>3. v + after = w + before
    BY <2>1
  <2>4. v + (after + r) = w + (before + r)
    BY <2>3
  <2> QED BY <2>1, <2>2, <2>4
<1>8. entries' + Cardinality(Listed(new, Process)) = MaxEntries + Cardinality(Process)
  BY <1>3, <1>6, <1>7
<1> QED BY <1>8 DEF EntriesInv, new

LEMMA InitEntries == Init => EntriesInv
<1> SUFFICES ASSUME Init PROVE EntriesInv
  OBVIOUS
<1> DEFINE maps == [p \in Process |-> Len(freeMap[p])]
           item == Region(0, LastPage + 1)
           e == Region(0, 1)
           f == [p \in Process |-> << p, 1 >>]
<1>1. Len(Excluded(<< item >>, e)) = 1
  <2>1. item \in Regions /\ e \in Regions
    BY MemoryAssumption DEF Region, Regions
  <2>2. Collision(item, e) = "INSIDE" /\ item.base = e.base
    BY MemoryAssumption DEF Collision, EndOf, Region
  <2> HIDE DEF item, e
  <2>3. Excluded(<< item >>, e) = Pieces(item, e)
    BY <2>1, ExcludeOne
  <2>4. Len(Pieces(item, e)) = 1
    BY <2>2 DEF Pieces, InsidePieces
  <2> QED BY <2>3, <2>4
<1>2. \A p \in Process : freeMap[p] = Excluded(<< item >>, e)
  BY DEF Init
<1>3. maps = [p \in Process |-> 1]
  <2> HIDE DEF item, e
  <2> QED BY <1>1, <1>2
<1> HIDE DEF maps
<1>4. Listed(maps, Process) = {<< p, 1 >> : p \in Process}
  BY <1>3 DEF Listed
<1>5. f \in Bijection(Process, {<< p, 1 >> : p \in Process})
  BY DEF Bijection, Injection, Surjection, IsInjective
<1>6. ExistsBijection(Process, Listed(maps, Process))
  BY <1>4, <1>5 DEF ExistsBijection
<1>7. IsFiniteSet(Process)
  BY MemoryAssumption
<1>8. Cardinality(Listed(maps, Process)) = Cardinality(Process)
  BY <1>6, <1>7, FS_Bijection, Zenon
<1>9. entries = MaxEntries /\ MaxEntries \in Nat
  BY MemoryAssumption DEF Init
<1> QED BY <1>8, <1>9 DEF EntriesInv, maps

LEMMA StepEntries == Typed /\ EntriesInv /\ [Next]_vars => EntriesInv'
<1> SUFFICES ASSUME Typed, EntriesInv, [Next]_vars PROVE EntriesInv'
  OBVIOUS
<1>1. CASE UNCHANGED << freeMap, entries >>
  BY <1>1 DEF EntriesInv
<1>2. ASSUME NEW t \in Caller, TakeAnywhere(t) PROVE EntriesInv'
  <2> DEFINE p == call[t].proc
             n == call[t].size
             list == Allocated(freeMap[p], n)
  <2>1. call[t].pc # "idle" /\ Fits(freeMap[p], n) # {}
        /\ freeMap' = [freeMap EXCEPT ![p] = list]
        /\ entries' = IF ExactFit(freeMap[p], n) THEN entries + 1 ELSE entries
    BY <1>2 DEF TakeAnywhere, CanTake, Lock
  <2>2. call[t] \in Calls
    BY <2>1, CallTyped
  <2>3. p \in Process /\ n \in Nat \ {0}
    BY <2>2 DEF Calls
  <2> HIDE DEF p, n
  <2>4. freeMap[p] \in Seq(Regions) /\ Ordered(freeMap[p]) /\ Len(freeMap[p]) \in Nat
    BY <2>3 DEF Typed
  <2>5. list \in Seq(Regions)
    BY <2>1, <2>3, <2>4, AllocTakesPages
  <2>6. Len(list) = IF ExactFit(freeMap[p], n) THEN Len(freeMap[p]) - 1 ELSE Len(freeMap[p])
    BY <2>1, <2>3, <2>4, AllocEntries
  <2> HIDE DEF list
  <2>7. PICK before \in Nat : Len(freeMap[p]) = before
    BY <2>4
  <2>8. PICK after \in Nat : Len(list) = after
    BY <2>5
  <2>9. entries' \in Nat /\ entries' + after = entries + before
    <3>1. entries \in Nat
      BY DEF EntriesInv
    <3>2. CASE ExactFit(freeMap[p], n)
      <4>1. entries' = entries + 1 /\ after = before - 1
        BY <2>1, <2>6, <2>7, <2>8, <3>2
      <4> QED BY <3>1, <4>1
    <3>3. CASE ~ExactFit(freeMap[p], n)
      <4>1. entries' = entries /\ after = before
        BY <2>1, <2>6, <2>7, <2>8, <3>3
      <4> QED BY <3>1, <4>1
    <3> QED BY <3>2, <3>3
  <2> QED BY <2>1, <2>3, <2>5, <2>7, <2>8, <2>9, EntriesMove
<1>3. ASSUME NEW t \in Caller, TakeFixed(t) PROVE EntriesInv'
  <2> DEFINE p == call[t].proc
             e == Region(call[t].base, call[t].size)
             list == AllocatedAt(freeMap[p], e)
  <2>1. /\ call[t].pc # "idle" /\ CanAllocAt(freeMap[p], e)
        /\ NeedsEntry(freeMap[p], e) => entries > 0
        /\ freeMap' = [freeMap EXCEPT ![p] = list]
        /\ entries' = CASE NeedsEntry(freeMap[p], e) -> entries - 1
                        [] \E i \in DOMAIN freeMap[p] : freeMap[p][i] = e -> entries + 1
                        [] OTHER -> entries
    BY <1>3 DEF TakeFixed, CanTake, Lock
  <2>2. call[t] \in Calls
    BY <2>1, CallTyped
  <2>3. p \in Process /\ e \in Regions
    BY <2>2 DEF Calls, Region, Regions
  <2> HIDE DEF p, e
  <2>4. freeMap[p] \in Seq(Regions) /\ Ordered(freeMap[p]) /\ Len(freeMap[p]) \in Nat
    BY <2>3 DEF Typed
  <2>5. list \in Seq(Regions)
    BY <2>1, <2>3, <2>4, AllocAtTakesPages
  <2>6. /\ NeedsEntry(freeMap[p], e) =>
              /\ Len(list) = Len(freeMap[p]) + 1
              /\ ~ \E i \in DOMAIN freeMap[p] : freeMap[p][i] = e
        /\ ~NeedsEntry(freeMap[p], e) =>
              Len(list) = IF \E i \in DOMAIN freeMap[p] : freeMap[p][i] = e
                          THEN Len(freeMap[p]) - 1 ELSE Len(freeMap[p])
    BY <2>1, <2>3, <2>4, AllocAtEntries
  <2> HIDE DEF list
  <2>7. entries \in Nat
    BY DEF EntriesInv
  <2>8. PICK before \in Nat : Len(freeMap[p]) = before
    BY <2>4
  <2>9. PICK after \in Nat : Len(list) = after
    BY <2>5
  <2>10. entries' \in Nat /\ entries' + after = entries + before
    <3>1. CASE NeedsEntry(freeMap[p], e)
      <4>1. entries' = entries - 1 /\ entries > 0
        BY <2>1, <2>6, <3>1
      <4>2. after = before + 1
        BY <2>6, <2>8, <2>9, <3>1
      <4> QED BY <2>7, <4>1, <4>2
    <3>2. CASE ~NeedsEntry(freeMap[p], e) /\ \E i \in DOMAIN freeMap[p] : freeMap[p][i] = e
      <4>1. entries' = entries + 1
        BY <2>1, <3>2
      <4>2. after = before - 1
        BY <2>6, <2>8, <2>9, <3>2
      <4> QED BY <2>7, <4>1, <4>2
    <3>3. CASE ~NeedsEntry(freeMap[p], e) /\ ~ \E i \in DOMAIN freeMap[p] : freeMap[p][i] = e
      <4>1. entries' = entries
        BY <2>1, <3>3
      <4>2. after = before
        BY <2>6, <2>8, <2>9, <3>3
      <4> QED BY <2>7, <4>1, <4>2
    <3> QED BY <3>1, <3>2, <3>3
  <2> QED BY <2>1, <2>3, <2>5, <2>8, <2>9, <2>10, EntriesMove
<1>4. CASE UNCHANGED vars
  BY <1>1, <1>4 DEF vars
<1> QED
  <2>1. ASSUME NEW t \in Caller, NEW c \in FirstCalls, Begin(t, c) PROVE EntriesInv'
    BY <1>1, <2>1 DEF Begin, mapVars
  <2>2. ASSUME NEW t \in Caller,
               NoRegion(t) \/ Fault(t) \/ AllocPage(t) \/ NoPage(t) \/ MapPage(t) \/ CannotMap(t)
               \/ Create(t) \/ CreatePage(t) \/ Accept(t) \/ NoShmem(t) \/ Finish(t)
        PROVE  EntriesInv'
    <3>1. UNCHANGED << freeMap, entries >>
      BY <2>2 DEF NoRegion, Fault, AllocPage, NoPage, MapPage, CannotMap, Create, CreatePage,
                  Accept, NoShmem, Finish, mapVars
    <3> QED BY <1>1, <3>1
  <2>3. CASE KernelAlloc
    BY <1>1, <2>3 DEF KernelAlloc, mapVars
  <2>4. ASSUME NEW f \in kernelFrames, KernelFree(f) PROVE EntriesInv'
    BY <1>1, <2>4 DEF KernelFree, mapVars
  <2> QED BY <1>2, <1>3, <1>4, <2>1, <2>2, <2>3, <2>4, Steps

\* Every page frame has one use at a time, and every map entry one place
\* (mm/pmm.c, mm/vmm.c, mm/shmem.c, mm/map.c).
THEOREM FramesHaveOneUse == Spec => []FramesOnce
<1>1. Typed /\ Shaped /\ FramesInv /\ EntriesInv => FramesOnce
  <2> SUFFICES ASSUME Typed, Shaped, FramesInv, EntriesInv PROVE FramesOnce
    OBVIOUS
  <2>1. Sound(freeFrames, Uses)
    BY DEF FramesInv
  <2>2. IsFiniteSet(Uses) /\ Cardinality(InUse) = Cardinality(freeFrames) + Cardinality(Uses)
    BY <2>1, SoundCount, InUseOnes
  <2>3. /\ Cardinality(Uses) =
              Cardinality(kernelFrames) + Len(shmem) + Cardinality(Creating)
              + Cardinality(TablePlaces) + Cardinality(InHand) + Cardinality(PrivatePlaces)
        /\ Cardinality(freeFrames) \in Nat
        /\ {Cardinality(kernelFrames), Len(shmem), Cardinality(Creating),
            Cardinality(TablePlaces), Cardinality(InHand), Cardinality(PrivatePlaces)} \subseteq Nat
    BY <2>1, <2>2, SoundCount, UsesCount, FS_CardinalityType
  <2>4. entries + MapThenSumSet(Entries, Process) = MaxEntries + Cardinality(Process)
    BY EntriesSum DEF EntriesInv
  <2>5. Cardinality(InUse) =
              Cardinality(freeFrames) + Cardinality(kernelFrames)
              + Len(shmem) + Cardinality(Creating)
              + Cardinality(TablePlaces) + Cardinality(InHand) + Cardinality(PrivatePlaces)
    BY <2>2, <2>3
  <2> QED BY <2>4, <2>5, Zenon DEF FramesOnce
<1> QED BY <1>1, InitTyped, StepTyped, InitShaped, StepShaped, InitSpace, StepSpace,
           InitFrames, StepFrames, InitEntries, StepEntries, PTL DEF Spec

-----------------------------------------------------------------------------
(* No frame is lost.  Where a frame can be: a mapped one is in use whether  *)
(* it is private or a region's.                                             *)

Placed(f) ==
    \/ f \in freeFrames \/ f \in kernelFrames \/ f \in Shared
    \/ \E u \in Caller : Creates(call[u]) /\ call[u].pages[1] = f
    \/ \E x \in TablePlaces : tables[x[1]][x[2]] = f
    \/ \E u \in Caller : Holds(call[u]) /\ call[u].frame = f
    \/ f \in Frame /\ \E x \in Process \X Page : mapping[x[1]][x[2]] = f

LEMMA PlacedInUse == \A f : f \in InUse <=> Placed(f)
<1> TAKE f
<1> DEFINE InTables == {tables[x[1]][x[2]] : x \in TablePlaces}
           InHands == {call[t].frame : t \in InHand}
           IsPrivate == {mapping[x[1]][x[2]] : x \in PrivatePlaces}
<1>1. f \in InUse <=> \/ f \in freeFrames \/ f \in kernelFrames \/ f \in Shared
                      \/ f \in CreatedFrames \/ f \in InTables \/ f \in InHands \/ f \in IsPrivate
  BY DEF InUse
<1>2. f \in CreatedFrames <=> \E u \in Caller : Creates(call[u]) /\ call[u].pages[1] = f
  BY DEF CreatedFrames, Creating, Creates
<1>3. f \in InTables <=> \E x \in TablePlaces : tables[x[1]][x[2]] = f
  OBVIOUS
<1>4. f \in InHands <=> \E u \in Caller : Holds(call[u]) /\ call[u].frame = f
  BY DEF InHand, Holds
<1>5. f \in IsPrivate <=> /\ f \in Frame \ (Shared \cup CreatedFrames)
                          /\ \E x \in Process \X Page : mapping[x[1]][x[2]] = f
  BY DEF PrivatePlaces
<1> HIDE DEF InTables, InHands, IsPrivate
<1> QED BY <1>1, <1>2, <1>3, <1>4, <1>5 DEF Placed

LEMMA PlacedInUseLater == (\A f : f \in InUse <=> Placed(f))'
BY PlacedInUse, PTL

\* A step after which every place a frame is in still has it, but for those
\* said to.
LEMMA StaysPlaced ==
    ASSUME NEW t \in Caller, \A u \in Caller : u # t => call'[u] = call[u],
           NEW f, Placed(f),
           Shared \subseteq Shared',
           f \in freeFrames => Placed(f)',
           f \in kernelFrames => Placed(f)',
           Creates(call[t]) /\ call[t].pages[1] = f => Placed(f)',
           Holds(call[t]) /\ call[t].frame = f => Placed(f)',
           \A x \in TablePlaces : x \in TablePlaces' /\ tables'[x[1]][x[2]] = tables[x[1]][x[2]],
           \A x \in Process \X Page :
               mapping[x[1]][x[2]] \in Frame => mapping'[x[1]][x[2]] = mapping[x[1]][x[2]]
    PROVE  Placed(f)'
<1>1. ASSUME NEW u \in Caller, Creates(call[u]), call[u].pages[1] = f
      PROVE  Placed(f)'
  <2>1. CASE u = t
    BY <1>1, <2>1
  <2>2. CASE u # t
    BY <1>1, <2>2 DEF Placed, Creates
  <2> QED BY <2>1, <2>2
<1>2. ASSUME NEW u \in Caller, Holds(call[u]), call[u].frame = f
      PROVE  Placed(f)'
  <2>1. CASE u = t
    BY <1>2, <2>1
  <2>2. CASE u # t
    BY <1>2, <2>2 DEF Placed, Holds
  <2> QED BY <2>1, <2>2
<1>3. CASE f \in Shared
  BY <1>3 DEF Placed
<1>4. CASE \E x \in TablePlaces : tables[x[1]][x[2]] = f
  BY <1>4 DEF Placed
<1>5. CASE f \in Frame /\ \E x \in Process \X Page : mapping[x[1]][x[2]] = f
  BY <1>5 DEF Placed
<1> QED BY <1>1, <1>2, <1>3, <1>4, <1>5 DEF Placed

\* The table a page needs takes a free frame, and no other frame moves.
LEMMA TablePlaced ==
    ASSUME Typed, FramesInv, NEW t \in Caller, call[t] \in Calls, Table(t),
           At(t) \div Span \in 0 .. LastPage \div Span
    PROVE  /\ \A f \in freeFrames : Placed(f)'
           /\ \A x \in TablePlaces :
                 x \in TablePlaces' /\ tables'[x[1]][x[2]] = tables[x[1]][x[2]]
<1> DEFINE p == call[t].proc
           i == At(t) \div Span
           K == 0 .. LastPage \div Span
           V == Frame \cup {NoThread}
<1>1. CASE ~(NeedsTable(t) /\ freeFrames # {})
  <2>1. UNCHANGED << tables, freeFrames >>
    BY <1>1 DEF Table
  <2> QED BY <2>1 DEF TablePlaces, Placed
<1>2. CASE NeedsTable(t) /\ freeFrames # {}
  <2>a. PICK g : g = SomeFrame
    OBVIOUS
  <2>1. /\ tables' = [tables EXCEPT ![p][i] = g] /\ freeFrames' = freeFrames \ {g}
        /\ tables[p][i] = NoThread
    BY <1>2, <2>a DEF Table, NeedsTable
  <2>2. g \in Frame /\ g # NoThread
    <3>1. g \in Frame
      BY <1>2, <2>a, SomeFrameFree
    <3>2. NoThread \notin Frame
      BY MemoryAssumption DEF Frame
    <3> QED BY <3>1, <3>2
  <2>3. p \in Process /\ i \in K
    BY DEF Calls
  <2>4. tables \in [Process -> [K -> V]]
    BY DEF FramesInv
  <2> HIDE DEF i, p, K, V
  <2>5. \A q \in Process, k \in K :
            tables'[q][k] = IF q = p /\ k = i THEN g ELSE tables[q][k]
    BY <2>1, <2>3, <2>4
  <2>6. TablePlaces = {x \in Process \X K : tables[x[1]][x[2]] # NoThread}
        /\ TablePlaces' = {x \in Process \X K : tables'[x[1]][x[2]] # NoThread}
    BY DEF TablePlaces, K
  <2>7. << p, i >> \in TablePlaces' /\ tables'[<< p, i >>[1]][<< p, i >>[2]] = g
    BY <2>2, <2>3, <2>5, <2>6
  <2>8. Placed(g)'
    BY <2>7 DEF Placed
  <2>9. \A f \in freeFrames : f # g => Placed(f)'
    BY <2>1 DEF Placed
  <2>10. ASSUME NEW x \in TablePlaces
         PROVE  x \in TablePlaces' /\ tables'[x[1]][x[2]] = tables[x[1]][x[2]]
    <3>1. x[1] \in Process /\ x[2] \in K /\ tables[x[1]][x[2]] # NoThread /\ x \in Process \X K
      BY <2>6
    <3>2. tables'[x[1]][x[2]] = tables[x[1]][x[2]]
      BY <2>1, <2>5, <3>1
    <3> QED BY <2>6, <3>1, <3>2
  <2> QED BY <2>8, <2>9, <2>10
<1> QED BY <1>1, <1>2

LEMMA QuotientGrows ==
    ASSUME NEW a \in Nat, NEW b \in Nat, a <= b, NEW s \in Nat \ {0}
    PROVE  a \div s \in 0 .. b \div s
<1> DEFINE q == a \div s
           r == b \div s
<1>1. /\ q \in Int /\ r \in Int
      /\ s * q <= a /\ a < s * (q + 1) /\ s * r <= b /\ b < s * (r + 1)
  OBVIOUS
<1> HIDE DEF q, r
<1>2. q >= 0
  <2>1. CASE q + 1 <= 0
    <3>1. s * (q + 1) <= 0
      BY <1>1, <2>1
    <3> QED BY <1>1, <3>1
  <2> QED BY <1>1, <2>1
<1>3. q <= r
  <2>1. CASE r + 1 <= q
    <3>1. s * (r + 1) <= s * q
      BY <1>1, <2>1
    <3> QED BY <1>1, <3>1
  <2> QED BY <1>1, <2>1
<1> QED BY <1>1, <1>2, <1>3 DEF q, r

LEMMA MapsInside ==
    ASSUME Typed, SpaceInv, NEW t \in Caller, call[t].pc = "map"
    PROVE  At(t) \in 1 .. LastPage /\ At(t) \div Span \in 0 .. LastPage \div Span
<1> DEFINE p == call[t].proc
<1>1. call[t] \in Calls
  BY CallTyped
<1>2. p \in Process /\ call[t].base \in Nat /\ call[t].size \in Nat /\ call[t].done \in Nat
  BY <1>1 DEF Calls
<1>3. Region(call[t].base, call[t].size) \in granted[p] /\ call[t].done < call[t].size
  BY DEF SpaceInv
<1> HIDE DEF p
<1>4. At(t) \in Given(p)
  <2>1. At(t) \in Pages(Region(call[t].base, call[t].size))
    BY <1>2, <1>3 DEF At, Pages, EndOf, Region
  <2> QED BY <1>3, <2>1 DEF Given
<1>5. Given(p) \subseteq 1 .. LastPage
  BY <1>2 DEF SpaceInv, SpaceApart, Given
<1>6. At(t) \in 1 .. LastPage
  BY <1>4, <1>5
<1>7. At(t) \in Nat /\ LastPage \in Nat /\ At(t) <= LastPage /\ Span \in Nat \ {0}
  BY <1>6, MemoryAssumption
<1> QED BY <1>6, <1>7, QuotientGrows

Failing == \E t \in Caller : "failed" \in {call[t].pc, call'[t].pc}

LEMMA StepKept ==
    ASSUME Typed, Typed', Shaped, Shaped', SpaceInv, FramesInv, [Next]_vars,
           NEW f, Placed(f), ~Failing
    PROVE  Placed(f)'
<1>1. CASE UNCHANGED << tables, mapping, freeFrames, kernelFrames, shmem, call >>
  BY <1>1 DEF Placed, Shared, TablePlaces, Creates, Holds
\* Of a step that moves no frame.
<1>a. ASSUME NEW t \in Caller, \A u \in Caller : u # t => call'[u] = call[u],
             UNCHANGED << tables, mapping, freeFrames, kernelFrames >>,
             RegionsStay(shmem, shmem'),
             Creates(call[t]) => Creates(call'[t]) /\ call'[t].pages = call[t].pages,
             Holds(call[t]) => Holds(call'[t]) /\ call'[t].frame = call[t].frame
      PROVE  Placed(f)'
  <2>1. Shared \subseteq Shared'
    BY <1>a, SharedStays
  <2>2. f \in freeFrames \/ f \in kernelFrames => Placed(f)'
    BY <1>a DEF Placed
  <2>3. Creates(call[t]) /\ call[t].pages[1] = f => Placed(f)'
    BY <1>a DEF Placed, Creates
  <2>4. Holds(call[t]) /\ call[t].frame = f => Placed(f)'
    BY <1>a DEF Placed, Holds
  <2>5. \A x \in TablePlaces : x \in TablePlaces' /\ tables'[x[1]][x[2]] = tables[x[1]][x[2]]
    BY <1>a DEF TablePlaces
  <2>6. \A x \in Process \X Page :
            mapping[x[1]][x[2]] \in Frame => mapping'[x[1]][x[2]] = mapping[x[1]][x[2]]
    BY <1>a
  <2> QED BY <1>a, <2>1, <2>2, <2>3, <2>4, <2>5, <2>6, StaysPlaced
<1>2. ASSUME NEW t \in Caller, NEW c \in FirstCalls, Begin(t, c)
      PROVE  Placed(f)'
  <2>1. /\ call' = [call EXCEPT ![t] = c] /\ call[t] = Idle
        /\ UNCHANGED << tables, mapping, freeFrames, kernelFrames, shmem >>
    BY <1>2 DEF Begin, shmVars, frameVars
  <2>2. call'[t] = c /\ \A u \in Caller : u # t => call'[u] = call[u]
    BY <2>1 DEF Typed
  <2>3. ~Creates(call[t]) /\ ~Holds(call[t])
    BY <2>1 DEF Creates, Holds
  <2> QED BY <1>a, <2>1, <2>2, <2>3, SameRegions
<1>b. ASSUME NEW t \in Caller, call[t].pc # "idle",
             call'[t] \in Calls, call'[t].pc # "idle",
             call'[t].op = call[t].op, call'[t].pages = call[t].pages,
             call'[t].frame = call[t].frame,
             \A u \in Caller : u # t => call'[u] = call[u],
             UNCHANGED << tables, mapping, freeFrames, kernelFrames, shmem >>
      PROVE  Placed(f)'
  <2>1. call[t] # Idle /\ call'[t] # Idle
    BY <1>b, CallTyped DEF Idle
  <2>2. (Creates(call[t]) => Creates(call'[t])) /\ (Holds(call[t]) => Holds(call'[t]))
    BY <1>b, <2>1 DEF Creates, Holds
  <2> QED BY <1>a, <1>b, <2>2, SameRegions
<1>3. ASSUME NEW t \in Caller, NEW b \in Nat, NEW list \in Seq(Regions), Taken(t, b, list)
      PROVE  Placed(f)'
  <2>1. /\ call[t].pc = "region" /\ Located(t, b)
        /\ UNCHANGED << tables, mapping, freeFrames, kernelFrames, shmem >>
    BY <1>3 DEF Taken, Lock, shmVars, frameVars
  <2>2. /\ call'[t] = [call[t] EXCEPT !.pc = IF Allocating(t) THEN "page" ELSE "map", !.base = b]
        /\ \A u \in Caller : u # t => call'[u] = call[u]
    BY <2>1, LocatedTyped
  <2>3. call[t] \in Calls
    BY <2>1, CallTyped
  <2>4. /\ call'[t] \in Calls /\ call'[t].op = call[t].op /\ call'[t].pages = call[t].pages
        /\ call'[t].frame = call[t].frame /\ call'[t].pc # "idle"
    BY <2>2, <2>3 DEF Calls, Places
  <2> QED BY <1>b, <2>1, <2>2, <2>4
<1>4. ASSUME NEW t \in Caller, AllocPage(t) PROVE Placed(f)'
  <2>1. /\ call' = [call EXCEPT ![t].pc = "map", ![t].frame = SomeFrame]
        /\ call[t].pc = "page" /\ shmem' = shmem /\ freeFrames' = freeFrames \ {SomeFrame}
        /\ freeFrames # {} /\ UNCHANGED << tables, mapping, kernelFrames >>
    BY <1>4 DEF AllocPage, shmVars
  <2>2. call[t] \in Calls /\ call[t] # Idle
    BY <2>1, CallTyped
  <2>3. /\ call'[t] = [call[t] EXCEPT !.pc = "map", !.frame = SomeFrame]
        /\ \A u \in Caller : u # t => call'[u] = call[u]
    BY <2>1, <2>2 DEF Typed
  <2>4. call'[t].frame = SomeFrame /\ call'[t].pc = "map"
    BY <2>2, <2>3 DEF Calls
  <2>5. ~Creates(call[t]) /\ ~Holds(call[t])
    BY <2>1, <2>2 DEF Shaped, ShapedCall, Creates, Holds
  <2>6. SomeFrame \in Frame /\ NoThread \notin Frame
    BY <2>1, SomeFrameFree, MemoryAssumption DEF Frame
  <2>7. Holds(call'[t])
    BY <2>4, <2>6 DEF Holds, Idle
  <2>8. f \in freeFrames => Placed(f)'
    BY <2>1, <2>4, <2>7 DEF Placed, Holds
  <2>9. f \in kernelFrames => Placed(f)'
    BY <2>1 DEF Placed
  <2>10. Shared \subseteq Shared'
    BY <2>1 DEF Shared
  <2>11. \A x \in TablePlaces : x \in TablePlaces' /\ tables'[x[1]][x[2]] = tables[x[1]][x[2]]
    BY <2>1 DEF TablePlaces
  <2>12. \A x \in Process \X Page :
            mapping[x[1]][x[2]] \in Frame => mapping'[x[1]][x[2]] = mapping[x[1]][x[2]]
    BY <2>1
  <2> QED BY <2>3, <2>5, <2>8, <2>9, <2>10, <2>11, <2>12, StaysPlaced
<1>5. ASSUME NEW t \in Caller, MapPage(t) PROVE Placed(f)'
  <2>1. /\ call' = [call EXCEPT ![t] = [@ EXCEPT !.done = call[t].done + 1,
                                                 !.frame = NoThread, !.pc = AfterPage(t)]]
        /\ call[t].pc = "map" /\ shmem' = shmem /\ Table(t) /\ kernelFrames' = kernelFrames
        /\ mapping[call[t].proc][At(t)] = NoThread
    BY <1>5 DEF MapPage, CanMap, shmVars
  <2>2. call[t] \in Calls /\ call[t] # Idle
    BY <2>1, CallTyped
  <2>3. /\ call'[t] = [call[t] EXCEPT !.done = call[t].done + 1,
                                      !.frame = NoThread, !.pc = AfterPage(t)]
        /\ \A u \in Caller : u # t => call'[u] = call[u]
    BY <2>1, <2>2 DEF Typed
  <2>4. /\ call'[t].pages = call[t].pages /\ call'[t].op = call[t].op
        /\ call'[t].pc # "idle"
    BY <2>2, <2>3 DEF Calls, AfterPage
  <2>5. call'[t] # Idle
    BY <2>4 DEF Idle
  <2>6. At(t) \in 1 .. LastPage /\ At(t) \div Span \in 0 .. LastPage \div Span
    BY <2>1, MapsInside
  <2> DEFINE here == << call[t].proc, At(t) >>
  <2>7. here \in Process \X Page
    BY <2>2, <2>6 DEF Calls, Page
  <2>8. /\ \A x \in Process \X Page :
              mapping'[x[1]][x[2]] = IF x = here THEN ToMap(t) ELSE mapping[x[1]][x[2]]
    BY <1>5, MapPageMaps
  <2>9. mapping[here[1]][here[2]] = NoThread /\ mapping'[here[1]][here[2]] = ToMap(t)
    BY <2>1, <2>7, <2>8
  <2> HIDE DEF here
  <2>10. \A x \in Process \X Page :
            mapping[x[1]][x[2]] \in Frame => mapping'[x[1]][x[2]] = mapping[x[1]][x[2]]
    <3>1. NoThread \notin Frame
      BY MemoryAssumption DEF Frame
    <3> QED BY <2>8, <2>9, <3>1
  <2>11. Holds(call[t]) /\ call[t].frame = f => Placed(f)'
    <3> SUFFICES ASSUME Holds(call[t]), call[t].frame = f PROVE Placed(f)'
      OBVIOUS
    <3>1. call[t].op \in {"alloc", "fixed"}
      BY <2>2 DEF Shaped, ShapedCall, Holds
    <3>2. ToMap(t) = f /\ f \in Frame
      BY <2>1, <3>1, ToMapIs
    <3> QED BY <2>7, <2>9, <3>2 DEF Placed
  <2>12. Creates(call[t]) /\ call[t].pages[1] = f => Placed(f)'
    BY <2>4, <2>5 DEF Placed, Creates
  <2>13. /\ f \in freeFrames => Placed(f)'
         /\ \A x \in TablePlaces :
               x \in TablePlaces' /\ tables'[x[1]][x[2]] = tables[x[1]][x[2]]
    BY <2>1, <2>2, <2>6, TablePlaced
  <2>14. f \in kernelFrames => Placed(f)'
    BY <2>1 DEF Placed
  <2>15. Shared \subseteq Shared'
    BY <2>1 DEF Shared
  <2> QED BY <2>3, <2>10, <2>11, <2>12, <2>13, <2>14, <2>15, StaysPlaced
<1>6. ASSUME NEW t \in Caller, Create(t) PROVE Placed(f)'
  <2>1. /\ call[t].pc = "shm" /\ Goto(t, "shm-page")
        /\ UNCHANGED << tables, mapping, freeFrames, kernelFrames, shmem >>
    BY <1>6 DEF Create, LockShmem, frameVars
  <2>2. call[t] \in Calls
    BY <2>1, CallTyped
  <2>3. /\ call'[t] = [call[t] EXCEPT !.pc = "shm-page"]
        /\ \A u \in Caller : u # t => call'[u] = call[u]
    BY <2>1, GotoTyped DEF Places
  <2>4. /\ call'[t] \in Calls /\ call'[t].op = call[t].op /\ call'[t].pages = call[t].pages
        /\ call'[t].frame = call[t].frame /\ call'[t].pc # "idle"
    BY <2>2, <2>3 DEF Calls, Places
  <2> QED BY <1>b, <2>1, <2>3, <2>4
<1>7. ASSUME NEW t \in Caller, CreatePage(t), freeFrames # {} PROVE Placed(f)'
  <2>1. /\ call' = [call EXCEPT ![t].pc = "region", ![t].pages = << SomeFrame >>]
        /\ call[t].pc = "shm-page" /\ shmem' = shmem /\ freeFrames' = freeFrames \ {SomeFrame}
        /\ UNCHANGED << tables, mapping, kernelFrames >>
    BY <1>7 DEF CreatePage, shmVars
  <2>2. call[t] \in Calls /\ call[t] # Idle
    BY <2>1, CallTyped
  <2>3. /\ call'[t] = [call[t] EXCEPT !.pc = "region", !.pages = << SomeFrame >>]
        /\ \A u \in Caller : u # t => call'[u] = call[u]
    BY <2>1, <2>2 DEF Typed
  <2>4. /\ call'[t].pages = << SomeFrame >> /\ call'[t].op = call[t].op
        /\ call'[t].pc = "region"
    BY <2>2, <2>3 DEF Calls
  <2>5. ~Creates(call[t]) /\ ~Holds(call[t]) /\ call[t].op = "create"
    BY <2>1, <2>2 DEF Shaped, ShapedCall, Creates, Holds, Calls
  <2>6. Creates(call'[t]) /\ call'[t].pages[1] = SomeFrame
    BY <2>4, <2>5 DEF Creates, Idle
  <2>7. f \in freeFrames => Placed(f)'
    BY <2>1, <2>6 DEF Placed
  <2>8. f \in kernelFrames => Placed(f)'
    BY <2>1 DEF Placed
  <2>9. Shared \subseteq Shared'
    BY <2>1 DEF Shared
  <2>10. \A x \in TablePlaces : x \in TablePlaces' /\ tables'[x[1]][x[2]] = tables[x[1]][x[2]]
    BY <2>1 DEF TablePlaces
  <2>11. \A x \in Process \X Page :
            mapping[x[1]][x[2]] \in Frame => mapping'[x[1]][x[2]] = mapping[x[1]][x[2]]
    BY <2>1
  <2> QED BY <2>3, <2>5, <2>7, <2>8, <2>9, <2>10, <2>11, StaysPlaced
<1>8. ASSUME NEW t \in Caller, Accept(t) PROVE Placed(f)'
  <2> DEFINE i == call[t].id
  <2>1. /\ call[t].pc = "shm" /\ call[t].op = "accept"
        /\ i \in DOMAIN shmem /\ shmem[i].user = NoThread
        /\ shmem' = [shmem EXCEPT ![i].user = call[t].proc]
        /\ call' = [call EXCEPT ![t].pc = "region", ![t].pages = shmem[i].pages]
        /\ UNCHANGED << tables, mapping, freeFrames, kernelFrames >>
    BY <1>8 DEF Accept, LockShmem, CanAccept, frameVars
  <2>2. call[t] \in Calls /\ call[t] # Idle
    BY <2>1, CallTyped
  <2>3. \A u \in Caller : u # t => call'[u] = call[u]
    BY <2>1, <2>2 DEF Typed
  <2>4. ~Creates(call[t]) /\ ~Holds(call[t])
    BY <2>1, <2>2 DEF Creates, Holds, Shaped, ShapedCall
  <2> HIDE DEF i
  <2>5. RegionsStay(shmem, shmem')
    <3>1. \A j \in DOMAIN shmem : shmem[j] \in SharedRegions
      BY DEF Typed
    <3>2. shmem'[i] = [shmem[i] EXCEPT !.user = call[t].proc]
      BY <2>1
    <3>3. shmem'[i].pages = shmem[i].pages /\ shmem'[i].owner = shmem[i].owner
      BY <2>1, <3>1, <3>2 DEF SharedRegions
    <3> QED BY <2>1, <3>3 DEF RegionsStay
  <2> QED BY <1>a, <2>1, <2>3, <2>4, <2>5
<1>9. ASSUME NEW t \in Caller, Finish(t), call[t].pc = "done" PROVE Placed(f)'
  <2>1. /\ call' = [call EXCEPT ![t] = Idle] /\ Created(t)
        /\ UNCHANGED << tables, mapping, freeFrames, kernelFrames >>
    BY <1>9 DEF Finish, frameVars
  <2>2. call'[t] = Idle /\ \A u \in Caller : u # t => call'[u] = call[u]
    BY <2>1 DEF Typed
  <2>3. call[t] \in Calls /\ call[t] # Idle
    BY <1>9, CallTyped
  <2>4. ~Holds(call[t])
    BY <1>9, <2>3 DEF Holds, Shaped, ShapedCall
  <2>5. CASE call[t].op # "create"
    <3>1. shmem' = shmem
      BY <2>5, <2>1 DEF Created
    <3>2. ~Creates(call[t])
      BY <2>5 DEF Creates
    <3> QED BY <1>a, <2>1, <2>2, <2>4, <3>1, <3>2, SameRegions
  <2>6. CASE call[t].op = "create"
    <3> DEFINE r == [owner |-> call[t].proc, user |-> NoThread, pages |-> call[t].pages]
               n == Len(shmem) + 1
    <3>1. shmem' = Append(shmem, r) /\ r.pages = call[t].pages /\ shmem \in Seq(SharedRegions)
      BY <1>9, <2>1, <2>6 DEF Created, Typed
    <3> HIDE DEF r
    <3>2. /\ DOMAIN shmem' = DOMAIN shmem \cup {n} /\ shmem'[n] = r
          /\ \A i \in DOMAIN shmem : i # n /\ shmem'[i] = shmem[i]
      BY <3>1
    <3>3. RegionsStay(shmem, shmem')
      BY <3>2 DEF RegionsStay
    <3>4. Shared \subseteq Shared'
      BY <3>3, SharedStays
    <3>5. call[t].pages[1] \in Shared'
      BY <3>1, <3>2, SharedFrames
    <3>6. Creates(call[t]) /\ call[t].pages[1] = f => Placed(f)'
      BY <3>5 DEF Placed
    <3>7. f \in freeFrames \/ f \in kernelFrames => Placed(f)'
      BY <2>1 DEF Placed
    <3>8. \A x \in TablePlaces : x \in TablePlaces' /\ tables'[x[1]][x[2]] = tables[x[1]][x[2]]
      BY <2>1 DEF TablePlaces
    <3>9. \A x \in Process \X Page :
              mapping[x[1]][x[2]] \in Frame => mapping'[x[1]][x[2]] = mapping[x[1]][x[2]]
      BY <2>1
    <3> QED BY <2>2, <2>4, <3>4, <3>6, <3>7, <3>8, <3>9, StaysPlaced
  <2> QED BY <2>5, <2>6
<1>10. CASE KernelAlloc
  <2>1. /\ kernelFrames' = kernelFrames \cup {SomeFrame} /\ freeFrames' = freeFrames \ {SomeFrame}
        /\ UNCHANGED << tables, mapping, shmem, call >>
    BY <1>10 DEF KernelAlloc, shmVars
  <2> QED BY <2>1 DEF Placed, Shared, TablePlaces, Creates, Holds
<1>11. ASSUME NEW g \in kernelFrames, KernelFree(g) PROVE Placed(f)'
  <2>1. /\ kernelFrames' = kernelFrames \ {g} /\ freeFrames' = freeFrames \cup {g}
        /\ UNCHANGED << tables, mapping, shmem, call >>
    BY <1>11 DEF KernelFree, shmVars
  <2> QED BY <2>1 DEF Placed, Shared, TablePlaces, Creates, Holds
<1>12. CASE UNCHANGED vars
  BY <1>1, <1>12 DEF vars, shmVars, frameVars
<1>13. ASSUME NEW t \in Caller, Fault(t) PROVE Placed(f)'
  BY <1>1, <1>13 DEF Fault, shmVars, frameVars
\* The steps of a call that fails.
<1>14. ASSUME NEW t \in Caller, call[t].pc # "idle", Goto(t, "failed") PROVE FALSE
  <2>1. call'[t] = [call[t] EXCEPT !.pc = "failed"] /\ call[t] \in Calls
    BY <1>14, GotoTyped, CallTyped DEF Places
  <2>2. call'[t].pc = "failed"
    BY <2>1 DEF Calls
  <2> QED BY <2>2 DEF Failing
<1>15. ASSUME NEW t \in Caller, CannotMap(t) PROVE FALSE
  <2>1. call[t].pc = "map" /\ call' = [call EXCEPT ![t].pc = "failed", ![t].frame = NoThread]
    BY <1>15 DEF CannotMap
  <2>2. call[t] \in Calls
    BY <2>1, CallTyped
  <2>3. call'[t].pc = "failed"
    BY <2>1, <2>2 DEF Typed, Calls
  <2> QED BY <2>3 DEF Failing
<1> QED
  <2>1. ASSUME NEW t \in Caller, TakeAnywhere(t) PROVE Placed(f)'
    BY <1>3, <2>1, TakenAnywhere
  <2>2. ASSUME NEW t \in Caller, TakeFixed(t) PROVE Placed(f)'
    BY <1>3, <2>2, TakenFixed
  <2>3. ASSUME NEW t \in Caller, NoRegion(t) \/ NoPage(t) \/ NoShmem(t) PROVE FALSE
    BY <1>14, <2>3 DEF NoRegion, NoPage, NoShmem, Lock, LockShmem
  <2>4. ASSUME NEW t \in Caller, CreatePage(t), freeFrames = {} PROVE FALSE
    BY <1>14, <2>4 DEF CreatePage
  <2>5. ASSUME NEW t \in Caller, Finish(t) PROVE Placed(f)'
    BY <1>9, <2>5 DEF Finish, Failing
  <2> QED BY <1>2, <1>4, <1>5, <1>6, <1>7, <1>8, <1>10, <1>11, <1>12, <1>13, <1>15,
             <2>1, <2>2, <2>3, <2>4, <2>5, Steps

\* A page frame is lost only by a call that fails: what vmm_map does with its
\* frames on the way out (mm/vmm.c).
THEOREM FramesStay == Spec => FramesKept
<1>1. Typed /\ Typed' /\ Shaped /\ Shaped' /\ SpaceInv /\ FramesInv /\ [Next]_vars =>
          [InUse \ InUse' # {} => \E t \in Caller : "failed" \in {call[t].pc, call'[t].pc}]_vars
  <2> SUFFICES ASSUME Typed, Typed', Shaped, Shaped', SpaceInv, FramesInv, [Next]_vars,
                      NEW f \in InUse, f \notin InUse', ~Failing
               PROVE  FALSE
    BY DEF Failing
  <2>1. Placed(f)
    BY PlacedInUse
  <2>2. Placed(f)'
    BY <2>1, StepKept
  <2> QED BY <2>2, PlacedInUseLater
<1> QED BY <1>1, InitTyped, StepTyped, InitShaped, StepShaped, InitSpace, StepSpace,
           InitFrames, StepFrames, PTL DEF Spec, FramesKept
=============================================================================
