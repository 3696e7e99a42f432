---------------------------- MODULE AddressSpace ----------------------------
(***************************************************************************)
(* The address spaces of the processes (kernel/src/mm/vmm.c and            *)
(* kernel/arch/amd64/src/mm/vmm.c), the memory they share                  *)
(* (kernel/src/ipc/shmem.c), and what the boot code puts into them          *)
(* (kernel/src/elf.c, modules_start).                                      *)
(*                                                                         *)
(* An address space is guarded by a mutex, the shared regions by another,  *)
(* which the shared-memory calls take first.  A call is preempted between  *)
(* any two steps; pmm_alloc is one step.  A call that fails gives back     *)
(* neither the region nor the pages it had got so far.                     *)
(*                                                                         *)
(* Abstractions.  Which page pmm_alloc hands out does not matter here      *)
(* (PhysMemory says that it is a free one).  The levels of the page table   *)
(* are one: a table serves Span pages and takes a page frame.  Entries of   *)
(* the memory maps and structures of shared regions come from finite pools. *)
(***************************************************************************)
EXTENDS MemoryMap, FiniteSets, FiniteSetsExt

CONSTANTS
    Process, Thread,
    ProcOf,         \* process of each thread
    Boot,           \* the boot code, which runs before the threads
    NoThread,       \* NULL as a locker or a user, 0 as a page table entry
    LastPage,           \* last page of the user region; page 0 is kept out of it
    Span,           \* pages a page table serves
    MemorySizes,    \* numbers of page frames a machine may have
    Device,         \* the page of the text screen
    MaxSize,        \* bound: pages per call
    MaxEntries,     \* map entries the slab cache can supply
    MaxShmem,       \* structures for shared regions
    MaxKernel,      \* bound: frames the kernel has for stacks
    BootOrder,      \* the modules: a sequence of processes
    Image           \* regions of each module's sections

Caller == Thread \cup {Boot}
Frame == UNION {1 .. n : n \in MemorySizes}
Page == 0 .. LastPage

ASSUME MemoryAssumption ==
    /\ Boot \notin Thread /\ NoThread \notin Caller \cup Process
    /\ NoThread \notin Int
    /\ IsFiniteSet(Process)
    /\ LastPage \in Nat \ {0} /\ Span \in Nat \ {0} /\ MaxSize \in Nat \ {0}
    /\ MemorySizes \subseteq Nat /\ \A n \in MemorySizes : Device > n
    /\ MaxEntries \in Nat /\ MaxShmem \in Nat
    /\ ProcOf \in [Thread -> Process]
    /\ BootOrder \in Seq(Process) /\ Image \in [Process -> Seq(Regions)]

VARIABLES
    freeMap,      \* vmm_ctx.free_map of each process
    entries,      \* map entries left
    ctxLock,      \* who holds vmm_ctx.lock
    tables,       \* page tables of a process: index to page frame
    mapping,      \* page table entries: page to page frame
    freeFrames,   \* the page frames in the table of pmm.c
    kernelFrames, \* kernel stacks
    shmLock,      \* who holds s_shmem_lock
    shmem,        \* the shared regions in the table, in the order of their ids
    shmemUsed,    \* structures taken for them
    call,         \* the call each thread is in
    boot,         \* module and section the boot code is at
    granted,      \* history: regions the map of a process gave away
    halted        \* panic or fault

vars == << freeMap, entries, ctxLock, tables, mapping, freeFrames, kernelFrames,
           shmLock, shmem, shmemUsed, call, boot, granted, halted >>

mapVars == << freeMap, entries, granted >>
frameVars == << tables, mapping, freeFrames >>
shmVars == << shmLock, shmem, shmemUsed >>

-----------------------------------------------------------------------------
(* Calls. *)

Idle == [pc |-> "idle"]

\* "id" is the shared region accepted, "pages" the frames to be mapped where
\* the call does not allocate them, "frame" the one in hand.
NewCall(pc, op, p, base, size, pages, id) ==
    [pc |-> pc, op |-> op, proc |-> p, base |-> base, size |-> size,
     pages |-> pages, done |-> 0, frame |-> NoThread, id |-> id]

Sharing(t) == call[t].op \in {"create", "accept"}
Allocating(t) == call[t].op \in {"alloc", "fixed"}

Goto(t, pc) == call' = [call EXCEPT ![t].pc = pc]

Booted == boot.module > Len(BootOrder)

TypeOK ==
    /\ freeMap \in [Process -> Seq(Regions)]
    /\ entries \in 0 .. MaxEntries + Cardinality(Process)
    /\ ctxLock \in [Process -> Caller \cup {NoThread}]
    /\ tables \in [Process -> [0 .. LastPage \div Span -> Frame \cup {NoThread}]]
    /\ mapping \in [Process -> [Page -> Frame \cup {Device, NoThread}]]
    /\ freeFrames \subseteq Frame
    /\ kernelFrames \subseteq Frame
    /\ shmLock \in Caller \cup {NoThread}
    /\ Len(shmem) <= shmemUsed /\ shmemUsed <= MaxShmem
    /\ \A t \in Caller :
          \/ call[t] = Idle
          \/ /\ call[t].pc \in {"shm", "shm-page", "region", "page", "map", "done", "failed"}
             /\ call[t].done \in 0 .. call[t].size
    /\ halted \in BOOLEAN

Init ==
    /\ freeMap = [p \in Process |-> Excluded(<< Region(0, LastPage + 1) >>, Region(0, 1))]
    /\ entries = MaxEntries
    /\ ctxLock = [p \in Process |-> NoThread]
    /\ tables = [p \in Process |-> [i \in 0 .. LastPage \div Span |-> NoThread]]
    /\ mapping = [p \in Process |-> [v \in Page |-> NoThread]]
    /\ \E n \in MemorySizes : freeFrames = 1 .. n
    /\ kernelFrames = {}
    /\ shmLock = NoThread
    /\ shmem = << >>
    /\ shmemUsed = 0
    /\ call = [t \in Caller |-> Idle]
    /\ boot = [module |-> 1, section |-> 1]
    /\ granted = [p \in Process |-> {}]
    /\ halted = FALSE

-----------------------------------------------------------------------------
(* The system calls of a thread, up to their first lock. *)

Begin(t, c) ==
    /\ ~halted
    /\ call[t] = Idle
    /\ call' = [call EXCEPT ![t] = c]
    /\ UNCHANGED << mapVars, ctxLock, frameVars, kernelFrames, shmVars, boot, halted >>

VmmAlloc(t, n) ==
    Booted /\ Begin(t, NewCall("region", "alloc", ProcOf[t], 0, n, << >>, 0))

\* The one caller maps the page of the text screen, never a page frame.
VmmMap(t) ==
    Booted /\ Begin(t, NewCall("region", "map", ProcOf[t], 0, 1, << Device >>, 0))

\* size & ~PAGE_SIZE: every size but one page is refused, except zero, for which
\* the code would follow a pointer it never set; the callers pass one page.
ShmemCreate(t) ==
    Booted /\ Begin(t, NewCall("shm", "create", ProcOf[t], 0, 1, << >>, 0))

ShmemAccept(t, id) ==
    Booted /\ Begin(t, NewCall("shm", "accept", ProcOf[t], 0, 1, << >>, id))

-----------------------------------------------------------------------------
(* memory_map_alloc, memory_map_alloc_at: a region of the address space, with *)
(* the mutex of the address space taken just before.                        *)

Lock(t) ==
    /\ ~halted
    /\ call[t].pc = "region"
    /\ ctxLock[call[t].proc] = NoThread
    /\ ctxLock' = [ctxLock EXCEPT ![call[t].proc] = t]

\* Where the pages of a call come from decides what is next.
Located(t, base) ==
    call' = [call EXCEPT ![t].pc = IF Allocating(t) THEN "page" ELSE "map",
                         ![t].base = base]

Grant(p, r) == granted' = [granted EXCEPT ![p] = @ \cup {r}]

CanTake(t) ==
    LET list == freeMap[call[t].proc]
        e == Region(call[t].base, call[t].size)
    IN  IF call[t].op = "fixed"
        THEN CanAllocAt(list, e) /\ (NeedsEntry(list, e) => entries > 0)
        ELSE Fits(list, call[t].size) # {}

\* The write through NULL in memory_map_alloc.
Faults(t) ==
    /\ call[t].op # "fixed"
    /\ FirstItemFits(freeMap[call[t].proc], call[t].size)

TakeAnywhere(t) ==
    LET p == call[t].proc
        list == freeMap[p]
        n == call[t].size
        base == list[FirstFit(list, n)].base
    IN  /\ Lock(t)
        /\ call[t].op # "fixed" /\ CanTake(t) /\ ~Faults(t)
        /\ freeMap' = [freeMap EXCEPT ![p] = Allocated(list, n)]
        /\ entries' = IF ExactFit(list, n) THEN entries + 1 ELSE entries
        /\ Grant(p, Region(base, n))
        /\ Located(t, base)
        /\ UNCHANGED << frameVars, kernelFrames, shmVars, boot, halted >>

TakeFixed(t) ==
    LET p == call[t].proc
        list == freeMap[p]
        e == Region(call[t].base, call[t].size)
    IN  /\ Lock(t)
        /\ call[t].op = "fixed" /\ CanTake(t)
        /\ freeMap' = [freeMap EXCEPT ![p] = AllocatedAt(list, e)]
        /\ entries' = CASE NeedsEntry(list, e) -> entries - 1
                        [] \E i \in DOMAIN list : list[i] = e -> entries + 1
                        [] OTHER -> entries
        /\ Grant(p, e)
        /\ Located(t, e.base)
        /\ UNCHANGED << frameVars, kernelFrames, shmVars, boot, halted >>

NoRegion(t) ==
    /\ Lock(t)
    /\ ~CanTake(t)
    /\ Goto(t, "failed")
    /\ UNCHANGED << mapVars, frameVars, kernelFrames, shmVars, boot, halted >>

Fault(t) ==
    /\ Lock(t)
    /\ CanTake(t) /\ Faults(t)
    /\ halted' = TRUE
    /\ UNCHANGED << mapVars, frameVars, kernelFrames, shmVars, call, boot >>

-----------------------------------------------------------------------------
(* The loop over the pages of the region. *)

\* Which free frame is taken makes no difference.
SomeFrame == CHOOSE f \in freeFrames : TRUE

\* pmm_alloc in vmm_alloc.
AllocPage(t) ==
    /\ ~halted
    /\ call[t].pc = "page"
    /\ freeFrames # {}
    /\ freeFrames' = freeFrames \ {SomeFrame}
    /\ call' = [call EXCEPT ![t].pc = "map", ![t].frame = SomeFrame]
    /\ UNCHANGED << mapVars, ctxLock, tables, mapping, kernelFrames, shmVars, boot, halted >>

NoPage(t) ==
    /\ ~halted
    /\ call[t].pc = "page"
    /\ freeFrames = {}
    /\ Goto(t, "failed")
    /\ UNCHANGED << mapVars, ctxLock, frameVars, kernelFrames, shmVars, boot, halted >>

\* vmm_arch_proc_map: the table for the page, allocated if there is none, and
\* the entry, which must be empty.
At(t) == call[t].base + call[t].done

NeedsTable(t) == tables[call[t].proc][At(t) \div Span] = NoThread

CanMap(t) ==
    /\ NeedsTable(t) => freeFrames # {}
    /\ mapping[call[t].proc][At(t)] = NoThread

ToMap(t) == IF Allocating(t) THEN call[t].frame ELSE call[t].pages[call[t].done + 1]

\* Mutant: the page frame of the table is not taken off the free ones.
TablePeek(t) ==
    IF NeedsTable(t) /\ freeFrames # {}
    THEN /\ tables' = [tables EXCEPT ![call[t].proc][At(t) \div Span] = SomeFrame]
         /\ UNCHANGED freeFrames
    ELSE UNCHANGED << tables, freeFrames >>

Table(t) ==
    IF NeedsTable(t) /\ freeFrames # {}
    THEN /\ tables' = [tables EXCEPT ![call[t].proc][At(t) \div Span] = SomeFrame]
         /\ freeFrames' = freeFrames \ {SomeFrame}
    ELSE UNCHANGED << tables, freeFrames >>

\* The loop ends or goes on, with the next page to allocate or to map.
AfterPage(t) ==
    IF call[t].done + 1 = call[t].size THEN "done"
    ELSE IF Allocating(t) THEN "page" ELSE "map"

MapPage(t) ==
    /\ ~halted
    /\ call[t].pc = "map"
    /\ CanMap(t)
    /\ Table(t)
    /\ mapping' = [mapping EXCEPT ![call[t].proc][At(t)] = ToMap(t)]
    /\ call' = [call EXCEPT ![t] = [@ EXCEPT !.done = call[t].done + 1,
                                             !.frame = NoThread,
                                             !.pc = AfterPage(t)]]
    /\ UNCHANGED << mapVars, ctxLock, kernelFrames, shmVars, boot, halted >>

CannotMap(t) ==
    /\ ~halted
    /\ call[t].pc = "map"
    /\ ~CanMap(t)
    /\ Table(t)
    /\ call' = [call EXCEPT ![t].pc = "failed", ![t].frame = NoThread]
    /\ UNCHANGED << mapVars, ctxLock, mapping, kernelFrames, shmVars, boot, halted >>

-----------------------------------------------------------------------------
(* The shared-memory calls before and after vmm_map_shmem. *)

LockShmem(t) ==
    /\ ~halted
    /\ call[t].pc = "shm"
    /\ shmLock = NoThread
    /\ shmLock' = t

\* A structure, then a page for the region.
Create(t) ==
    /\ LockShmem(t)
    /\ call[t].op = "create"
    /\ shmemUsed < MaxShmem
    /\ shmemUsed' = shmemUsed + 1
    /\ Goto(t, "shm-page")
    /\ UNCHANGED << mapVars, ctxLock, frameVars, kernelFrames, shmem, boot, halted >>

CreatePage(t) ==
    /\ ~halted
    /\ call[t].pc = "shm-page"
    /\ IF freeFrames = {}
       THEN Goto(t, "failed") /\ UNCHANGED freeFrames
       ELSE /\ freeFrames' = freeFrames \ {SomeFrame}
            /\ call' = [call EXCEPT ![t].pc = "region", ![t].pages = << SomeFrame >>]
    /\ UNCHANGED << mapVars, ctxLock, tables, mapping, kernelFrames, shmVars, boot, halted >>

\* The region must be there and nobody may have accepted it; whoever comes is
\* its user from here on, even if its pages cannot be mapped.
CanAccept(id) == id \in DOMAIN shmem /\ shmem[id].user = NoThread

\* Mutant: the user is not looked at.
AcceptAny(t) ==
    /\ LockShmem(t)
    /\ call[t].op = "accept"
    /\ call[t].id \in DOMAIN shmem
    /\ shmem' = [shmem EXCEPT ![call[t].id].user = call[t].proc]
    /\ call' = [call EXCEPT ![t].pc = "region", ![t].pages = shmem[call[t].id].pages]
    /\ UNCHANGED << mapVars, ctxLock, frameVars, kernelFrames, shmemUsed, boot, halted >>

Accept(t) ==
    /\ LockShmem(t)
    /\ call[t].op = "accept"
    /\ CanAccept(call[t].id)
    /\ shmem' = [shmem EXCEPT ![call[t].id].user = call[t].proc]
    /\ call' = [call EXCEPT ![t].pc = "region", ![t].pages = shmem[call[t].id].pages]
    /\ UNCHANGED << mapVars, ctxLock, frameVars, kernelFrames, shmemUsed, boot, halted >>

NoShmem(t) ==
    /\ LockShmem(t)
    /\ IF call[t].op = "create" THEN shmemUsed = MaxShmem ELSE ~CanAccept(call[t].id)
    /\ Goto(t, "failed")
    /\ UNCHANGED << mapVars, ctxLock, frameVars, kernelFrames, shmem, shmemUsed, boot, halted >>

-----------------------------------------------------------------------------
(* The end of a call: the locks it holds are released, a region that was    *)
(* created enters the table.                                               *)

Unlock(t) ==
    /\ ctxLock' = [p \in Process |-> IF ctxLock[p] = t THEN NoThread ELSE ctxLock[p]]
    /\ shmLock' = IF shmLock = t THEN NoThread ELSE shmLock

Created(t) ==
    IF call[t].op = "create" /\ call[t].pc = "done"
    THEN shmem' = Append(shmem, [owner |-> call[t].proc, user |-> NoThread,
                                 pages |-> call[t].pages])
    ELSE UNCHANGED shmem

Finish(t) ==
    /\ ~halted
    /\ call[t].pc \in {"done", "failed"}
    /\ Unlock(t)
    /\ Created(t)
    /\ call' = [call EXCEPT ![t] = Idle]
    /\ UNCHANGED << mapVars, frameVars, kernelFrames, shmemUsed >>

\* Mutant: the way out through an error keeps the lock of the shared regions.
ReturnLocked(t) ==
    /\ t \in Thread
    /\ ~halted
    /\ call[t].pc \in {"done", "failed"}
    /\ ctxLock' = [p \in Process |-> IF ctxLock[p] = t THEN NoThread ELSE ctxLock[p]]
    /\ shmLock' = IF shmLock = t /\ call[t].pc = "done" THEN NoThread ELSE shmLock
    /\ Created(t)
    /\ call' = [call EXCEPT ![t] = Idle]
    /\ UNCHANGED << mapVars, frameVars, kernelFrames, shmemUsed, boot, halted >>

Return(t) == t \in Thread /\ Finish(t) /\ UNCHANGED << boot, halted >>

-----------------------------------------------------------------------------
(* modules_start: for each module the regions of elf_load at their addresses, *)
(* then a stack anywhere.                                                   *)

BootProc == BootOrder[boot.module]

BootSection ==
    /\ ~Booted
    /\ boot.section <= Len(Image[BootProc])
    /\ LET r == Image[BootProc][boot.section]
       IN  Begin(Boot, NewCall("region", "fixed", BootProc, r.base, r.size, << >>, 0))

BootStack ==
    /\ ~Booted
    /\ boot.section = Len(Image[BootProc]) + 1
    /\ Begin(Boot, NewCall("region", "alloc", BootProc, 0, 1, << >>, 0))

\* A section that could not be placed ends elf_load with -1, which the caller
\* takes for the entry address; a stack that could not stops the boot.
BootReturn ==
    /\ Finish(Boot)
    /\ CASE call[Boot].op = "fixed" ->
              /\ boot' = [boot EXCEPT !.section =
                            IF call[Boot].pc = "done" THEN @ + 1
                            ELSE Len(Image[BootProc]) + 1]
              /\ UNCHANGED halted
         [] call[Boot].op = "alloc" /\ call[Boot].pc = "done" ->
              /\ boot' = [module |-> boot.module + 1, section |-> 1]
              /\ UNCHANGED halted
         [] OTHER -> halted' = TRUE /\ UNCHANGED boot

-----------------------------------------------------------------------------
(* Kernel stacks: pmm_alloc in thread_create, pmm_free in thread_destroy.   *)

KernelAlloc ==
    /\ ~halted
    /\ Booted
    /\ freeFrames # {}
    /\ Cardinality(kernelFrames) < MaxKernel
    /\ kernelFrames' = kernelFrames \cup {SomeFrame}
    /\ freeFrames' = freeFrames \ {SomeFrame}
    /\ UNCHANGED << mapVars, ctxLock, tables, mapping, shmVars, call, boot, halted >>

\* Mutant: the stack is not put back.
KernelFreeLost(f) ==
    /\ ~halted
    /\ f \in kernelFrames
    /\ kernelFrames' = kernelFrames \ {f}
    /\ UNCHANGED << mapVars, ctxLock, frameVars, shmVars, call, boot, halted >>

KernelFree(f) ==
    /\ ~halted
    /\ f \in kernelFrames
    /\ kernelFrames' = kernelFrames \ {f}
    /\ freeFrames' = freeFrames \cup {f}
    /\ UNCHANGED << mapVars, ctxLock, tables, mapping, shmVars, call, boot, halted >>

-----------------------------------------------------------------------------
Continue(t) ==
    \/ TakeAnywhere(t) \/ TakeFixed(t) \/ NoRegion(t) \/ Fault(t)
    \/ AllocPage(t) \/ NoPage(t) \/ MapPage(t) \/ CannotMap(t)
    \/ Create(t) \/ CreatePage(t) \/ Accept(t) \/ NoShmem(t)
    \/ Return(t)

Next ==
    \/ \E t \in Thread :
         \/ \E n \in 1 .. MaxSize : VmmAlloc(t, n)
         \/ VmmMap(t) \/ ShmemCreate(t)
         \/ \E id \in 1 .. MaxShmem : ShmemAccept(t, id)
    \/ \E t \in Caller : Continue(t)
    \/ BootSection \/ BootStack \/ BootReturn
    \/ KernelAlloc
    \/ \E f \in kernelFrames : KernelFree(f)

Spec == Init /\ [][Next]_vars

-----------------------------------------------------------------------------
(* Properties. *)

\* Frames of the shared regions and of regions that are being created.
Shared == UNION {ToSet(shmem[i].pages) : i \in DOMAIN shmem}
Creating == {t \in Caller : call[t] # Idle /\ call[t].op = "create" /\ call[t].pages # << >>}
CreatedFrames == {call[t].pages[1] : t \in Creating}

\* Where the other frames are: in tables, in the hand of a call, in the private
\* memory of a process.
TablePlaces == {x \in Process \X (0 .. LastPage \div Span) : tables[x[1]][x[2]] # NoThread}
InHand == {t \in Caller : call[t] # Idle /\ call[t].frame # NoThread}
PrivatePlaces ==
    LET shared == Shared \cup CreatedFrames
    IN  {x \in Process \X Page : mapping[x[1]][x[2]] \in Frame \ shared}

InUse == UNION { freeFrames, kernelFrames, Shared, CreatedFrames,
                 {tables[x[1]][x[2]] : x \in TablePlaces},
                 {call[t].frame : t \in InHand},
                 {mapping[x[1]][x[2]] : x \in PrivatePlaces} }

Entries(p) == Len(freeMap[p])

\* A page frame has one use at a time: a free one is nowhere mapped, a page
\* table or a kernel stack is nobody's memory, a private page is at one place of
\* one process, a shared one is in one region.  Likewise an entry is left or in
\* one map.
FramesOnce ==
    /\ Cardinality(InUse) =
          Cardinality(freeFrames) + Cardinality(kernelFrames)
          + Len(shmem) + Cardinality(Creating)
          + Cardinality(TablePlaces) + Cardinality(InHand) + Cardinality(PrivatePlaces)
    /\ entries + MapThenSumSet(Entries, Process) = MaxEntries + Cardinality(Process)

\* The page of a shared region is mapped at most once for the process that
\* created it and once for the one that accepted it, and nowhere else.
SharedByTwo ==
    \A i \in DOMAIN shmem :
        LET at == {x \in Process \X Page : mapping[x[1]][x[2]] = shmem[i].pages[1]}
        IN  /\ \A x \in at : x[1] \in {shmem[i].owner, shmem[i].user}
            /\ Cardinality(at) <= IF shmem[i].user = NoThread THEN 1 ELSE 2

\* The free map of a process and the regions it gave away never overlap and make
\* up the whole user region but page 0, and only pages given away are mapped.
SpaceApart ==
    \A p \in Process :
        LET given == UNION {Pages(r) : r \in granted[p]}
        IN  /\ Ordered(freeMap[p])
            /\ \A r, s \in granted[p] : r # s => Pages(r) \cap Pages(s) = {}
            /\ given \cap PagesOf(freeMap[p]) = {}
            /\ given \cup PagesOf(freeMap[p]) = 1 .. LastPage
            /\ \A v \in Page : mapping[p][v] # NoThread => v \in given

\* No frame drops out of use unnoticed: one that no longer has any was in the
\* hand of a call that failed.
FramesKept ==
    [][InUse \ InUse' # {} =>
          \E t \in Caller : "failed" \in {call[t].pc, call'[t].pc}]_vars

\* No lock outlives its call, on whatever way out, and nobody waits for the lock
\* of the shared regions with that of an address space in hand: the two mutexes
\* cannot make calls wait for each other.
LocksInOrder ==
    /\ \A p \in Process : ctxLock[p] # NoThread =>
          /\ call[ctxLock[p]].pc \in {"region", "page", "map", "done", "failed"}
          /\ call[ctxLock[p]].proc = p
          /\ call[ctxLock[p]].pc = "region" => halted
    /\ shmLock # NoThread => call[shmLock].pc # "idle" /\ Sharing(shmLock)
    /\ \A t \in Caller : call[t].pc \in {"page", "map"} => ctxLock[call[t].proc] = t

\* "Allocates a memory region with the given size": memory_map_alloc does not
\* fault (kernel/include/kernel/mm/map.h:60).
NoFault ==
    \A t \in Caller : ~(halted /\ call[t].pc = "region" /\ ctxLock[call[t].proc] = t)
=============================================================================
