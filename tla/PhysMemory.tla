---------------------------- MODULE PhysMemory ------------------------------
(***************************************************************************)
(* Physical memory: pmm_arch_build_free_map (kernel/arch/amd64/src/mm/     *)
(* pmm.c) builds a memory map from what the firmware reports and takes out *)
(* what is in use; pmm_init (kernel/src/mm/pmm.c) places the table of free *)
(* pages in it and fills the table; pmm_alloc and pmm_free use the table   *)
(* as a stack.                                                             *)
(*                                                                         *)
(* The entries of the map come from an array of fixed size and are never   *)
(* given back.  Nobody looks at what memory_map_add and memory_map_exclude *)
(* return.  The firmware's regions are assumed to be of whole pages; the   *)
(* code does not round them, and of one that ends within a page it would   *)
(* enter that page into the table.                                         *)
(***************************************************************************)
EXTENDS MemoryMap, FiniteSets

CONSTANTS
    Available,     \* regions the firmware may report as free, in any order, in pages
    MaxReports,    \* bound: regions it reports
    Reservations,  \* the first megabyte, the kernel, the modules: a sequence
    TableSize,     \* pages the table of free pages takes
    Entries        \* INITIAL_ENTRIES

ASSUME MemoryAssumption ==
    /\ Available \subseteq Regions
    /\ Reservations \in Seq(Regions)
    /\ TableSize \in Nat \ {0}
    /\ Entries \in Nat /\ MaxReports \in Nat

VARIABLES
    phase,       \* "report", "reserve", "table", "run", or "halt": panic or fault
    map,         \* s_arch_free_map
    used,        \* _used_entries
    reported,    \* regions read
    next,        \* the next reservation
    reserved,    \* history: the reservations memory_map_exclude did not refuse
    tablePages,  \* the pages of s_freeTable
    freeTable,   \* its contents
    allocated,   \* s_allocatedPageCount
    held         \* the pages callers of pmm_alloc have

memoryVars == << phase, map, used, reported, next, reserved, tablePages, freeTable,
           allocated, held >>

bootVars == << phase, map, used, reported, next, reserved, tablePages >>

MemoryTypeOK ==
    /\ phase \in {"report", "reserve", "table", "run", "halt"}
    /\ map \in Seq(Regions)
    /\ used \in 0 .. Entries
    /\ reported \in 0 .. MaxReports
    /\ next \in 1 .. Len(Reservations) + 1
    /\ reserved \subseteq DOMAIN Reservations
    /\ tablePages \subseteq Nat
    /\ freeTable \in Seq(Nat)
    /\ allocated \in 0 .. Len(freeTable)
    /\ held \subseteq Nat

MemoryInit ==
    /\ phase = "report"
    /\ map = << >>
    /\ used = 0
    /\ reported = 0
    /\ next = 1
    /\ reserved = {}
    /\ tablePages = {}
    /\ freeTable = << >>
    /\ allocated = 0
    /\ held = {}

-----------------------------------------------------------------------------
(* pmm_arch_build_free_map. *)

\* memory_map_add takes an entry before it looks for room: a region that
\* collides with another is refused and its entry lost.
Report(r) ==
    /\ phase = "report"
    /\ reported < MaxReports
    /\ reported' = reported + 1
    /\ used' = IF used < Entries THEN used + 1 ELSE used
    /\ map' = IF used < Entries /\ CanAdd(map, r) THEN Inserted(map, r) ELSE map
    /\ UNCHANGED << phase, next, reserved, tablePages, freeTable, allocated, held >>

EndOfReport ==
    /\ phase = "report"
    /\ phase' = "reserve"
    /\ UNCHANGED << map, used, reported, next, reserved, tablePages, freeTable,
                    allocated, held >>

\* One memory_map_exclude: it fails if it must split a region without an entry.
Reserve ==
    /\ phase = "reserve"
    /\ next <= Len(Reservations)
    /\ LET e == Reservations[next]
           refused == NeedsEntry(map, e) /\ used = Entries
       IN  /\ map' = IF refused THEN map ELSE Excluded(map, e)
           /\ used' = IF NeedsEntry(map, e) /\ ~refused THEN used + 1 ELSE used
           /\ reserved' = IF refused THEN reserved ELSE reserved \cup {next}
    /\ next' = next + 1
    /\ UNCHANGED << phase, reported, tablePages, freeTable, allocated, held >>

EndOfReserve ==
    /\ phase = "reserve"
    /\ next > Len(Reservations)
    /\ phase' = "table"
    /\ UNCHANGED << map, used, reported, next, reserved, tablePages, freeTable,
                    allocated, held >>

-----------------------------------------------------------------------------
(* pmm_init. *)

\* The pages of a list, region by region.
Filled(list) ==
    FlattenSeq([i \in DOMAIN list |-> [k \in 1 .. list[i].size |-> list[i].base + k - 1]])

CanPlaceTable == Fits(map, TableSize) # {} /\ ~FirstItemFits(map, TableSize)

PlaceTable ==
    /\ phase = "table"
    /\ CanPlaceTable
    /\ LET at == map[FirstFit(map, TableSize)].base
       IN  tablePages' = Pages(Region(at, TableSize))
    /\ map' = Allocated(map, TableSize)
    /\ freeTable' = Filled(map')
    /\ phase' = "run"
    /\ UNCHANGED << used, reported, next, reserved, allocated, held >>

\* No region is big enough: panic.  The first region fits exactly: the write
\* through NULL, which faults.
CannotPlaceTable ==
    /\ phase = "table"
    /\ ~CanPlaceTable
    /\ phase' = "halt"
    /\ UNCHANGED << map, used, reported, next, reserved, tablePages, freeTable,
                    allocated, held >>

-----------------------------------------------------------------------------
(* pmm_alloc and pmm_free; the lock is a spinlock.  A page is freed by the *)
(* caller that has it (slab_free, thread_destroy).                         *)

Alloc ==
    /\ phase = "run"
    /\ allocated < Len(freeTable)
    /\ allocated' = allocated + 1
    /\ held' = held \cup {freeTable[allocated + 1]}
    /\ UNCHANGED << bootVars, freeTable >>

\* Mutant: the page is put on the slot above the top of the stack.
FreeAbove(p) ==
    /\ phase = "run"
    /\ p \in held
    /\ allocated < Len(freeTable)
    /\ freeTable' = [freeTable EXCEPT ![allocated + 1] = p]
    /\ allocated' = allocated - 1
    /\ held' = held \ {p}
    /\ UNCHANGED bootVars

Free(p) ==
    /\ phase = "run"
    /\ p \in held
    /\ freeTable' = [freeTable EXCEPT ![allocated] = p]
    /\ allocated' = allocated - 1
    /\ held' = held \ {p}
    /\ UNCHANGED bootVars

MemoryNext ==
    \/ \E r \in Available : Report(r)
    \/ EndOfReport
    \/ Reserve
    \/ EndOfReserve
    \/ PlaceTable
    \/ CannotPlaceTable
    \/ Alloc
    \/ \E p \in held : Free(p)

MemorySpec == MemoryInit /\ [][MemoryNext]_memoryVars

-----------------------------------------------------------------------------
(* Properties. *)

\* The regions of the map never overlap, whatever the firmware reports and
\* whatever adding and excluding did to them.
MapOrdered == Ordered(map)

Unallocated == allocated + 1 .. Len(freeTable)

\* No page is twice in the part of the table that is still to be handed out, a
\* page that was handed out is not there, and no page gets lost: the pages of
\* the map are those of the stack and those callers have.
FreePagesOnce ==
    phase = "run" =>
        /\ \A i, j \in Unallocated : freeTable[i] = freeTable[j] => i = j
        /\ \A i \in Unallocated : freeTable[i] \notin held
        /\ PagesOf(map) = held \cup {freeTable[i] : i \in Unallocated}

\* No page of the first megabyte, the kernel or a module that was taken out of
\* the map becomes part of the table or is handed out by pmm_alloc, nor is a page
\* of the table.
ReservedKept ==
    phase = "run" =>
        LET pages == held \cup {freeTable[i] : i \in Unallocated}
        IN  /\ pages \cap tablePages = {}
            /\ \A k \in reserved :
                  (pages \cup tablePages) \cap Pages(Reservations[k]) = {}
=============================================================================
