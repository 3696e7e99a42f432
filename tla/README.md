# urubu: specifications, checks and proofs

urubu is a small microkernel for amd64 with servers and drivers in user mode.
This directory holds TLA+ specifications of its concurrent core, the TLC
configurations that check them on small instances, and TLAPS proofs about them.
Paths below are relative to `src/source/`.

## The system

One CPU runs everything (`kernel/src/cpu/cpu.c`). The timer interrupt enters the
scheduler, user programs enter the kernel through `int 0x80`, a trap gate that
leaves interrupts on, and the other interrupts are turned into messages to the
servers that asked for them. Programs talk through ports and shared memory.

| part | state | operations | correct when |
| --- | --- | --- | --- |
| scheduler, `proc/sched.c`, `arch/.../sched.c`, `sched.S` | ready queue, current thread, thread states, the interrupt flag a thread resumes with | `sched_add_ready`, `sched_next`, `sched_irq`, `thread_sleep`, `thread_wake_up` | a thread is in one place; a ready thread runs |
| thread queue, `proc/threadqueue.c` | first, last, one link per thread | `add`, `pop`, `is_empty` | it is a sequence |
| threads, `proc/thread.c` | thread table, cleanup queue, cleaner | create, exit, cleaner, statistics | the dead are reaped, the others are not disturbed |
| ports, `ipc/port.c`, `ipc/message.c` | port table, per port a message list and waiters, allocators | create, delete, send, receive | messages arrive once, in order; no lost wake-up; no use after free |
| registry, `ipc/server.c` | server table, list of waiting look-ups | register, lookup | who waits for a name learns of it |
| mutex, `sync/mutex.c` | locker, waiters | lock, unlock | exclusion; hand-over |
| interrupts, `cpu/irq.c`, `pic.c` | slot table, masks | register, handle, finished | a server gets each interrupt once, and the next after it finished |
| memory map, pages, `mm/map.c`, `pmm.c` | lists of free ranges, page stack | add, exclude, alloc, alloc_at, free | ranges are disjoint, nothing is handed out twice |
| slab caches and hash tables, `mm/slab.c`, `lib/hashtable.c`, their copies in `lib/support` | slab lists, free lists, buckets, all linked through the objects | alloc, free; add, get, remove | an object is in one list; a look-up finds the newest of its key |
| address spaces, shared memory, `mm/vmm.c`, `ipc/shmem.c` | free map and mappings per process, regions | map, alloc, map_shmem, copy_to; create, accept, close | a failed call changes nothing; a region has one user |
| device library and manager, `lib/devman`, `servers/devman` | devices, connections, request queues, waiting look-ups | announce, lookup, open, read, write, finished | each request gets one reply, in order |
| keyboard and screen driver, terminal, init | keyboard buffer, frame buffer and cursor, event loops | read, interrupt, write, events | characters arrive once, in order, and are drawn where they belong |
| kernel console, formatted output (`screen.c`, `printf.c`, `lib/c/src/stdio`) | its own cursor on the same frame buffer | `kprintf`, `vsnprintf` | texts come out as their arguments say |
| ELF loader, boot, serial line, rest of the C library | | | sequential set-up and output |

How they meet: every blocking operation (receive, mutex, look-up) links the
current thread into a queue of its own, releases its spinlock with interrupts
still off and calls `thread_sleep`; whoever ends the wait pops the thread and
calls `thread_wake_up`, which appends it to the ready queue. All those queues go
through the single link `sched_next` of the thread. Interrupt handlers call
`ipc_port_send`. Address spaces are guarded by mutexes. The device library is
built on ports, shared memory and the registry.

What is hard: preemption between any two lock sections of a system call; a
waiter that sleeps between being queued and being woken, and looks again through
the pointer it had; structures freed outside the lock; one link for all queues;
allocators that run dry; errors half-way through a mapping. `PROJECT.json` lists
each of these at its line, with the properties that cover it.

## The modules

| module | models |
| --- | --- |
| `Sched` | scheduler: ready queue as a sequence, current thread, interrupt flag. Operators `WakeUp`, `Sleep`, `Preempt` for the modules that extend it |
| `ThreadQueue` | the intrusive queue: operators from a queue and the links to a new queue and new links, and `Represents`, which relates the pair to a sequence |
| `Port` | ports and messages on top of `Sched` |
| `Channel` | abstract specification of a port: channels opened once, messages delivered once and in order |
| `Threads` | exit and the cleaner, with the real links |
| `Mutex` | the sleeping mutex on top of `Sched` |
| `Server` | the registry on top of `Sched` |
| `MemoryMap` | the list of free regions of `mm/map.c`: operators from a list to the list a call leaves behind |
| `PhysMemory` | the boot map and the stack of free pages, on `MemoryMap` |
| `AddressSpace` | address spaces, shared memory and what the boot code maps, on `MemoryMap` |
| `Slab`, `HashTable` | slab caches and hash tables by their links: operators, and the part of the state that is the caches' |
| `Objects` | objects that are allocated, entered, taken out and freed: both of these at once, since they share the objects' first word |
| `KeyedStore` | abstract specification of the two: nothing is handed out twice, equal keys come out newest first |
| `Irq` | the table of handlers, the two cascaded interrupt controllers and the servers' orders to end |
| `Devices` | the device manager, the device library on both sides, the keyboard driver and its interrupt, the request queue of the pseudo terminal |
| `Screen`, `Printf` | one character on the text screen; one turn of the loop over a format; and the layout and the meaning these are compared with |
| `Terminal` | keyboard, terminal server, init, screen driver and kernel console as one system, on `Screen` and `Printf` |
| `MCPort`, `MCThreads`, `MCMutex`, `MCServer`, `MCPhysMemory`, `MCAddressSpace`, `MCDevices`, `MCObjects`, `MCIrq`, `MCTerminal` | instances for TLC |
| `Lists` | a walk along a list that takes the elements of a set, for `Server` and `Objects` |
| `ListProofs` | lemmas and theorems about lists: queues without duplicates, such walks, and the operations of `MemoryMap` |
| `SchedProofs`, `PortProofs`, `AddressSpaceProofs` | proofs about the module of that name |
| `WaitingProofs`, `MemoryProofs`, `ThreadsTerminalProofs`, `DriverProofs` | proofs about `Mutex` and `Server`, which share the scheduler; about `PhysMemory` and `Objects`; about `Threads` and `Terminal`; about `Irq` and `Devices` |

**Grain of atomicity.** A spinlock section runs with interrupts disabled on the
only CPU, so it is one step. A system call is cut wherever interrupts are on or
the thread sleeps. The flag is part of the model: `spinlock_disable` saves it and
`spinunlock_enable` restores it, `thread_sleep` clears it and `sched_yield`
pushes the flags, so a thread that slept goes on with interrupts off until it
returns to user mode; a thread that did not sleep can be preempted between its
sections. `InterruptsOn` guards the timer and the interrupt handlers.

**Sequences for queues.** `ThreadsTerminalProofs` shows that `threadqueue_add` and
`threadqueue_pop` append to and take from the sequence the links stand for, if
the thread added is in no queue. `ThreadPlacement` (in `Mutex`, `MutexPlacement`) says that
it is in none. `Threads` keeps the links because `thread_exit` breaks that condition.

**Abstractions.** A message body is a member of a small set. Allocators are
finite pools that may be empty (a call that fails changes nothing, which is a
stuttering step); which structure they hand out is a free choice. Identifiers
count up; `MaxPorts` bounds them. The hash tables are functions, or, where the
order of equal keys shows, lists; `Objects` shows that the links implement that.
A freed message's words are reused by the allocator, hence `content` becomes `NoMsg`.

The memory modules count in pages. Callers round to pages before they reach the map, except
`pmm_arch_build_free_map`, which passes on what the firmware says
(`kernel/arch/amd64/src/mm/pmm.c:72`): that it reports whole pages is an assumption. Below the first
megabyte, where firmware usually does not, everything is reserved; but of a region above that ends
within a page `free_table_filler` (`kernel/src/mm/pmm.c:86`) would enter that page, whatever the
rest of it is. The memory modules have no scheduler; a call is cut after each page it allocates or
maps and between its locks, which is finer than the timer can cut it. A thread that waits for a
mutex is one whose lock step is not enabled; `Mutex` says that this is what `mutex_lock` does.

### Port

| code | action |
| --- | --- |
| `sys_ipc_port_create`: `ipc_port_create`, then `ipc_port_insert` | `Create`, `Insert` |
| `ipc_port_send` by a thread, by `irq_handle` | `ThreadSend`, `IrqSend`, both `Send` |
| `sys_ipc_port_receive`: first section | `Receive` |
| ... after `thread_sleep` | `Recheck` |
| ... `memcpy`; `ipc_message_destroy` and return | `Copy`; `Release` |
| `sys_ipc_port_delete`: the section | `Delete` (`Unlist`) |
| `ipc_port_destroy`: `ipc_message_destroy`; `m = m->next` | `FreeMessage`; `Follow`, `Recycle` |
| ... `slab_cache_free` of the port, and return | `Destroy` |

The kernel deletes a port whoever waits on it and whatever is queued there, and so does
`Delete`. Two things can go wrong then, and `stale` records the threads they happen to:

* a receiver's port is deleted. It is in the queue of a structure that nobody sends to any
  more; if it was woken already, it looks again through its pointer;
* `ipc_port_destroy` frees a message, with interrupts on, and reads its link afterwards. By then a
  send may have got the structure (`Store`), or its page may have been released and be somebody
  else's (`Recycle`).

What a stale thread reads depends on who has the memory, so the model ends when one is about
to look (`Stray`). Up to there everything is stated of all deletions, whatever their callers
do; that a stale thread never looks is not claimed, because the code does not prevent it. To
a channel a receiver whose port was deleted waits for `Never`. Liveness is claimed of
behaviours in which nobody strays.

### Threads, Mutex, Server

`Threads`: `Exit` is `thread_exit`, `Reap` one turn of the cleaner's loop,
`CleanerSleep` its sleep; `Wait` and `Notify` stand for the waiting queues of ports
and mutexes. `rushed` records that a thread exited while the cleaner, woken for another, was
not at rest (`CleanerAtRest`). The code does not prevent that, and what it does to the queues is
in the run `threads_lost`; `QueuesIntact`, `ThreadsAccounted` and `DeadReaped` hold until then.
`Mutex`: `Lock`, `Retry` (after sleeping), `Unlock` (the section), `Wake` (after it).
`Server`: `Register` with the walk over the waiters, `Lookup`, `Recheck`. `Stored`
maps a name to the 31 characters the structures keep.

### MemoryMap, PhysMemory

| code | definition |
| --- | --- |
| `check_entry_collision` | `Collision` |
| `memory_map_add` | `CanAdd`, `Inserted` |
| `memory_map_exclude`, `exclude_inside` | `Excluded`, `Pieces`, `InsidePieces`; `NeedsEntry` where it must split an item |
| `memory_map_alloc` | `Fits`, `Allocated`; `FirstItemFits` where it faults |
| `memory_map_alloc_at` | `CanAllocAt`, `AllocatedAt` |
| `pmm_arch_build_free_map`: the firmware's list; the reservations | `Report`; `Reserve` |
| `pmm_init` | `PlaceTable`, `CannotPlaceTable` (panic or fault) |
| `pmm_alloc`, `pmm_free` | `Alloc`, `Free` |

`PhysMemory` counts the entries of the early array, which a refused region uses up
too, and goes on where the code ignores a failure.

### AddressSpace

| code | action |
| --- | --- |
| `sys_vmm_alloc`, `sys_vmm_map`, `sys_ipc_shmem_create`, `..._accept`: entry | `VmmAlloc`, `VmmMap`, `ShmemCreate`, `ShmemAccept` |
| `mutex_lock(&s_shmem_lock)` and what follows it | `Create`, `CreatePage`, `Accept`, `NoShmem` |
| `mutex_lock(&ctx->lock)` and the region: `memory_map_alloc`, `memory_map_alloc_at` | `TakeAnywhere`, `TakeFixed`, `NoRegion`, `Fault` |
| the loops over the pages: `pmm_alloc`; `vmm_arch_proc_map` | `AllocPage`, `NoPage`; `MapPage`, `CannotMap` |
| unlocking and return | `Return` |
| `modules_start`, `elf_load` | `BootSection`, `BootStack`, `BootReturn` |
| `thread_create`, `thread_destroy`: the kernel stack | `KernelAlloc`, `KernelFree` |

Abstractions: which free frame `pmm_alloc` returns is fixed, since nothing depends on
it; the levels of tables below the root count as one, so a mapping needs at most one
table frame; the one caller of `vmm_map` maps the text screen; shared regions
have one page, as all callers ask for. Nothing the calls take is given back
by the code, neither regions nor frames nor the shared regions.

### Devices

| code | action |
| --- | --- |
| `servers/devman`: `announce`, `lookup`, other messages | `ManagerAnnounce`, `ManagerLookup`, `ManagerIgnore` |
| `device_announce` | `Announce` |
| `libdevman_server_run`: `do_open`; a request; other messages | `HandleOpen`; `HandleRequest`; `HandleIgnore` |
| `perform_request`, with `ps2_read`, `pty_read`, `pty_write` | `AtOnce`: what it finishes before it returns |
| `device_request_finished` | `Answer`; `EndTogether` for the requests it goes on with |
| `ps2_handler`, `do_read_request`; `irq_finished` | `HandleInterrupt`, `ReadKey`; `Finished` |
| `sched_yield` as far as it orders an end | `EndedEarly` |
| `announce` without a structure for the device | `ManagerForgets` |
| `pty_input_available` | `InputAvailable` |
| `irq_handle`; the keyboard controller (external) | `KeyInterrupt`; `KeyPressed` |
| `device_lookup`, `device_open`: up to and after the answer | `Lookup`, `LookupAnswered`; `Open`, `OpenAnswered` |
| `device_read`, `device_write`: the same | `SendRequest`, `RequestAnswered` |
| `device_read_async`; `complete_request` and its callback; other messages | `ReadAsync`; `Complete`; `AsyncIgnore` |

A process handles one message after the other and shares nothing but the regions, so handling one is
a step; ports are the queues that `Channel` specifies, and a message for a port that does not exist
is dropped, which no caller looks at. The sends and the shared memory do not fail; the structures
for devices, waiters, connections and requests run out. The keyboard's interrupt comes only when its
line is not in service (`inService`): the driver has to end it, or, since an order names no line,
the scheduler's surplus order does. A driver announces one device. Reads are of one byte, and only
the bytes of the keyboard are followed; that all transfers go through one region per connection is
part of the model (`data`). The callback of an asynchronous read asks for the next byte, as
`input_read_cb` does. What the code reads without having set it, the identifier in the answer to a
look-up that waited and the word a synchronous request leaves unset, is any of `Garbage`.

Two of the properties have a condition, because the code needs it. `crowded` records
that two bytes were in the keyboard's buffer at once: `do_read_request` then moves the
wrong bytes. `failed` records the errors that were sent to a port named by another
word of the message: its owner takes them for an answer of his own.

### Slab, HashTable, Objects

| code | definition |
| --- | --- |
| `slab_create` | `Created`, `Header` |
| `slab_cache_alloc` | `SlabAlloc`, in both branches `TakeFirst` |
| `slab_cache_free` | `SlabFree`, `Unlinked` |
| `hashtable_add`; `hashtable_get` | `AddWord`, `AddHead`; `FirstOf` |
| `hashtable_remove` | `RemoveWord`, `RemoveHead` |
| the callers' lock sections, such as those of `ipc_port_create`, `ipc_port_insert`, `sys_ipc_port_delete`, `ipc_port_destroy` | `Allocate`, `Enter`, `TakeOut`, `Release` |

The first word of an object links a free list while it is free and a bucket while it
is in a table; `word` is that one word. A chain is followed only as far as it can be
without repeating itself, and `Ends` says that it ends in NULL. Neither table resizes.
`hashtable_init` sets the heads to nothing at all: `Init` starts from pages of zeros.
The counter `items` grows with every addition and never shrinks, though
`hashtable.h:40` calls it the "number of items in the table"; only the statistics of
the threads report it, and no thread leaves its table.

### Irq

| code | action |
| --- | --- |
| `sys_irq_register`, `irq_register`, `pic_enable_irq` | `Register`; `BootTarget`, `BootEnabled` for those of the boot |
| `arch_irq_handler`, `pic_is_masked`, `pic_is_irq_real` | `Spurious` |
| `irq_handle`, `sched_irq` as far as it orders the end | `Handle` |
| `sched_yield` | `Yield` |
| `sys_irq_finished`, `pic_send_eoi`: slave; master | `FinishSlave`; `Finish` |
| the controllers and the devices (external) | `Raise`, `Interrupt`, `Vanish`, `Passed`, `EndedAt` |

An order to end names no line: the controller ends the most urgent one it serves. So a
server may end the line of another, whose own order then ends the first's. `disturbed`
records that this happened. Three things in the code do more than confuse the ends:
`sched_yield` orders one too many; a message that could not be sent leaves its line in
service for good (`lost`); and when a request vanishes at the slave the code returns
without an order to the master, which goes on serving the cascade (`noise`).

### Screen, Printf, Terminal

| code | definition |
| --- | --- |
| `screen_putc` of the driver and of the kernel, `scroll_up` | `Put`, `Advanced`, `Wrapped`, `ScrolledUp` |
| `_printf_helper`, `do_printf`; `_printf_number` | `Turn`, `Out`; `Number` |
| `vsnprintf` | `Vsnprintf` |
| `kprintf`, `kprintf_helper` | `KernelPrint`, `Printed` |
| the screen driver: `main`; `screen_write` | `StartDriver`; `Draw` |
| the terminal: `init_screen`; `init_input`; registration | `PrintLine`, `LinePrinted`; `StartInput`; `RegisterName` |
| the terminal's messages: `do_create`; open; `pty_read`; `pty_write` | `ServeCreate`; `ServeOpen`; `ServeRead`; `ServeWrite`, `Written` |
| `input_read_cb`, `pty_input_available` | `ServeKey`, `Decoded`, `GiveChar` |
| `apps/init` | `InitCreates` to `InitEchoes`, `InitExits` |

The terminal is one thread: while it waits for the screen in the middle of a write, keys
and reads pile up in `inbox`. A character typed while no read waits is dropped, as in the
code. The kernel prints with interrupts off, but between two characters of the driver,
with a cursor of its own: from then on the cells are nobody's, and `ScreenShowsTexts`
only follows the driver's cursor. The keymap is a constant (`Key` names keys by their
characters); Enter has no character there, so it gives a zero. A code after 0xe0
stands for no key. `Printf` is checked through what the terminal and the kernel print,
against `Rendered`, which knows numbers by their value.

## The runs

| run | instance | shows |
| --- | --- | --- |
| `port` | 3 threads, 1 port structure, 2 messages, 2 identifiers, deletions at any time | until a thread strays: no thread, wake-up or structure is lost, duplicated or used after it was freed; ports implement `Channel` with its liveness; a ready thread runs |
| `threads` | 4 user threads and the cleaner | until a thread exits while the cleaner is at work: queues intact, dead threads reaped, nobody else disturbed |
| `threads_lost` | as before | **violated**: two exits in a row lose a ready thread |
| `mutex` | 4 threads, 2 mutexes | exclusion, placement, no lost wake-up, hand-over |
| `server` | 3 threads, 2 names, 2 ports, 2 registrations, 2 waiters | waiting look-ups are woken, find their server and answer |
| `physmem` | 9 pages, up to 3 reports out of 5, 3 reservations, 2 map entries | the map stays ordered; no page is handed out twice, none that was reserved |
| `addrspace` | 2 processes with 3 threads, 8 pages each, 4 or 9 frames, 1 shared region, 2 spare map entries | frames and addresses have one use; two users per shared region; locks released on every way out |
| `addrspace_fault` | as before | **violated**: an allocation as big as the first free region faults |
| `devices` | a keyboard or pseudo terminal, an asynchronous and a synchronous client, 3 keys, 9 ports, 1 or 2 request structures | each request is in one place until its one answer; keys arrive, in order, which takes the end of each interrupt |
| `objects` | 2 caches with a table each, 2 pages of 2 objects, 2 keys in one bucket, 3 additions | slab lists, free lists and buckets stay exact and implement `KeyedStore` |
| `irq` | lines 0, 1, 7 and 15, 2 servers, 3 requests, 1 yield, 1 lost message, 1 vanished request | enough ends are ordered; no server is told twice; no panic; requests are delivered |
| `terminal` | a screen of 2 by 2, reports of two lines, 2 keys, 3 codes, 1 line of the kernel | the screen shows the texts, in order; nobody waits for ever |

**Bounds.** Three threads give two waiters and a third party (a sender, a deleter,
a thread that takes the message first). Two messages fill and drain a list, one
per waiter. Two identifiers over one structure force a structure to be reused
under a new identifier; two structures take longer than a run should, so that the port that
takes over a freed message while the loop of another deletion is about to read its link
(`Store`) is met by the proofs only, while `Recycle` is reached in the run. Four
threads on a mutex give a locker, an unlocker about to wake a waiter, a waiter
still queued and a barging thread. Four threads in `Threads` give a dead thread, a
running one, a waiting one and one to cut off. Two registrations and two waiters
exhaust both caches of the registry with three threads. Threads have an identity there
(the boot order), so these runs use no symmetry.

In `physmem` the reports can repeat, cover or overlap one another, and the
reservations meet the front of a region, its middle, its end, the whole, or nothing;
with two entries both a refused report and a second split run out of them. In
`addrspace` four frames run out in the boot code, nine later, at every point of a
call; the sections leave each process a small region in front of a larger one, so
that first fit has to pass one by, and the two entries are used up by the sections of
the second process. Two threads of one process are alike (`MCSymmetry`); no liveness
is checked under it.

In `devices` two clients wait for the device at once, open it twice (the keyboard
refuses the second), fill the queue of the pseudo terminal with a read and a write, and
with one request structure are refused; region numbers from 5 on meet the numbers of
reply ports, so that errors reach clients they were not meant for. The ninth port
leaves room to look up again after a failure.

In `objects` two objects per slab make a slab go from the one list of its cache to the
other and back and empty again, two pages let both caches compete for one, and three
objects of one bucket are removed from its front, middle and end. In `irq` line 0 is the
scheduler's, 1 is at the master below it, 15 at the slave, and 7 and 15 are the numbers
that a vanished request is answered with; three requests have two lines in service
and a third wait. In `terminal` every text is longer than the screen is wide, so each
wraps and scrolls; ints of 16 values and a buffer of four characters make numbers and
lines too large for them; three codes hold a 0xe0, the code it changes and a key.

The runs check the type invariant of `Port` only, which a theorem states too; those of
the other modules document their states, and each of these runs would fail in an
evaluation error or in its other invariants if a variable left its type.

**Deadlock** is checked in the runs of the modules with a scheduler: the timer always
ticks, so the kernel never stops as a whole; that threads are not stuck is what the
liveness properties say. At a stray read `Port` goes on without a change (`End`), which is not the
kernel stopping but the model having no more to say. `physmem` and `addrspace` have behaviours that end, because
the kernel halts on a panic or a fault and because memory is never given back, so the
runs say `CHECK_DEADLOCK FALSE`; that calls do not wait for each other there is
`LocksInOrder`. So do `devices`, where clients may stop and one that was refused waits for ever,
and `objects`, `irq` and `terminal`, whose additions, requests and keys are bounded: when
the bound is reached and all is delivered nothing is left to do. That nobody waits for
ever there is what `KeysArrive`, `Delivered` and `KeysEchoed` say.

**Fairness.** Weak fairness of `Preempt` (in `Port`, `Tick`): the timer keeps ticking whenever
interrupts are on. Weak fairness of `Continue(t)` (in `Port`, `GoOn(t)`): with interrupts off, a
thread in a call goes on. Where a thread may be preempted inside a call (mutex, cleaner)
it resumes at the instruction it had reached, so a thread that gets the CPU
again and again finishes its section: strong fairness. Nothing obliges user
programs to make calls, except that the work done under a mutex ends. In `Devices` weak
fairness of `Manager`, `DriverStep(d)`, `Continue(c)` says that a process goes on with the
messages it has, which is what `ImplementsChannel` and `ReadyRuns` show of ports and
threads, and of `KeyInterrupt` that the hardware delivers a request that is not masked. `Irq`
and `Terminal` assume the same of their servers and processes; nobody has to press a
key, yield or lose a message.

**Mutants.** Each property of each passing run is violated by a variant of one
action with a plausible slip (a dropped test, a peek for a pop, a wake-up left
out); the variants are defined beside the actions, marked `Mutant`.

## What is proved

For every value of the constants, under the assumptions the modules name: the boot order enumerates
the threads without repetition (`BootOrderAssumption`, hence finitely many threads), the constants
that stand for NULL and the idle thread are none of the others, the firmware's regions and the
reservations are regions, what is printed or written is a sequence of characters
(`TerminalAssumption`), a slab holds one object at least, the ports of drivers and asynchronous
clients are the first ones, one each, a client reads either synchronously or asynchronously and no
key is the value that stands for a page nobody has written (`DeviceAssumption`), and the drivers and
asynchronous clients, the processes of `AddressSpace` and the pages of `Slab` are finitely many.

* `TypeCorrect`, `PortsOwned`, `ThreadsPlaced`, `WakeupsSuffice`, `MessagesOwned`
  (`PortProofs`): the invariants `TypeOK`, `PortOwnership`, `ThreadPlacement`, `NoLostWakeup`,
  `MessageOwnership` of `Port!Spec`, for deletions of any port at any time, up to a stray read.
* `Exclusion`, `WaitersPlaced`, `UnlocksWake` (`WaitingProofs`): the invariants
  `MutualExclusion`, `MutexPlacement`, `NoLostWakeup` of `Mutex!MutexSpec`.
* `WaitersListed`, `SleepersWait`, `LoopsOnce` (`WaitingProofs`): the invariants
  `ThreadPlacement`, `SleepersUnregistered`, `WokenFindTheirs` of `Server!Spec`, the last two
  for names the structures hold whole, which is what the code needs and the run has;
  `NobodySleepsOnRegistered` says what is left of that whatever the names are.
* `SlabsExactAlways`, `BucketsExactAlways` (`MemoryProofs`): the invariants `SlabsExact` and
  `BucketsExact` of `Objects!Spec`; `ObjectsAreStored`: `Objects!Spec` implements
  `KeyedStore` (`ImplementsStore`), for any caches, pages, keys and hash function.
* `PortsAreChannels` (`PortProofs`): `Port!Spec` implies the safety part of `Channel`
  under the mapping of the run, for every step of every thread.
* `QueuesIntactUntilRushed`, `AccountedUntilRushed` (`ThreadsTerminalProofs`): the invariants
  `QueuesIntact` and `ThreadsAccounted` of `Threads!Spec`: what an exit needs of the cleaner, and
  that nothing else in the code disturbs the queues; `AddAppends`, `PopTakesFirst`,
  `AddKeepsOthers`: the intrusive queue implements sequences.
* `PanicNever`, `TellsOnce`, `OrdersSuffice` (`DriverProofs`): the invariants `NeverPanics`,
  `FinishedFirst` and `EndsSuffice` of `Irq!Spec`, for any lines and servers.
* `PutLaysOut` (`ThreadsTerminalProofs`): `screen_putc` on the layout of a text gives the layout of the
  text with the character behind it; `ScreenShown`: the invariant `ScreenShowsTexts` of
  `Terminal!TerminalSpec`; both for screens of any size and any texts.
* `TextsDrawnInOrder` (`ThreadsTerminalProofs`): the invariant `TextsInOrder` of
  `Terminal!TerminalSpec`, for any reports, greetings, keys and codes whose report lines are
  formatted as their arguments say (`FormatsRender`, which TLC evaluates for the lines of
  `MCTerminal`).
* `RequestsAnsweredOnce`, `KeysReadInOrder` (`DriverProofs`): the invariants `AnswersOnce` and
  `KeysInOrder` of `Devices!DeviceSpec`, for any drivers, devices and clients.
* `CollisionExact`, `PiecesExact`, `AddJoinsPages`, `ExcludeRemovesPages`,
  `AllocTakesPages`, `AllocAtTakesPages`, `AllocEntries`, `AllocAtEntries`
  (`ListProofs`): for every ordered list of regions and every region, what `mm/map.c`
  does to the pages a list stands for and to the entries it consists of.
* `RegionsApart`, `PagesOnce`, `ReservationsHold` (`MemoryProofs`): the invariants
  `MapOrdered`, `FreePagesOnce` and `ReservedKept` of `PhysMemory!MemorySpec`; `FreesCounted`:
  the panic of `pmm_free` on a count of zero is not reached.
* `LocksOrdered`, `AddressesApart`, `SharedWithOne`, `FramesHaveOneUse`, `FramesStay`
  (`AddressSpaceProofs`): the invariants `LocksInOrder`, `SpaceApart`, `SharedByTwo`,
  `FramesOnce` and the action property `FramesKept` of `AddressSpace!Spec`, for any
  processes, threads, machine sizes and modules that satisfy `MemoryAssumption`.

The inductive invariant of `Port` grows in layers. `Typed` adds to `TypeOK` what
the local variables hold at each place of a call, and that a stale thread waits or is about
to read a link. `Owned` adds the owner of each port structure; it needs that the thread between
the two halves of a creation or a deletion is unique, and that a thread which waits and is
not stale waits on an open port (`SeesLive`), because `Unlist` makes all others stale.
`Placed` adds where each thread is; a woken receiver's port is still the one it
slept on only because `Owned` says that the structure was not reused.
`NoLostWakeup` comes last, counting the woken receivers of a port: a send adds one
message and one woken receiver, a receive takes one of each, and a receiver that
finds nothing goes back to sleep on a port with no message. `SchedProofs` says what
each scheduler step does to placement, once for all modules that use it. `Conserved`
follows the messages through the loop of `ipc_port_destroy`: a message is free, in the hand of
one thread (`InHand`), or in the queue of one port that is open or being deleted (`Emptying`), and
any other port has an empty queue (`EmptyElsewhere`), because a deletion frees its port only after the
last message, so that opening one queues nothing.

That ports are channels is proved step by step from these invariants. An open port maps
to the channel of its identifier, the words of its queued messages to the contents, and
a thread's local copy to what it holds. Most steps move a structure between owners and
map to a stutter: a message counts as sent when it is linked, and as received when it is
unlinked, although its words are copied out later; that they are still the same then
is `MessageOwnership`. A deletion closes the channel, and
whoever waits there waits for `Never`. Where a step changes a queue, the lemmas `LookedUpAppend` and
`LookedUpPop` carry the change over to the contents. `IdsSuffice` keeps the identifiers,
those of the threads between `Create` and `Insert` included, within the channels there
are. The liveness part, that a message sent to a port with receivers arrives, stays
with the run.

The queues of `Threads` are proved intact at the level of the links. `Accounted` says that
the ready queue, the cleanup queue and the waiters each represent a sequence, that these
sequences share no thread, and that the states of the threads say which one each is in: a
cleaner at rest is in none, so an `Exit` may put it into the ready queue, and one that comes while
the cleaner is at work makes `rushed` true. `QueuesIntact` speaks of
following the links from the first thread on, a recursive function: the sequence an
invariant asserts gives the walk explicitly, and a least place at which the two differ
is impossible.

The mutex has the same layers. `Held` adds to `Typed` that the locker is between lock and
unlock. `Placed` adds to the two halves of `MutexPlacement`, where a thread is
(`Placement`) and which are asleep (`Sleepers`), that the thread an unlock is about to wake
waited for that very mutex (`TakenFromHere`). `NoLostWakeup` follows by naming, for a free
mutex with waiters, the thread that is on the way to it.

The registry is simpler in its states and harder in its one step that wakes many. The walk of
`sys_ipc_server_register` chooses from the list the waiters for its name and leaves the
others (`Chosen`, a fold along the list, with the lemmas of `ListProofs` about it): the two
parts share no thread, keep the order, and are together the list (`Split`), and waking the
first part in order moves just those threads into the ready queue (`WakeUpAllPlaces` of
`SchedProofs`). `RegistryInv` adds that every registration is in the table under what the
structure holds of its name, and so is the name of a thread that was woken, since entries
are never removed; a thread is asleep only if its look-up failed, on which the comparison of
a whole name with a stored one has to agree, hence the condition on the names.

`PanicNever` is inductive together with: a line without a handler is masked, and what a
controller serves is not masked (`IInv`). For `TellsOnce` the invariant `TInv` says that, as
long as no line was ended out of turn, what a server knows of is in service, at both
controllers until its first order and at the master until the second, and is known to one
server at one place; and that servers know of one line of the slave at most, since all
of them need the cascade. So no second request of such a line passes the controllers, and
an order to end takes what it was meant for out of service, or makes `disturbed` true.

`OrdersSuffice` has to count, because the orders name no line and end each other's lines.
`EInv` says, for each controller apart, that the interrupts of which a server has still to
end one (`Due`, a finite set of places in the servers' queues and hands) are at least as
many as the lines in service, but for lost messages and, at the master, the slave's
vanished requests. Each step changes both sides by at most one, and by the same: an
interrupt adds a line and a place, a message taken moves a place, an order removes a place
and at most one line. The order of `sched_yield` removes a line and no place, which only
makes the inequality weaker.

The memory map is proved operation by operation: the comparisons of
`check_entry_collision` miss no overlap (`CollisionExact`); what is cut off one item
is ordered, not empty and exact, so that the three panics on an empty region are
never reached (`PiecesExact`); adding, which stops at the first item behind the new
region, accepts exactly the regions that share no page with the list; each operation
keeps the list ordered and changes its pages by those asked for. Replacing one
item of an ordered list by pieces of it is the lemma behind both allocations
(`ReplaceKeepsOrder`). `Excluded` joins what is left of all items with `FlattenSeq`, and the
table of free pages joins the pages of all regions with it. `FlattenInduction` is the
induction along that function, with the predicate given as a set, which is how it can be
used at all; it is itself proved by a least counterexample (`LeastNatural`).

On these rests `PhysMemory`. `PInv` says that the map is ordered; that every reservation
which was not refused is apart from the map and from the table (`KeptOut`), which holds on
because after the reports the map only shrinks; that nothing is handed out before the
table is filled (`Booting`); and that as many pages are allocated as callers have
(`Counted`), without which `pmm_free` could write below the table. `ReservedKept` follows
because what callers and the stack have are together the pages of the map.

The properties of `Objects` speak of chains that are walked, one after the other through
words that serve several lists. The invariant says instead which set of nodes the list from
each head holds, once each (`Listed`): the full and partial slabs of each cache, the free
objects of each slab, the objects of each bucket. These sets are told apart by the counters of
the slabs and by what became of the objects, so two lists never share a node and a word
that changes belongs to one list (`ListedFrame`). What the code does to that list is a push
(`ListedPush`), a pop (`ListedPop`), taking out a node that is found by its predecessor
(`ListedUnlink`), or the chaining of a new slab (`CreatedListed`). A finite set of nodes bounds
the walk, so that it reaches NULL (`LinkedChain`). The refinement needs the order too: the
lemmas say what becomes of the sequence of nodes, and `EntriesOf`, what a look-up of a key meets
in its bucket, is a choice from it. Adding puts the new object first; removing takes the
first of its key, whatever lies between, and the choice of any other key does not see it
(`ChosenTail`, `ChosenTwice`). Every step is the step of `KeyedStore` with its name. The bound on
the additions plays no part in these proofs.

The address spaces use these lemmas. `Typed` says what a call carries at each place
and that the maps are ordered, which is all that `Taken`, the effect both
allocations have in common, needs. `LocksInv` adds to `LocksInOrder` that a call in
front of the lock of the shared regions is one of theirs: otherwise a call could take
that lock and not be known to hold it. `SpaceInv` adds to `SpaceApart` that the region
of a call in the loop over its pages is one given away, of which it has pages left;
so the entry it writes lies in that region. It needs that a call begins the loop at the
first page.

`SharedByTwo` needs that one call at most is accepting a region, that its page is mapped at
most once until that call maps it again (`TwoInv`), and that the page of a region being
created is mapped for its creator at most (`CreatedMapped`). `FramesOnce` is about
sizes: the uses of the frames (`InUse`) are finite sets, which share no frame because
each frame has a witness of its use (`Uses`), so that the size of their union is the sum of
their sizes; and the entries left plus the lengths of the maps stay what they were
(`EntriesInv`, with `AllocEntries` and `AllocAtEntries` for the lengths). `FramesKept`, an
action property, follows step by step from the same invariant: a step that drops a
frame's use gives it another, or has just failed.

`ScreenShown` compares two ways to find a cell's character: the code's, which moves cells, and
the layout's, which looks for the last character written to a place of an endless page.
That the code agrees with the layout after one character more is `PutLaysOut`. The page's
places do not move when a text grows (`PlacesAppend`), so that a cell changes only where the
character goes (`ShownAppend`); the last row is empty after a scroll because nothing is
written below the last place (`PlacesAbove`, `ShownBelow`). A whole line of the kernel follows
along its characters (`PrintedLaysOut`). Of the system, `ScreenInv` says that texts are made of
characters wherever they wait, that a line being printed is still in the report, and that
nothing is drawn before the driver runs; the rest of `ScreenShowsTexts` is inductive as it
stands.

`AnswersOnce` counts the places of a request, and so does its proof. `CountsIn` adds the answers
on a port, the messages anywhere that ask for one there, and the port's places in the lists of
the manager and in the drivers' queues. Sending, taking, queueing and dropping change it by one at
most, whatever else the lists hold (`PortPut`, `WaitsPut`, `RequestsPut`, with the lemmas of
`ListProofs` on counting); a loop that answers a whole list, as after an announcement, follows by
induction over the list (`PortSendAll`). A server's step leaves the count of every port as it is
(`CountsKept`), or lowers the one whose request it drops and notes that in `failed` (`Refusing`);
a client's step changes the count of its own port only (`OthersKept`). Besides the counts
(`Counted`) `OnceInv` needs what makes them the right ones. `MailFits` says that ports which
messages carry have been created, so that nothing waits for a new one, that only answers and
errors reach a client's own port, so that nothing is lost when it is deleted, and that an
asynchronous client is sent an answer only after it has opened its device, so that there is a
port for its next read; `ListsFit` the same of the lists, `PortsFit` that the ports of the
servers stay, and `ClientsFit` that no two clients have the same port. Ports that got
an error meant for somebody else are left out, as in the property.

`TextsInOrder` follows from three invariants of their own. `Dialogue` says that init and the
terminal take turns: while init waits, exactly one of its question, the write at the screen, the
read that waits for a key and the answer exists, and it is of the kind init waits for. So at most
one text of init is on its way, and `Flow` can say that what is drawn, what the driver has left
and what is unsent are, one after the other, what should be drawn. The report is followed line by
line, which needs that joining lists can be done from the front (`FlattenHead`). `Codes` says that the
keyboard has at most one code in the terminal's port, so that the terminal reads codes in the order in
which they were sent, that `lastCode` is the one before the next, and that the characters given
to init, with the one on its way, come from codes read so far, at growing places (`Stems`). That
`KeysMeant` picks the same codes by counting is `StemsWithin`, on `RankProperties`. What `printf` makes
of a line is a hypothesis, not a result: its numbers are an induction over numbers.

`KeysInOrder` holds because of what `Keys` says: the keys a client has read, the one that was
handed to it and that it has not read, the buffer of the driver and the key in the controller are,
one after the other, the keys typed (`Spread`). A read that waits finds an empty buffer, so that a
key is handed over past nothing. As in the property, this is so until the buffer holds two bytes
(`crowded`), and for a client to whose port no error went that was meant for somebody else.
`Keys` needs to know who gets what; these invariants together are `Serviced`:

* `Suiting`: a client is led to a device of the type it looks for, through the announcement, the
  manager's lists and the answer;
* `Connected`: no two clients have the same region, and the one who opened the keyboard is its
  first and only connection;
* `Proper`: requests come from clients that have opened the device and carry their connection and
  region; who uses the keyboard only reads; on the port of a client that has opened its device
  are answers to requests only, so that no other answer is taken for a key;
* `KeysTyped`: types, and that an asynchronous client never waits for an answer between requests;
* `Irqs`: at most one notice of the interrupt is on its way, to the keyboard's driver, and while
  it is, there is a key in the controller; so that no key is taken twice, and none that is not
  there.

That the reader's answer, call and request are not there together (`SolePlace`) comes from
the counting of `OnceInv`. Every step either is `Quiet`, which leaves keys and the reader's answers
alone, or moves one key (`MovesKey`): it is typed, goes from the controller to the buffer or to a
read that waits, from the buffer to a read, or is read.

Only model-checked: the `FormatsRender` of the instance, whose numbers are an induction; and
liveness, that of `Channel` included, which is out of the prover's reach with fairness.

## Findings

1. `kernel/src/proc/thread.c:125`: `thread_exit` puts the cleaner into the ready
   queue although it may be there already, which drops the threads behind it
   (`threads_lost`).
2. `kernel/src/mm/map.c:245`: `memory_map_alloc` unlinks an exactly fitting region
   through the item before it, and the first of the list has none
   (`addrspace_fault`). The runs of `physmem` and `addrspace` halt there.

Modelled, without a run of their own:

* `kernel/src/ipc/port.c:160`: the comment says "make sure no one is waiting on this port
  ...", the code prints a line and frees the port; a receiver that was woken and has not looked
  yet is not even noticed (`Unlist`, `Stray`). The callers in the repository
  (`lib/devman/src/client/device.c`) delete ports on which only their own thread receives.
* `kernel/src/ipc/port.c:60`: `m->next` is read after `m` was freed, with interrupts on
  (`Follow`; `Recycle` and `Store` make the reader stale). A client that took a stray error for its
  answer deletes its port with the answer queued, so the loop does run.
* `servers/devman/src/main.c:79`: the answer to a look-up that waited does not set the word
  that `device_lookup` takes for the identifier (`LookupFinds` of `Devices` fails).
* `kernel/src/ipc/server.c:57`: names of 32 characters or more are compared in full with
  a cut copy, so that their waiters sleep on (`Stored` of `Server`).
* `lib/devman/src/server/device.c:109` and `:219`: errors are sent to the wrong port;
  `drivers/input/ps2/src/main.c:62`: the buffer moves the wrong bytes (both `Devices`).
* `Irq`: the surplus order of `sched_yield`, the lines nobody ends, as described above.

## Plan

1. `MemoryMap` in bytes, for a firmware whose regions end within a page.
2. `Devices` further: several devices per driver.

## Not modelled

The boot code, descriptor tables and the page table layout: sequential set-up and
hardware description; the specifications use their result (the initial state, the
interrupt flag, the mapping or its failure). The serial line repeats what the kernel's
screen shows. Of the C library, the system call stubs, which only pass registers, string
functions and start-up code. Of the ELF loader, the parsing of headers. `vmm_copy_to` and
`vmm_clear`, which only the boot code calls, change no state of the model. The creation of
threads while others run: only the boot code creates any.
