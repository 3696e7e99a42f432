------------------------------- MODULE Devices -------------------------------
(***************************************************************************)
(* Devices in user space: the device manager (servers/devman), the library *)
(* of the drivers and of their clients (lib/devman), the keyboard driver   *)
(* (drivers/input/ps2) with its interrupt, and drivers like the screen and *)
(* the pseudo terminals.  They talk through ports only; a port is a queue  *)
(* of messages here, which is what Port implements.                        *)
(*                                                                         *)
(* Each process handles one message after the other, so handling one is a  *)
(* step.  A driver has one device, which has identifier 0; a region of      *)
(* shared memory is there and accepted once.  Reads are of one byte, and    *)
(* requests are what the programs here send: no write to the keyboard.  A   *)
(* word of a message that nobody set holds any of the values Garbage.       *)
(***************************************************************************)
EXTENDS Integers, SequencesExt, FiniteSets, FiniteSetsExt, Lists

CONSTANTS
    Driver, Type,              \* types: "INPUT", "PTY" or "SCREEN"
    SyncClient, AsyncClient,
    LocalPort,                 \* port of each driver and asynchronous client
    NoKey,                     \* what a page held before
    Garbage,
    ShmemBefore,               \* regions that others have created before
    MaxPort,                   \* bound: ports ever created
    MaxWaiters, MaxConns,      \* structures the caches can supply: per process
    MaxRequests,
    MaxAsync,                  \* bound: reads an asynchronous client asks for at once
    MaxKeys                    \* bound: keys pressed

Client == SyncClient \cup AsyncClient
ManagerPort == 0
NoPort == -1

ASSUME DeviceAssumption ==
    /\ Type \subseteq {"INPUT", "PTY", "SCREEN"}
    /\ IsInjective(LocalPort) /\ DOMAIN LocalPort = Driver \cup AsyncClient
    /\ Range(LocalPort) = 1 .. Cardinality(Driver \cup AsyncClient)
    /\ IsFiniteSet(Driver \cup AsyncClient)
    /\ SyncClient \cap AsyncClient = {}
    /\ NoKey \notin 1 .. MaxKeys
    /\ Garbage \subseteq Nat /\ Garbage # {}
    /\ ShmemBefore \subseteq Nat /\ ShmemBefore # {}
    /\ \A n \in {MaxPort, MaxWaiters, MaxConns, MaxRequests, MaxAsync, MaxKeys} : n \in Nat

VARIABLES
    room,      \* request structures the cache of a driver supplies
    typeOf, wants, \* the type of each driver's device, and of the one a client uses
    box,       \* the ports there are: to the messages on them
    nextPort, nextShmem,
    known,     \* the manager's devices of each type, newest first
    waiters,   \* ports to answer when one of the type turns up, newest first
    announced, \* drivers that have announced their device
    conns,     \* shared region of each connection of a driver
    pending,   \* requests of a device: the current one, then the queue
    irqPort,   \* where the keyboard's interrupt is sent
    byte,      \* what the keyboard controller holds, and whether it was signalled
    inService, \* the interrupt controller is serving the keyboard's line
    buffer,    \* bytes of the driver's buffer in use
    data,      \* first byte of each shared region
    client,
    reads,     \* of an asynchronous client: current read, and reads queued
    typed, got, \* history: keys pressed, bytes each client read
    crowded,   \* history: there were two bytes in the buffer
    failed     \* history: whose requests failed, and the port the error was sent to

managerVars == << known, waiters >>
driverVars == << announced, conns, pending >>
keyVars == << irqPort, byte, inService, buffer, typed, crowded >>
clientVars == << client, reads, got, nextPort, nextShmem >>
setting == << room, typeOf, wants >>
deviceVars == << box, managerVars, driverVars, keyVars, data, clientVars, failed, setting >>

DeviceInit ==
    /\ room \in 1 .. MaxRequests
    /\ typeOf \in [Driver -> Type] /\ wants \in [Client -> Range(typeOf)]
    /\ box = [p \in 0 .. Cardinality(Driver \cup AsyncClient) |-> << >>]
    /\ nextPort = Cardinality(Driver \cup AsyncClient) + 1
    /\ nextShmem \in ShmemBefore
    /\ known = [y \in Type |-> << >>] /\ waiters = [y \in Type |-> << >>]
    /\ announced = {}
    /\ conns = [d \in Driver |-> << >>] /\ pending = [d \in Driver |-> << >>]
    /\ irqPort = NoPort
    /\ byte = [key |-> NoKey, signalled |-> FALSE] /\ inService = FALSE
    /\ buffer = << >> /\ crowded = FALSE
    /\ data = << >>
    /\ client = [c \in Client |-> [pc |-> "idle"]]
    /\ reads = [c \in AsyncClient |-> [current |-> 0, queued |-> 0]]
    /\ typed = << >> /\ got = [c \in Client |-> << >>]
    /\ failed = {}

-----------------------------------------------------------------------------
(* Ports. *)

\* A message for a port that does not exist is dropped; nobody looks.
Sent(b, p, m) == IF p \in DOMAIN b THEN [b EXCEPT ![p] = Append(@, m)] ELSE b

SentAll(b, envelopes) ==
    LET sent[i \in 0 .. Len(envelopes)] ==
          IF i = 0 THEN b ELSE Sent(sent[i - 1], envelopes[i].to, envelopes[i].msg)
    IN  sent[Len(envelopes)]

Received(p) == [box EXCEPT ![p] = Tail(@)]

Arrived(p, kind) == p \in DOMAIN box /\ box[p] # << >> /\ Head(box[p]).kind = kind

Error == [kind |-> "error"]

\* A word that nobody set, and that only a failure reads.
Unset == -1

-----------------------------------------------------------------------------
(* The device manager. *)

\* The waiters are told the port of the device; the word for its identifier is
\* not set.
ManagerAnnounce ==
    /\ Arrived(ManagerPort, "announce")
    /\ LET m == Head(box[ManagerPort])
           device == [port |-> m.port, id |-> m.id]
       IN  /\ known' = [known EXCEPT ![m.type] = << device >> \o @]
           /\ waiters' = [waiters EXCEPT ![m.type] = << >>]
           /\ \E g \in Garbage :
                box' = SentAll(Received(ManagerPort),
                               [i \in DOMAIN waiters[m.type] |->
                                  [to |-> waiters[m.type][i],
                                   msg |-> [kind |-> "found", port |-> m.port, id |-> g]]])
    /\ UNCHANGED << driverVars, keyVars, data, clientVars, failed, setting >>

\* There is no memory for the structure of the device: nobody learns of it.
ManagerForgets ==
    /\ Arrived(ManagerPort, "announce")
    /\ box' = Received(ManagerPort)
    /\ UNCHANGED << managerVars, driverVars, keyVars, data, clientVars, failed, setting >>

WaiterLeft == MapThenSumSet(LAMBDA y : Len(waiters[y]), Type) < MaxWaiters

ManagerLookup ==
    /\ Arrived(ManagerPort, "lookup")
    /\ LET m == Head(box[ManagerPort])
           devices == known[m.type]
           rest == Received(ManagerPort)
       IN  \/ /\ devices # << >>
              /\ box' = Sent(rest, m.port, [kind |-> "found", port |-> Head(devices).port,
                                            id |-> Head(devices).id])
              /\ UNCHANGED waiters
           \/ /\ devices = << >> /\ m.wait /\ WaiterLeft
              /\ waiters' = [waiters EXCEPT ![m.type] = << m.port >> \o @]
              /\ box' = rest
           \/ /\ devices = << >> /\ ~(m.wait /\ WaiterLeft)
              /\ box' = Sent(rest, m.port, Error)
              /\ UNCHANGED waiters
    /\ UNCHANGED << known, driverVars, keyVars, data, clientVars, failed, setting >>

\* Any other message is ignored.
ManagerIgnore ==
    /\ Arrived(ManagerPort, "error")
    /\ box' = Received(ManagerPort)
    /\ UNCHANGED << managerVars, driverVars, keyVars, data, clientVars, failed, setting >>

Manager == ManagerAnnounce \/ ManagerForgets \/ ManagerLookup \/ ManagerIgnore

-----------------------------------------------------------------------------
(* Drivers: announcing the device, then one message after the other. *)

Announce(d) ==
    /\ d \notin announced
    /\ announced' = announced \cup {d}
    /\ box' = Sent(box, ManagerPort, [kind |-> "announce", type |-> typeOf[d],
                                      port |-> LocalPort[d], id |-> 0])
    /\ UNCHANGED << managerVars, conns, pending, keyVars, data, clientVars, failed, setting >>

Handles(d, kind) == d \in announced /\ Arrived(LocalPort[d], kind)

\* No such device, no memory, or the keyboard has its one user already.
CanOpen(d, m) ==
    /\ m.id = 0
    /\ Len(conns[d]) < MaxConns
    /\ typeOf[d] = "INPUT" => irqPort = NoPort

\* do_open.  A failure is reported to the port that has the number of the
\* shared region.
HandleOpen(d) ==
    /\ Handles(d, "open")
    /\ LET m == Head(box[LocalPort[d]])
           rest == Received(LocalPort[d])
       IN  \/ /\ CanOpen(d, m)
              /\ conns' = [conns EXCEPT ![d] = Append(@, m.shmem)]
              /\ irqPort' = IF typeOf[d] = "INPUT" THEN LocalPort[d] ELSE irqPort
              /\ box' = Sent(rest, m.port, [kind |-> "opened", conn |-> Len(conns[d]) + 1])
              /\ UNCHANGED failed
           \/ /\ ~CanOpen(d, m)
              /\ box' = Sent(rest, m.shmem, Error)
              /\ failed' = failed \cup {[of |-> m.port, to |-> m.shmem]}
              /\ UNCHANGED << conns, irqPort >>
    /\ UNCHANGED << managerVars, announced, pending, byte, inService, buffer, typed, crowded,
                    data, clientVars, setting >>

\* device_request_finished.
Answer(r) == [to |-> r.port, msg |-> [kind |-> "done", op |-> r.op, p |-> r.p]]

\* What perform_request finishes before it returns: reads of buffered keys, writes.
AtOnce(d, r) ==
    \/ r.op = "READ" /\ typeOf[d] = "INPUT" /\ buffer # << >>
    \/ r.op = "WRITE" /\ typeOf[d] \in {"PTY", "SCREEN"}

\* Mutant: the byte stays in the buffer.
ReadKeyAgain(r, b) ==
    /\ data' = [data EXCEPT ![r.shmem] = b[1]]
    /\ buffer' = b

\* do_read_request, with b in the buffer: what moves up are the bytes of the
\* region, not those of the buffer.
ReadKey(r, b) ==
    /\ data' = [data EXCEPT ![r.shmem] = IF Len(b) = 1 THEN b[1] ELSE NoKey]
    /\ buffer' = Front(b)

\* A request is answered at once, queued, or dropped for want of memory, with an
\* error for the port in a word that asynchronous clients only use, for
\* something else.
HandleRequest(d) ==
    /\ Handles(d, "request")
    /\ LET m == Head(box[LocalPort[d]])
           rest == Received(LocalPort[d])
           r == [op |-> m.op, port |-> m.port, p |-> m.p, shmem |-> conns[d][m.conn]]
           busy == pending[d] # << >>
       IN  \/ /\ Len(pending[d]) < room
              /\ ~busy /\ AtOnce(d, r)
              /\ box' = Sent(rest, r.port, Answer(r).msg)
              /\ IF r.op = "READ" THEN ReadKey(r, buffer) ELSE UNCHANGED << data, buffer >>
              /\ UNCHANGED << pending, failed >>
           \/ /\ Len(pending[d]) < room
              /\ busy \/ ~AtOnce(d, r)
              /\ pending' = [pending EXCEPT ![d] = Append(@, r)]
              /\ box' = rest
              /\ UNCHANGED << data, buffer, failed >>
           \/ /\ Len(pending[d]) = room
              /\ \E p \in IF m.p = Unset THEN Garbage ELSE {m.p} :
                    /\ box' = Sent(rest, p, Error)
                    /\ failed' = failed \cup {[of |-> m.port, to |-> p]}
              /\ UNCHANGED << pending, data, buffer >>
    /\ UNCHANGED << managerVars, announced, conns, irqPort, byte, inService, typed, crowded,
                    clientVars, setting >>

HandleIgnore(d) ==
    /\ Handles(d, "error")
    /\ box' = Received(LocalPort[d])
    /\ UNCHANGED << managerVars, driverVars, keyVars, data, clientVars, failed, setting >>

\* device_request_finished goes on with the queue: how many requests end with the
\* current one.
EndTogether(d) ==
    LET stay == {i \in DOMAIN pending[d] : i > 1 /\ ~AtOnce(d, pending[d][i])}
    IN  IF stay = {} THEN Len(pending[d]) ELSE Min(stay) - 1

\* Input for the active terminal ends the current request, a read.
InputAvailable(d) ==
    /\ typeOf[d] = "PTY" /\ pending[d] # << >>
    /\ LET n == EndTogether(d)
       IN  /\ box' = SentAll(box, [i \in 1 .. n |-> Answer(pending[d][i])])
           /\ pending' = [pending EXCEPT ![d] = SubSeq(@, n + 1, Len(@))]
    /\ UNCHANGED << managerVars, announced, conns, keyVars, data, clientVars, failed, setting >>

-----------------------------------------------------------------------------
(* The keyboard.  Its controller holds one byte and signals it once, as soon   *)
(* as somebody registered for the interrupt and the interrupt controller has  *)
(* been told of the end of the last one.                                     *)

KeyPressed ==
    /\ byte.key = NoKey
    /\ Len(typed) < MaxKeys
    /\ typed' = Append(typed, Len(typed) + 1)
    /\ byte' = [key |-> Len(typed) + 1, signalled |-> FALSE]
    /\ UNCHANGED << box, managerVars, driverVars, irqPort, inService, buffer, crowded, data,
                    clientVars, failed, setting >>

KeyInterrupt ==
    /\ byte.key # NoKey /\ ~byte.signalled
    /\ irqPort # NoPort
    /\ ~inService /\ inService' = TRUE
    /\ box' = Sent(box, irqPort, [kind |-> "irq"])
    /\ byte' = [byte EXCEPT !.signalled = TRUE]
    /\ UNCHANGED << managerVars, driverVars, irqPort, buffer, typed, crowded, data, clientVars,
                    failed, setting >>

\* An order to end that was meant for another line, or for none (module Irq), ends
\* the keyboard's.
EndedEarly ==
    /\ inService /\ inService' = FALSE
    /\ UNCHANGED << box, managerVars, driverVars, irqPort, byte, buffer, typed, crowded, data,
                    clientVars, failed, setting >>

\* Mutant: ps2_handler leaves the end of the interrupt out.
FinishedNever == UNCHANGED inService

\* irq_finished: no line in service is more urgent, so that the order ends this one.
Finished == inService' = FALSE

\* ps2_handler.  A read that waits finds no other byte in the buffer, so that
\* one behind it goes on waiting.  Then the interrupt is finished.
HandleInterrupt(d) ==
    /\ Handles(d, "irq")
    /\ LET b == Append(buffer, byte.key)
           rest == Received(LocalPort[d])
       IN  /\ crowded' = (crowded \/ Len(b) > 1)
           /\ IF pending[d] = << >>
              THEN buffer' = b /\ box' = rest /\ UNCHANGED << pending, data >>
              ELSE /\ ReadKey(Head(pending[d]), b)
                   /\ box' = Sent(rest, Head(pending[d]).port, Answer(Head(pending[d])).msg)
                   /\ pending' = [pending EXCEPT ![d] = Tail(@)]
    /\ byte' = [key |-> NoKey, signalled |-> FALSE]
    /\ Finished
    /\ UNCHANGED << managerVars, announced, conns, irqPort, typed, clientVars,
                    failed, setting >>

DriverStep(d) == HandleOpen(d) \/ HandleRequest(d) \/ HandleIgnore(d) \/ HandleInterrupt(d)

-----------------------------------------------------------------------------
(* Clients: device_lookup, device_open, device_read, device_write. *)

\* The port created last, and a message to another.
Asked(p, m) ==
    /\ nextPort < MaxPort
    /\ nextPort' = nextPort + 1
    /\ box' = Sent([q \in DOMAIN box \cup {nextPort} |->
                      IF q = nextPort THEN << >> ELSE box[q]], p, m)

Without(p) == Restrict(box, DOMAIN box \ {p})

Answered(c) == box[client[c].reply] # << >>

Lookup(c) ==
    /\ client[c].pc = "idle"
    /\ \E w \in BOOLEAN :
         Asked(ManagerPort, [kind |-> "lookup", type |-> wants[c], wait |-> w, port |-> nextPort])
    /\ client' = [client EXCEPT ![c] = [pc |-> "lookup", reply |-> nextPort]]
    /\ UNCHANGED << managerVars, driverVars, keyVars, data, reads, got, nextShmem,
                    failed, setting >>

LookupAnswered(c) ==
    /\ client[c].pc = "lookup" /\ Answered(c)
    /\ LET m == Head(box[client[c].reply])
       IN  client' = [client EXCEPT ![c] = IF m.kind = "found"
                                          THEN [pc |-> "found", port |-> m.port, id |-> m.id]
                                          ELSE [pc |-> "idle"]]
    /\ box' = Without(client[c].reply)
    /\ UNCHANGED << managerVars, driverVars, keyVars, data, reads, got, nextPort, nextShmem,
                    failed, setting >>

Open(c) ==
    /\ client[c].pc = "found"
    /\ Asked(client[c].port, [kind |-> "open", id |-> client[c].id, shmem |-> nextShmem,
                              port |-> nextPort])
    /\ nextShmem' = nextShmem + 1
    /\ data' = [s \in DOMAIN data \cup {nextShmem} |-> IF s = nextShmem THEN NoKey ELSE data[s]]
    /\ client' = [client EXCEPT ![c] = [pc |-> "opening", port |-> client[c].port,
                                        shmem |-> nextShmem, reply |-> nextPort]]
    /\ UNCHANGED << managerVars, driverVars, keyVars, reads, got, failed, setting >>

OpenAnswered(c) ==
    /\ client[c].pc = "opening" /\ Answered(c)
    /\ LET m == Head(box[client[c].reply])
       IN  IF m.kind = "opened"
           THEN /\ client' = [client EXCEPT ![c] = [pc |-> "open", port |-> @.port, conn |-> m.conn,
                                                    shmem |-> @.shmem, reply |-> @.reply]]
                /\ box' = Received(client[c].reply)
           ELSE /\ client' = [client EXCEPT ![c] = [pc |-> "idle"]]
                /\ box' = Without(client[c].reply)
    /\ UNCHANGED << managerVars, driverVars, keyVars, data, reads, got, nextPort, nextShmem,
                    failed, setting >>

\* What the callers do with a device of each type.
Uses(type) ==
    (IF type # "SCREEN" THEN {"READ"} ELSE {}) \cup (IF type # "INPUT" THEN {"WRITE"} ELSE {})

Requested(c, op, port, p) ==
    [kind |-> "request", op |-> op, conn |-> client[c].conn, port |-> port, p |-> p]

SendRequest(c) ==
    /\ c \in SyncClient
    /\ client[c].pc = "open"
    /\ \E op \in Uses(wants[c]) :
         box' = Sent(box, client[c].port, Requested(c, op, client[c].reply, Unset))
    /\ client' = [client EXCEPT ![c].pc = "waiting"]
    /\ UNCHANGED << managerVars, driverVars, keyVars, data, reads, got, nextPort, nextShmem,
                    failed, setting >>

\* The bytes of the keyboard are followed, those of the other devices are not.
Read(c) ==
    got' = IF wants[c] = "INPUT" THEN [got EXCEPT ![c] = Append(@, data[client[c].shmem])] ELSE got

\* Whatever arrives is taken for the answer.
RequestAnswered(c) ==
    /\ client[c].pc = "waiting" /\ Answered(c)
    /\ Read(c)
    /\ client' = [client EXCEPT ![c].pc = "open"]
    /\ box' = Received(client[c].reply)
    /\ UNCHANGED << managerVars, driverVars, keyVars, data, reads, nextPort, nextShmem,
                    failed, setting >>

-----------------------------------------------------------------------------
(* Asynchronous reads: the current one has been sent, others wait for it. *)

ReadAsync(c) ==
    /\ c \in AsyncClient
    /\ client[c].pc = "open"
    /\ reads[c].current + reads[c].queued < MaxAsync
    /\ IF reads[c].current = 0
       THEN /\ reads' = [reads EXCEPT ![c].current = 1]
            /\ box' = Sent(box, client[c].port, Requested(c, "READ", LocalPort[c], c))
       ELSE reads' = [reads EXCEPT ![c].queued = @ + 1] /\ UNCHANGED box
    /\ UNCHANGED << managerVars, driverVars, keyVars, data, client, got, nextPort, nextShmem,
                    failed, setting >>

\* Mutant: the read that ends is not the current one any more when the callback
\* asks for the next, which is then sent at once, and so is a queued one.
CompleteTwice(c) ==
    /\ c \in AsyncClient
    /\ Arrived(LocalPort[c], "done")
    /\ Read(c)
    /\ LET rest == Sent(Received(LocalPort[c]), client[c].port,
                        Requested(c, "READ", LocalPort[c], c))
       IN  IF reads[c].queued = 0
           THEN box' = rest /\ UNCHANGED reads
           ELSE /\ box' = Sent(rest, client[c].port, Requested(c, "READ", LocalPort[c], c))
                /\ reads' = [reads EXCEPT ![c].queued = @ - 1]
    /\ UNCHANGED << managerVars, driverVars, keyVars, data, client, nextPort, nextShmem,
                    failed, setting >>

\* complete_request.  The callback asks for the next byte, which is queued behind
\* the read that is just ending; then the first of the queue is sent.
Complete(c) ==
    /\ c \in AsyncClient
    /\ Arrived(LocalPort[c], "done")
    /\ Read(c)
    /\ LET queued == reads[c].queued + 1
       IN  reads' = [reads EXCEPT ![c].queued = queued - 1]
    /\ box' = Sent(Received(LocalPort[c]), client[c].port, Requested(c, "READ", LocalPort[c], c))
    /\ UNCHANGED << managerVars, driverVars, keyVars, data, client, nextPort, nextShmem,
                    failed, setting >>

AsyncIgnore(c) ==
    /\ c \in AsyncClient
    /\ Arrived(LocalPort[c], "error")
    /\ box' = Received(LocalPort[c])
    /\ UNCHANGED << managerVars, driverVars, keyVars, data, clientVars, failed, setting >>

-----------------------------------------------------------------------------
Continue(c) ==
    LookupAnswered(c) \/ OpenAnswered(c) \/ RequestAnswered(c) \/ Complete(c) \/ AsyncIgnore(c)

DeviceNext ==
    \/ Manager
    \/ \E d \in Driver : Announce(d) \/ DriverStep(d) \/ InputAvailable(d)
    \/ KeyPressed \/ KeyInterrupt \/ EndedEarly
    \/ \E c \in Client : Lookup(c) \/ Open(c) \/ SendRequest(c) \/ ReadAsync(c) \/ Continue(c)

DeviceSpec == DeviceInit /\ [][DeviceNext]_deviceVars

\* Processes go on with the messages they have, which the scheduler and the ports
\* see to; an interrupt that is enabled comes.
FairDeviceSpec ==
    /\ DeviceSpec
    /\ WF_deviceVars(Manager) /\ WF_deviceVars(KeyInterrupt)
    /\ \A d \in Driver : WF_deviceVars(DriverStep(d))
    /\ \A c \in Client : WF_deviceVars(Continue(c))

-----------------------------------------------------------------------------
(* Properties. *)

DevicesTyped ==
    /\ DOMAIN box \subseteq 0 .. nextPort - 1 /\ nextPort <= MaxPort
    /\ Range(LocalPort) \cup {ManagerPort} \subseteq DOMAIN box
    /\ \A y \in Type : ToSet(waiters[y]) \subseteq DOMAIN box
    /\ announced \subseteq Driver
    /\ \A d \in Driver :
          /\ Len(conns[d]) <= MaxConns /\ Len(pending[d]) <= MaxRequests
          /\ ToSet(conns[d]) \subseteq DOMAIN data
    /\ irqPort \in {NoPort} \cup {LocalPort[d] : d \in Driver}
    /\ byte.signalled => byte.key # NoKey
    /\ inService \in BOOLEAN
    /\ \A d \in Driver : typeOf[d] = "INPUT" /\ pending[d] # << >> => buffer = << >>
    /\ \A c \in AsyncClient : reads[c].queued > 0 => reads[c].current = 1

\* Calls whose caller waits for an answer on the port that the message names.
Asking == {"lookup", "open", "request"}

\* What a process takes for an answer; a process that is not waiting ignores errors.
Answers(p) == {"found", "opened", "done"} \cup IF p \in Range(LocalPort) THEN {} ELSE {"error"}

\* Where the work for whoever waits on port p is: how many answers are there, how many
\* messages ask for one, how often p is among the waiters and in a queue of requests.
Whereabouts(p) ==
    LET answers == {i \in DOMAIN box[p] : box[p][i].kind \in Answers(p)}
        calls == {x \in Positions(box) : ItemAt(box, x).kind \in Asking /\ ItemAt(box, x).port = p}
        waits == {x \in Positions(waiters) : ItemAt(waiters, x) = p}
        requests == {x \in Positions(pending) : ItemAt(pending, x).port = p}
    IN  Cardinality(answers) + Cardinality(calls) + Cardinality(waits) + Cardinality(requests)

Refused == {f.of : f \in failed}

\* No error meant for somebody else was sent to the port where c waits.
Undisturbed(c) == client[c].reply \notin {f.to : f \in failed}

\* A client that waits has its request at one place, or its answer, unless it was
\* refused; one that does not wait has neither: no answer is ever left to be taken
\* for that of the next request.
AnswersOnce ==
    /\ \A c \in Client :
          /\ client[c].pc \in {"lookup", "opening", "waiting"} /\ Undisturbed(c) =>
                Whereabouts(client[c].reply) = IF client[c].reply \in Refused THEN 0 ELSE 1
          /\ client[c].pc = "open" /\ Undisturbed(c) => Whereabouts(client[c].reply) = 0
    /\ \A c \in AsyncClient :
          LocalPort[c] \notin Refused => Whereabouts(LocalPort[c]) = reads[c].current

\* As long as there were never two bytes in the driver's buffer, its reader gets
\* the keys in the order they were typed, none left out and none twice.
KeysInOrder ==
    \A c \in Client :
        (~crowded /\ got[c] # << >> /\ (c \in SyncClient => Undisturbed(c))) => IsPrefix(got[c], typed)

\* What was typed reaches the client that keeps reading.
KeysArrive ==
    \A c \in AsyncClient, n \in 1 .. MaxKeys :
        wants[c] = "INPUT" /\ reads[c].current = 1 /\ Len(typed) >= n ~> Len(got[c]) >= n

\* "Looks for the first device with the given type": what a look-up that succeeds
\* returns is such a device (lib/devman/include/libdevman/client/device.h).
LookupFinds ==
    \A c \in Client : client[c].pc = "found" =>
        [port |-> client[c].port, id |-> client[c].id] \in ToSet(known[wants[c]])
=============================================================================
