-------------------------------- MODULE Server -------------------------------
(***************************************************************************)
(* The registry of servers: a server registers its name and port, a client *)
(* looks a name up and may ask to sleep until it is registered.  The       *)
(* structures keep at most 31 characters of a name, Stored, while the      *)
(* comparisons take the name as the caller gave it.                        *)
(***************************************************************************)
EXTENDS Sched, Lists

CONSTANTS
    Name,       \* the names used, and the ones the structures may hold
    Stored,     \* what is left of each name in a structure
    Port,       \* identifiers of ports
    NotFound,   \* the result -1
    NoName,     \* no lookup
    MaxServers, \* structures s_server_cache can provide; they are never freed
    MaxWaiters  \* structures s_waiter_cache can provide

ASSUME ServerAssumption ==
    /\ Stored \in [Name -> Name] /\ \A n \in Name : Stored[Stored[n]] = Stored[n]
    /\ NotFound \notin Port
    /\ NoName \notin Name
    /\ MaxServers \in Nat /\ MaxWaiters \in Nat

VARIABLES
    servers,   \* s_server_table, the newest registration first
    waitlist,  \* s_waiters, the newest first
    sought,    \* the name of the lookup each thread is in
    answer,    \* the result of its last lookup
    announced  \* history: the registrations made, as the callers named them

serverVars == <<servers, waitlist, sought, answer, announced>>
vars == <<schedVars, serverVars>>

Waiter == [name : Name, waiter : Thread]

TypeOK ==
    /\ SchedTypeOK
    /\ servers \in Seq([name : Name, port : Port]) /\ Len(servers) <= MaxServers
    /\ waitlist \in Seq(Waiter) /\ Len(waitlist) <= MaxWaiters
    /\ sought \in [Thread -> Name \cup {NoName}]
    /\ answer \in [Thread -> Port \cup {NotFound}]
    /\ announced \subseteq [name : Name, port : Port]

Init ==
    /\ SchedInit
    /\ servers = <<>>
    /\ waitlist = <<>>
    /\ sought = [t \in Thread |-> NoName]
    /\ answer = [t \in Thread |-> NotFound]
    /\ announced = {}

-----------------------------------------------------------------------------
Known(n) == \E i \in DOMAIN servers : servers[i].name = n
PortOf(n) == servers[CHOOSE i \in DOMAIN servers :
                 /\ servers[i].name = n
                 /\ \A j \in 1 .. i - 1 : servers[j].name # n].port

\* A registration of name n for port p that takes the threads of woken off the
\* list, which becomes left, and wakes them in that order.
Enter(n, p, woken, left) ==
    /\ servers' = <<[name |-> Stored[n], port |-> p]>> \o servers
    /\ waitlist' = left
    /\ WakeUp([k \in DOMAIN woken |-> woken[k].waiter])
    /\ announced' = announced \cup {[name |-> n, port |-> p]}

\* The waiters for name n.
For(n) == [name : {n}, waiter : Thread]

\* Mutant: a waiter is woken but stays on the list.
NotifyKeeps(n, p) == Enter(n, p, Chosen(waitlist, For(n)), waitlist)

\* Mutant: the walk stops at the first waiter for the name.
NotifyFirst(n, p) ==
    LET found == Chosen(waitlist, For(n))
    IN  IF found = <<>> THEN Enter(n, p, <<>>, waitlist)
        ELSE Enter(n, p, <<Head(found)>>, Chosen(waitlist, Waiter \ {Head(found)}))

\* Mutant: the names are not compared.
NotifyEverybody(n, p) == Enter(n, p, waitlist, <<>>)

\* The walk over s_waiters: every waiter for the name leaves the list and is
\* woken, in the order of the list.
Notify(n, p) ==
    Enter(n, p, Chosen(waitlist, For(n)), Chosen(waitlist, Waiter \ For(n)))

\* sys_ipc_server_register: enter the server and notify the waiters.
Register(t) ==
    /\ current = t /\ sought[t] = NoName
    /\ Len(servers) < MaxServers
    /\ \E n \in Name, p \in Port : Notify(n, p)
    /\ UNCHANGED <<current, intr, sought, answer>>

\* The lookup of t ends with this result.
Answer(t, result) ==
    /\ answer' = [answer EXCEPT ![t] = result]
    /\ sought' = [sought EXCEPT ![t] = NoName]
    /\ intr' = [intr EXCEPT ![t] = TRUE]
    /\ UNCHANGED <<state, ready, current, waitlist>>

\* The loop of sys_ipc_server_lookup for name n: answer if it is known, or if
\* no structure is left to wait with; else join the list and sleep.
FindOrWait(t, n) ==
    IF Known(n) THEN Answer(t, PortOf(n))
    ELSE IF Len(waitlist) >= MaxWaiters THEN Answer(t, NotFound)
    ELSE /\ waitlist' = <<[name |-> Stored[n], waiter |-> t]>> \o waitlist
         /\ sought' = [sought EXCEPT ![t] = n]
         /\ Sleep
         /\ UNCHANGED answer

\* sys_ipc_server_lookup, with and without the wait flag.
Lookup(t) ==
    /\ current = t /\ sought[t] = NoName
    /\ \E n \in Name :
         \/ FindOrWait(t, n)
         \/ Answer(t, IF Known(n) THEN PortOf(n) ELSE NotFound)
    /\ UNCHANGED <<servers, announced>>

\* The thread was woken and looks again.
Recheck(t) ==
    /\ current = t /\ sought[t] # NoName
    /\ FindOrWait(t, sought[t])
    /\ UNCHANGED <<servers, announced>>

-----------------------------------------------------------------------------
Next ==
    \/ Preempt /\ UNCHANGED serverVars
    \/ \E t \in Thread : Register(t) \/ Lookup(t) \/ Recheck(t)

\* The timer keeps ticking, and a woken thread goes on with its lookup.
Fairness ==
    /\ WF_vars(Preempt /\ UNCHANGED serverVars)
    /\ \A t \in Thread : WF_vars(Recheck(t))

Spec == Init /\ [][Next]_vars
FairSpec == Spec /\ Fairness

-----------------------------------------------------------------------------
(* Properties *)

\* A sleeping thread is on the list once, with the name it looks up; nobody else
\* is on it, so a registration never wakes a thread that is not asleep.
ThreadPlacement ==
    /\ Placement
    /\ \A i, j \in DOMAIN waitlist : waitlist[i].waiter = waitlist[j].waiter => i = j
    /\ \A i \in DOMAIN waitlist : state[waitlist[i].waiter] = "SLEEPING"
    /\ \A t \in Thread : state[t] = "SLEEPING" =>
         /\ sought[t] # NoName
         /\ \E i \in DOMAIN waitlist : /\ waitlist[i].waiter = t
                                       /\ waitlist[i].name = Stored[sought[t]]

\* Nobody sleeps for a server that has registered.
SleepersUnregistered ==
    \A t \in Thread : state[t] = "SLEEPING" =>
      \A a \in announced : a.name # sought[t]

\* A lookup that waits for a server answers once the server has registered.
LookupAnswers ==
    \A t \in Thread, n \in Name :
      sought[t] = n /\ (\E a \in announced : a.name = n) ~> sought[t] # n

\* A woken thread finds the server it waited for, if it was woken at all: the
\* list holds no name that is registered.
WokenFindTheirs ==
    \A t \in Thread : sought[t] # NoName /\ state[t] # "SLEEPING" => Known(sought[t])
=============================================================================
