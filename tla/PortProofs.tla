----------------------------- MODULE PortProofs ------------------------------
(***************************************************************************)
(* Invariance proofs for Port.  The inductive invariant grows by layers,   *)
(* each proved from the ones before it:                                    *)
(*   Typed      TypeOK and what the locals of a system call hold;          *)
(*   Owned      Typed, and who owns each port structure (PortOwnership);   *)
(*              a receiver that is not stale waits on a port of the table; *)
(*   Placed     Owned and ThreadPlacement;                                 *)
(*   Conserved  who owns each message structure (MessageOwnership), where  *)
(*              Owned holds;                                               *)
(* NoLostWakeup follows by counting the woken receivers of a port, and     *)
(* last the refinement of Channel: Mapped adds to Owned and Conserved that *)
(* no identifier beyond the channel's is given out (IdsSuffice).           *)
(***************************************************************************)
EXTENDS Port, SchedProofs

Places == {"user", "insert", "wait", "copy", "release", "free", "next", "destroy"}
WithMsg == {"copy", "release", "free", "next"}

\* What each place of a system call keeps in its local variables.
LocalsOK ==
    \A t \in Thread :
      /\ pc[t] # "user" => port[t] \in PortSlot
      /\ pc[t] \in WithMsg => msg[t] \in MsgSlot
      /\ pc[t] \notin WithMsg => msg[t] = NoMsg
      /\ t \in stale => pc[t] \in {"wait", "next"}

Typed == TypeOK /\ LocalsOK

\* A step of a thread that is not stale.
Acts(t) == t \notin stale /\ (Continue(t) \/ Call(t))

LEMMA Steps ==
    ASSUME [Next]_vars
    PROVE  \/ Preempt /\ UNCHANGED portVars
           \/ IrqSend
           \/ \E t \in Thread : Acts(t) \/ Recycle(t)
           \/ UNCHANGED vars
<1>1. ASSUME NEW t \in Thread, Continue(t) PROVE current = t
  BY <1>1 DEF Continue, Insert, Recheck, Copy, Release, FreeMessage, Follow, Destroy, At
<1>2. ASSUME NEW t \in Thread, Call(t) PROVE current = t
  BY <1>2 DEF Call, Create, ThreadSend, Receive, Delete, Unlist, At
<1>3. ASSUME NEW t \in Thread, GoOn(t) PROVE Acts(t)
  BY <1>1, <1>3 DEF GoOn, Acts, Stray
<1>4. ASSUME NEW t \in Thread, ~ Stray, Call(t) PROVE Acts(t)
  BY <1>2, <1>4 DEF Acts, Stray
<1> QED BY <1>3, <1>4 DEF Next, Tick, End

-----------------------------------------------------------------------------

LEMMA SendTyped ==
    ASSUME Typed, NEW i \in OpenId, NEW message \in Message, Send(i, message)
    PROVE  /\ SchedTypeOK'
           /\ nextId' = nextId /\ table' = table /\ freePorts' = freePorts
           /\ pc' = pc /\ port' = port /\ msg' = msg
           /\ queue' \in [PortSlot -> Seq(MsgSlot)]
           /\ waiters' \in [PortSlot -> Seq(Thread)]
           /\ content' \in [MsgSlot -> Message \cup {NoMsg}]
           /\ freeMsgs' \subseteq MsgSlot
           /\ stale' \subseteq Thread
           /\ \A t \in stale' : t \in stale \/ pc[t] = "next"
<1> DEFINE p == table[i]
           woken == IF waiters[p] = <<>> THEN <<>> ELSE <<Head(waiters[p])>>
<1>1. p \in PortSlot /\ waiters[p] \in Seq(Thread) /\ queue[p] \in Seq(MsgSlot)
  BY DEF Typed, TypeOK, OpenId
<1>2. waiters[p] # <<>> => Head(waiters[p]) \in Thread /\ Tail(waiters[p]) \in Seq(Thread)
  BY <1>1, PopElements
<1>3. woken \in Seq(Thread)
  BY <1>2
<1>4. WakeUp(woken) /\ UNCHANGED <<current, intr>>
  BY DEF Send, Store
<1>5. SchedTypeOK'
  BY <1>3, <1>4, WakeUpTyped DEF Typed, TypeOK
<1>6. waiters' \in [PortSlot -> Seq(Thread)]
  BY <1>1, <1>2 DEF Send, Store, Typed, TypeOK
<1>7. PICK m \in freeMsgs : /\ freeMsgs' = freeMsgs \ {m}
                            /\ content' = [content EXCEPT ![m] = message]
                            /\ queue' = [queue EXCEPT ![p] = Append(@, m)]
                            /\ stale' = stale \cup {t \in Thread : pc[t] = "next" /\ msg[t] = m}
  BY DEF Send, Store
<1>8. queue' \in [PortSlot -> Seq(MsgSlot)]
  BY <1>1, <1>7, AppendElements DEF Typed, TypeOK
<1>9. stale' \subseteq Thread /\ \A t \in stale' : t \in stale \/ pc[t] = "next"
  BY <1>7 DEF Typed, TypeOK
<1> QED BY <1>5, <1>6, <1>7, <1>8, <1>9 DEF Send, Store, Typed, TypeOK

LEMMA TakeOrWaitTyped ==
    ASSUME Typed, NEW t \in Thread, current = t, NEW p \in PortSlot, TakeOrWait(t, p)
    PROVE  /\ SchedTypeOK'
           /\ queue' \in [PortSlot -> Seq(MsgSlot)]
           /\ waiters' \in [PortSlot -> Seq(Thread)]
           /\ \/ /\ pc' = [pc EXCEPT ![t] = "copy"]
                 /\ \E m \in MsgSlot : msg' = [msg EXCEPT ![t] = m]
              \/ pc' = [pc EXCEPT ![t] = "wait"] /\ msg' = msg
<1>1. queue[p] \in Seq(MsgSlot) /\ waiters[p] \in Seq(Thread)
  BY DEF Typed, TypeOK
<1>2. CASE queue[p] # <<>>
  <2>1. Head(queue[p]) \in MsgSlot /\ Tail(queue[p]) \in Seq(MsgSlot)
    BY <1>1, <1>2, PopElements
  <2> QED BY <1>2, <2>1 DEF TakeOrWait, Typed, TypeOK, SchedTypeOK, schedVars
<1>3. CASE queue[p] = <<>>
  <2>1. Append(waiters[p], t) \in Seq(Thread)
    BY <1>1, AppendElements
  <2>2. SchedTypeOK'
    BY <1>3, SleepTyped DEF TakeOrWait, Typed, TypeOK
  <2> QED BY <1>3, <2>1, <2>2 DEF TakeOrWait, Typed, TypeOK
<1> QED BY <1>2, <1>3

LEMMA HoldTyped ==
    ASSUME Typed, NEW t \in Thread, NEW p \in PortSlot, Hold(t, p)
    PROVE  /\ queue' \in [PortSlot -> Seq(MsgSlot)]
           /\ \/ /\ pc' = [pc EXCEPT ![t] = "free"]
                 /\ \E m \in MsgSlot : msg' = [msg EXCEPT ![t] = m]
              \/ pc' = [pc EXCEPT ![t] = "destroy"] /\ msg' = [msg EXCEPT ![t] = NoMsg]
<1>1. queue[p] \in Seq(MsgSlot)
  BY DEF Typed, TypeOK
<1>2. CASE queue[p] # <<>>
  <2>1. Head(queue[p]) \in MsgSlot /\ Tail(queue[p]) \in Seq(MsgSlot)
    BY <1>1, <1>2, PopElements
  <2> QED BY <1>2, <2>1 DEF Hold, Typed, TypeOK
<1>3. CASE queue[p] = <<>>
  BY <1>3 DEF Hold, Typed, TypeOK
<1> QED BY <1>2, <1>3

-----------------------------------------------------------------------------
LEMMA TypedInit == Init => Typed
<1> SUFFICES ASSUME Init PROVE Typed
  OBVIOUS
<1>1. SchedTypeOK
  BY BootOrderAssumption DEF Init, SchedInit, SchedTypeOK
<1> QED BY <1>1 DEF Init, Typed, TypeOK, LocalsOK, WithMsg

\* A step that changes the locals of one thread keeps those of the others.
LEMMA LocalsOfOne ==
    ASSUME LocalsOK, NEW t \in Thread,
           \A u \in Thread : u # t => pc'[u] = pc[u] /\ port'[u] = port[u] /\ msg'[u] = msg[u],
           \A u \in Thread : u # t => (u \in stale' => u \in stale \/ pc[u] \in {"wait", "next"}),
           /\ pc'[t] # "user" => port'[t] \in PortSlot
           /\ pc'[t] \in WithMsg => msg'[t] \in MsgSlot
           /\ pc'[t] \notin WithMsg => msg'[t] = NoMsg
           /\ t \in stale' => pc'[t] \in {"wait", "next"}
    PROVE  LocalsOK'
BY DEF LocalsOK

LEMMA TypedStep == Typed /\ [Next]_vars => Typed'
<1> SUFFICES ASSUME Typed, [Next]_vars PROVE Typed'
  OBVIOUS
<1> USE DEF Typed
<1>t. /\ pc \in [Thread -> Places] /\ port \in [Thread -> PortSlot \cup {NoPort}]
      /\ msg \in [Thread -> MsgSlot \cup {NoMsg}]
      /\ stale \subseteq Thread
      /\ \A i \in OpenId : table[i] \in PortSlot
  BY DEF TypeOK, Places, OpenId
<1>1. CASE Preempt /\ UNCHANGED portVars
  BY <1>1, PreemptTyped DEF TypeOK, LocalsOK, portVars
<1>2. CASE IrqSend
  <2>1. PICK i \in OpenId, d \in Data : Send(i, [sender |-> Kernel, data |-> d])
    BY <1>2 DEF IrqSend
  <2>2. [sender |-> Kernel, data |-> d] \in Message
    BY DEF Message
  <2> QED BY <1>2, <2>1, <2>2, SendTyped DEF IrqSend, TypeOK, LocalsOK
<1>3. ASSUME NEW t \in Thread, Create(t) PROVE Typed'
  <2>1. PICK p \in freePorts :
          /\ freePorts' = freePorts \ {p}
          /\ queue' = [queue EXCEPT ![p] = <<>>]
          /\ waiters' = [waiters EXCEPT ![p] = <<>>]
          /\ port' = [port EXCEPT ![t] = p]
    BY <1>3 DEF Create
  <2>2. /\ queue' \in [PortSlot -> Seq(MsgSlot)] /\ waiters' \in [PortSlot -> Seq(Thread)]
        /\ freePorts' \subseteq PortSlot
        /\ port' \in [Thread -> PortSlot \cup {NoPort}]
    BY <2>1, EmptySeq DEF TypeOK
  <2>4. TypeOK'
    BY <1>3, <2>2 DEF Create, TypeOK, SchedTypeOK, schedVars
  <2>5. p \in PortSlot
    BY DEF TypeOK
  <2>6. /\ pc[t] = "user" /\ pc' = [pc EXCEPT ![t] = "insert"]
        /\ msg' = msg /\ stale' = stale
    BY <1>3 DEF Create, At
  <2>3. LocalsOK'
    BY <1>t, <2>1, <2>5, <2>6, LocalsOfOne DEF LocalsOK, WithMsg
  <2> QED BY <2>3, <2>4
<1>4. ASSUME NEW t \in Thread, t \notin stale, Insert(t) PROVE Typed'
  <2>1. port[t] \in PortSlot
    BY <1>4 DEF Insert, At, LocalsOK
  <2>2. TypeOK'
    BY <1>4, <2>1 DEF Insert, Return, TypeOK, SchedTypeOK, OpenId
  <2>3. LocalsOK'
    BY <1>t, <1>4, LocalsOfOne DEF Insert, Return, WithMsg
  <2> QED BY <2>2, <2>3
<1>5. ASSUME NEW t \in Thread, ThreadSend(t) PROVE Typed'
  <2>1. PICK i \in OpenId, d \in Data : Send(i, [sender |-> t, data |-> d])
    BY <1>5 DEF ThreadSend
  <2>2. [sender |-> t, data |-> d] \in Message
    BY DEF Message
  <2> QED BY <1>5, <2>1, <2>2, SendTyped DEF ThreadSend, TypeOK, LocalsOK
<1>6. ASSUME NEW t \in Thread, t \notin stale, Receive(t) PROVE Typed'
  <2>1. PICK i \in OpenId : port' = [port EXCEPT ![t] = table[i]] /\ TakeOrWait(t, table[i])
    BY <1>6 DEF Receive
  <2>2. table[i] \in PortSlot /\ current = t
    BY <1>6 DEF TypeOK, OpenId, Receive, At
  <2>3. /\ SchedTypeOK'
        /\ queue' \in [PortSlot -> Seq(MsgSlot)]
        /\ waiters' \in [PortSlot -> Seq(Thread)]
    BY <2>1, <2>2, TakeOrWaitTyped
  <2>4. \/ /\ pc' = [pc EXCEPT ![t] = "copy"]
           /\ \E m \in MsgSlot : msg' = [msg EXCEPT ![t] = m]
        \/ pc' = [pc EXCEPT ![t] = "wait"] /\ msg' = msg
    BY <2>1, <2>2, TakeOrWaitTyped
  <2>5. pc[t] = "user" /\ stale' = stale /\ msg[t] = NoMsg
    BY <1>6 DEF Receive, At, LocalsOK, WithMsg
  <2>6. LocalsOK'
    BY <1>t, <1>6, <2>1, <2>2, <2>4, <2>5, LocalsOfOne DEF WithMsg
  <2>7. TypeOK'
    <3>1. port' \in [Thread -> PortSlot \cup {NoPort}]
      BY <2>1, <2>2 DEF TypeOK
    <3>2. pc' \in [Thread -> Places] /\ msg' \in [Thread -> MsgSlot \cup {NoMsg}]
      BY <1>t, <2>4 DEF Places
    <3>3. inbox' \in [Thread -> Message \cup {NoMsg}]
      BY <1>6 DEF Receive, TypeOK
    <3>4. UNCHANGED <<nextId, table, content, freePorts, freeMsgs, stale>>
      BY <1>6 DEF Receive
    <3> QED BY <2>3, <3>1, <3>2, <3>3, <3>4 DEF TypeOK, Places
  <2> QED BY <2>6, <2>7
<1>7. ASSUME NEW t \in Thread, t \notin stale, Recheck(t) PROVE Typed'
  <2>1. port[t] \in PortSlot /\ current = t /\ TakeOrWait(t, port[t])
    BY <1>7 DEF LocalsOK, Recheck, At
  <2>2. TypeOK'
    BY <1>7, <2>1, TakeOrWaitTyped DEF Recheck, TypeOK
  <2>3. \/ /\ pc' = [pc EXCEPT ![t] = "copy"]
           /\ \E m \in MsgSlot : msg' = [msg EXCEPT ![t] = m]
        \/ pc' = [pc EXCEPT ![t] = "wait"] /\ msg' = msg
    BY <2>1, TakeOrWaitTyped
  <2>4. pc[t] = "wait" /\ port' = port /\ stale' = stale /\ msg[t] = NoMsg
    BY <1>7 DEF Recheck, At, LocalsOK, WithMsg
  <2>5. LocalsOK'
    BY <1>t, <1>7, <2>1, <2>3, <2>4, LocalsOfOne DEF WithMsg
  <2> QED BY <2>2, <2>5
<1>8. ASSUME NEW t \in Thread, t \notin stale, Copy(t) PROVE Typed'
  <2>1. content[msg[t]] \in Message \cup {NoMsg}
    BY <1>8 DEF Copy, At, LocalsOK, TypeOK, WithMsg
  <2>2. /\ inbox' \in [Thread -> Message \cup {NoMsg}]
        /\ pc' = [pc EXCEPT ![t] = "release"]
        /\ UNCHANGED <<schedVars, nextId, table, queue, waiters, content,
                       freePorts, freeMsgs, port, msg, stale>>
    BY <1>8, <2>1 DEF Copy, TypeOK
  <2>3. pc' \in [Thread -> Places]
    BY <1>t, <2>2 DEF Places
  <2>4. SchedTypeOK'
    BY <2>2 DEF TypeOK, SchedTypeOK, schedVars
  <2>5. TypeOK'
    BY <2>2, <2>3, <2>4 DEF TypeOK, Places
  <2>6. pc[t] = "copy" /\ port[t] \in PortSlot /\ msg[t] \in MsgSlot
    BY <1>8 DEF Copy, At, LocalsOK, WithMsg
  <2>7. LocalsOK'
    BY <1>t, <1>8, <2>2, <2>6, LocalsOfOne DEF WithMsg
  <2> QED BY <2>5, <2>7
<1>9. ASSUME NEW t \in Thread, t \notin stale, Release(t) PROVE Typed'
  <2>1. msg[t] \in MsgSlot
    BY <1>9 DEF Release, At, LocalsOK, WithMsg
  <2>2. TypeOK'
    BY <1>9, <2>1 DEF Release, Return, TypeOK, SchedTypeOK
  <2>3. LocalsOK'
    BY <1>t, <1>9, LocalsOfOne DEF Release, Return, WithMsg
  <2> QED BY <2>2, <2>3
<1>10. ASSUME NEW t \in Thread, t \notin stale, Delete(t) PROVE Typed'
  <2>1. PICK i \in OpenId : Unlist(t, i)
    BY <1>10 DEF Delete
  <2>2. table[i] \in PortSlot /\ Hold(t, table[i])
    BY <1>t, <2>1 DEF Unlist
  <2>3. queue' \in [PortSlot -> Seq(MsgSlot)]
    BY <2>2, HoldTyped
  <2>4. \/ /\ pc' = [pc EXCEPT ![t] = "free"]
           /\ \E m \in MsgSlot : msg' = [msg EXCEPT ![t] = m]
        \/ pc' = [pc EXCEPT ![t] = "destroy"] /\ msg' = [msg EXCEPT ![t] = NoMsg]
    BY <2>2, HoldTyped
  <2>5. pc' \in [Thread -> Places] /\ msg' \in [Thread -> MsgSlot \cup {NoMsg}]
    BY <1>t, <2>4 DEF Places
  <2>6. /\ port' = [port EXCEPT ![t] = table[i]] /\ pc[t] = "user"
        /\ stale' = stale \cup WaitingOn(table[i])
    BY <2>1 DEF Unlist, At
  <2>7. stale' \subseteq Thread /\ \A u \in stale' : u \in stale \/ pc[u] = "wait"
    BY <1>t, <2>6 DEF WaitingOn
  <2>8. /\ table' = [j \in OpenId \ {i} |-> table[j]]
        /\ inbox' = [inbox EXCEPT ![t] = NoMsg]
        /\ UNCHANGED <<schedVars, nextId, waiters, content, freePorts, freeMsgs>>
    BY <2>1 DEF Unlist
  <2>9. TypeOK'
    BY <2>2, <2>3, <2>5, <2>6, <2>7, <2>8 DEF TypeOK, SchedTypeOK, schedVars, OpenId, Places
  <2>10. LocalsOK'
    BY <1>t, <1>10, <2>2, <2>4, <2>6, <2>7, LocalsOfOne DEF WithMsg
  <2> QED BY <2>9, <2>10
<1>11. ASSUME NEW t \in Thread, t \notin stale, FreeMessage(t) PROVE Typed'
  <2>1. msg[t] \in MsgSlot /\ port[t] \in PortSlot
    BY <1>11 DEF FreeMessage, At, LocalsOK, WithMsg
  <2>2. TypeOK'
    BY <1>11, <2>1 DEF FreeMessage, TypeOK, SchedTypeOK, schedVars
  <2>3. LocalsOK'
    BY <1>t, <1>11, <2>1, LocalsOfOne DEF FreeMessage, WithMsg
  <2> QED BY <2>2, <2>3
<1>12. ASSUME NEW t \in Thread, t \notin stale, Follow(t) PROVE Typed'
  <2>1. port[t] \in PortSlot /\ Hold(t, port[t])
    BY <1>12 DEF Follow, At, LocalsOK
  <2>2. queue' \in [PortSlot -> Seq(MsgSlot)]
    BY <2>1, HoldTyped
  <2>3. \/ /\ pc' = [pc EXCEPT ![t] = "free"]
           /\ \E m \in MsgSlot : msg' = [msg EXCEPT ![t] = m]
        \/ pc' = [pc EXCEPT ![t] = "destroy"] /\ msg' = [msg EXCEPT ![t] = NoMsg]
    BY <2>1, HoldTyped
  <2>4. pc' \in [Thread -> Places] /\ msg' \in [Thread -> MsgSlot \cup {NoMsg}]
    BY <1>t, <2>3 DEF Places
  <2>5. UNCHANGED <<schedVars, nextId, table, waiters, content, freePorts, freeMsgs,
                    port, inbox, stale>>
    BY <1>12 DEF Follow
  <2>6. TypeOK'
    BY <2>2, <2>4, <2>5 DEF TypeOK, SchedTypeOK, schedVars, Places
  <2>7. LocalsOK'
    BY <1>t, <1>12, <2>1, <2>3, <2>5, LocalsOfOne DEF WithMsg
  <2> QED BY <2>6, <2>7
<1>13. ASSUME NEW t \in Thread, Recycle(t) PROVE Typed'
  BY <1>13 DEF Recycle, TypeOK, SchedTypeOK, schedVars, LocalsOK
<1>14. ASSUME NEW t \in Thread, t \notin stale, Destroy(t) PROVE Typed'
  <2>1. port[t] \in PortSlot
    BY <1>14 DEF Destroy, At, LocalsOK
  <2>2. TypeOK'
    BY <1>14, <2>1 DEF Destroy, Return, TypeOK, SchedTypeOK
  <2>3. LocalsOK'
    BY <1>t, <1>14, LocalsOfOne DEF Destroy, Return, WithMsg
  <2> QED BY <2>2, <2>3
<1>15. CASE UNCHANGED vars
  BY <1>15 DEF vars, schedVars, portVars, TypeOK, SchedTypeOK, LocalsOK
<1> QED
  BY Steps, <1>1, <1>2, <1>3, <1>4, <1>5, <1>6, <1>7, <1>8, <1>9, <1>10, <1>11, <1>12,
     <1>13, <1>14, <1>15 DEF Acts, Call, Continue

\* Every variable of the kernel model keeps its type.
THEOREM TypeCorrect == Spec => []TypeOK
<1>1. Spec => []Typed
  BY TypedInit, TypedStep, PTL DEF Spec
<1>2. Typed => TypeOK
  BY DEF Typed
<1> QED BY <1>1, <1>2, PTL

-----------------------------------------------------------------------------
\* A thread between the two halves of a creation, or inside a deletion.
Holding(t) == pc[t] \in {"insert", "free", "next", "destroy"}

\* PortOwnership, pointwise.
Owners ==
    /\ \A i, j \in OpenId : table[i] = table[j] => i = j
    /\ \A i \in OpenId : table[i] \notin freePorts
    /\ \A t \in Thread : Holding(t) => port[t] \notin freePorts \cup Live
    /\ \A t, u \in Thread : Holding(t) /\ Holding(u) /\ port[t] = port[u] => t = u
    /\ \A p \in PortSlot : p \in freePorts \cup Live \/ \E t \in Thread : Holding(t) /\ port[t] = p

\* A receiver inside the call looks through a pointer to a port of the table, unless
\* that port was deleted.
SeesLive == \A t \in Thread : pc[t] = "wait" /\ t \notin stale => port[t] \in Live

Owned == Typed /\ Owners /\ SeesLive

LEMMA OwnersGivePortOwnership == Owners => PortOwnership
<1> SUFFICES ASSUME Owners PROVE PortOwnership
  OBVIOUS
<1>1. \A p : \A t : t \in Making(p) \cup Deleting(p) <=> t \in Thread /\ Holding(t) /\ port[t] = p
  BY DEF Making, Deleting, Holding
<1>2. \A p \in PortSlot : p \in Live => p \notin freePorts
  BY DEF Owners, Live
<1> QED BY <1>1, <1>2 DEF Owners, PortOwnership

LEMMA OwnedInit == Init => Owned
<1> SUFFICES ASSUME Init PROVE Owned
  OBVIOUS
<1>1. OpenId = {} /\ Live = {} /\ freePorts = PortSlot
  BY DEF Init, OpenId, Live
<1>2. \A t \in Thread : pc[t] = "user"
  BY DEF Init
<1> QED BY <1>1, <1>2, TypedInit DEF Owned, Owners, Holding, SeesLive

\* Steps that leave the table, the free structures and their holders alone.
LEMMA OwnersFrame ==
    ASSUME Owners, UNCHANGED <<table, freePorts>>,
           \A t \in Thread : Holding(t)' <=> Holding(t),
           \A t \in Thread : Holding(t) => port'[t] = port[t]
    PROVE  Owners'
BY DEF Owners, OpenId, Live

\* Steps after which no thread waits that did not.
LEMMA SeesFrame ==
    ASSUME SeesLive, Live \subseteq Live',
           \A t \in Thread : pc'[t] = "wait" => pc[t] = "wait" /\ port'[t] = port[t],
           \A t \in Thread : t \in stale => t \in stale'
    PROVE  SeesLive'
BY DEF SeesLive

\* A port that is removed from the table is not in it under another identifier.
LEMMA UnlistUnlists ==
    ASSUME Owned, NEW t \in Thread, NEW i \in OpenId, Unlist(t, i)
    PROVE  /\ OpenId' = OpenId \ {i} /\ \A j \in OpenId' : table'[j] = table[j]
           /\ Live' = Live \ {table[i]}
<1>1. OpenId' = OpenId \ {i} /\ \A j \in OpenId' : table'[j] = table[j]
  BY DEF Unlist, OpenId
<1> QED BY <1>1 DEF Live, Owned, Owners

LEMMA OwnedStep == Owned /\ [Next]_vars => Owned'
<1> SUFFICES ASSUME Owned, [Next]_vars PROVE Owners' /\ SeesLive'
  BY TypedStep DEF Owned
<1> USE DEF Owned
<1>t. /\ pc \in [Thread -> Places]
      /\ port \in [Thread -> PortSlot \cup {NoPort}]
      /\ table \in [OpenId -> PortSlot] /\ freePorts \subseteq PortSlot
      /\ nextId \in Nat /\ OpenId \subseteq 0 .. nextId - 1
  BY DEF Typed, TypeOK, OpenId, Places
<1>1. CASE Preempt /\ UNCHANGED portVars
  BY <1>1, OwnersFrame, SeesFrame DEF portVars, Holding, Live, OpenId
<1>2. CASE IrqSend
  <2>1. UNCHANGED <<table, freePorts, pc, port>> /\ stale \subseteq stale'
    BY <1>2 DEF IrqSend, Send, Store
  <2> QED BY <2>1, OwnersFrame, SeesFrame DEF Holding, Live, OpenId
<1>3. ASSUME NEW t \in Thread, Create(t) PROVE Owners' /\ SeesLive'
  <2>1. PICK p \in freePorts :
          freePorts' = freePorts \ {p} /\ port' = [port EXCEPT ![t] = p]
    BY <1>3 DEF Create
  <2>2. /\ table' = table /\ OpenId' = OpenId /\ Live' = Live /\ stale' = stale
        /\ pc[t] = "user" /\ pc' = [pc EXCEPT ![t] = "insert"]
    BY <1>3 DEF Create, At, OpenId, Live
  <2>3. p \notin Live /\ \A u \in Thread : Holding(u) => port[u] # p
    BY DEF Owners, Live
  <2>4. Owners'
    BY <1>t, <2>1, <2>2, <2>3 DEF Owners, Holding
  <2> QED BY <1>t, <2>1, <2>2, <2>4, SeesFrame
<1>4. ASSUME NEW t \in Thread, Insert(t) PROVE Owners' /\ SeesLive'
  <2>1. /\ Holding(t) /\ port[t] \in PortSlot /\ freePorts' = freePorts /\ stale' = stale
        /\ pc' = [pc EXCEPT ![t] = "user"] /\ port' = [port EXCEPT ![t] = NoPort]
    BY <1>4 DEF Insert, Return, At, Holding, Typed, LocalsOK
  <2>2. nextId \notin OpenId
    BY <1>t
  <2>3. /\ OpenId' = OpenId \cup {nextId} /\ Live' = Live \cup {port[t]}
        /\ table'[nextId] = port[t]
        /\ \A i \in OpenId : table'[i] = table[i]
    BY <1>4, <2>2 DEF Insert, OpenId, Live
  <2>4. /\ \A i \in OpenId : table[i] # port[t]
        /\ port[t] \notin freePorts
    BY <2>1 DEF Owners, Live
  <2>5. \A u \in Thread : Holding(u)' <=> Holding(u) /\ u # t
    BY <1>t, <2>1 DEF Holding
  <2>6. Owners'
    BY <1>t, <2>1, <2>2, <2>3, <2>4, <2>5 DEF Owners
  <2> QED BY <1>t, <2>1, <2>3, <2>6, SeesFrame
<1>5. ASSUME NEW t \in Thread, ThreadSend(t) PROVE Owners' /\ SeesLive'
  <2>1. UNCHANGED <<table, freePorts, pc, port>> /\ stale \subseteq stale'
    BY <1>5 DEF ThreadSend, Send, Store
  <2> QED BY <2>1, OwnersFrame, SeesFrame DEF Holding, Live, OpenId
<1>6. ASSUME NEW t \in Thread, Receive(t) PROVE Owners' /\ SeesLive'
  <2>1. PICK i \in OpenId : port' = [port EXCEPT ![t] = table[i]] /\ TakeOrWait(t, table[i])
    BY <1>6 DEF Receive
  <2>2. /\ UNCHANGED <<table, freePorts, stale>> /\ Live' = Live
        /\ pc[t] = "user" /\ table[i] \in Live
    BY <1>6 DEF Receive, At, OpenId, Live
  <2>3. \E place \in {"copy", "wait"} : pc' = [pc EXCEPT ![t] = place]
    BY <2>1 DEF TakeOrWait
  <2>4. Owners'
    BY <1>t, <2>1, <2>2, <2>3, OwnersFrame DEF Holding
  <2> QED BY <1>t, <2>1, <2>2, <2>3, <2>4 DEF SeesLive
<1>7. ASSUME NEW t \in Thread, t \notin stale, Recheck(t) PROVE Owners' /\ SeesLive'
  <2>1. UNCHANGED <<table, freePorts, port, stale>> /\ Live' = Live /\ pc[t] = "wait"
    BY <1>7 DEF Recheck, At, OpenId, Live
  <2>2. \E place \in {"copy", "wait"} : pc' = [pc EXCEPT ![t] = place]
    BY <1>7 DEF Recheck, TakeOrWait
  <2>3. Owners'
    BY <1>t, <2>1, <2>2, OwnersFrame DEF Holding
  <2> QED BY <1>t, <2>1, <2>2, <2>3, SeesFrame
<1>8. ASSUME NEW t \in Thread, Copy(t) PROVE Owners' /\ SeesLive'
  <2>1. /\ UNCHANGED <<table, freePorts, port, stale>> /\ Live' = Live
        /\ pc[t] = "copy" /\ pc' = [pc EXCEPT ![t] = "release"]
    BY <1>8 DEF Copy, At, OpenId, Live
  <2> QED BY <1>t, <2>1, OwnersFrame, SeesFrame DEF Holding
<1>9. ASSUME NEW t \in Thread, Release(t) PROVE Owners' /\ SeesLive'
  <2>1. /\ UNCHANGED <<table, freePorts, stale>> /\ Live' = Live /\ pc[t] = "release"
        /\ pc' = [pc EXCEPT ![t] = "user"] /\ port' = [port EXCEPT ![t] = NoPort]
    BY <1>9 DEF Release, Return, At, OpenId, Live
  <2> QED BY <1>t, <2>1, OwnersFrame, SeesFrame DEF Holding
<1>10. ASSUME NEW t \in Thread, Delete(t) PROVE Owners' /\ SeesLive'
  <2>1. PICK i \in OpenId : Unlist(t, i)
    BY <1>10 DEF Delete
  <2>2. /\ freePorts' = freePorts /\ port' = [port EXCEPT ![t] = table[i]] /\ pc[t] = "user"
        /\ stale' = stale \cup WaitingOn(table[i])
    BY <2>1 DEF Unlist, At
  <2>p. PICK place \in {"free", "destroy"} : pc' = [pc EXCEPT ![t] = place]
    BY <2>1 DEF Unlist, Hold
  <2>3. OpenId' = OpenId \ {i} /\ \A j \in OpenId' : table'[j] = table[j]
    BY <2>1, UnlistUnlists
  <2>4. Live' = Live \ {table[i]}
    BY <2>1, UnlistUnlists
  <2>5. \A u \in Thread : Holding(u) => port[u] # table[i]
    BY DEF Owners, Live
  <2>8. \A u \in Thread : Holding(u)' <=> Holding(u) \/ u = t
    BY <1>t, <2>2, <2>p DEF Holding
  <2>9. \A u \in Thread : port'[u] = IF u = t THEN table[i] ELSE port[u]
    BY <1>t, <2>2
  <2>10. ~ Holding(t)
    BY <2>2 DEF Holding
  <2>11. table[i] \in Live /\ table[i] \notin freePorts
    BY DEF Live, Owners
  <2>6. Owners'
    BY <1>t, <2>2, <2>3, <2>4, <2>5, <2>8, <2>9, <2>10, <2>11 DEF Owners
  <2>7. SeesLive'
    BY <1>t, <2>2, <2>p, <2>4 DEF SeesLive, WaitingOn
  <2> QED BY <2>6, <2>7
<1>11. ASSUME NEW t \in Thread, FreeMessage(t) PROVE Owners' /\ SeesLive'
  <2>1. /\ UNCHANGED <<table, freePorts, port, stale>> /\ Live' = Live
        /\ pc[t] = "free" /\ pc' = [pc EXCEPT ![t] = "next"]
    BY <1>11 DEF FreeMessage, At, OpenId, Live
  <2> QED BY <1>t, <2>1, OwnersFrame, SeesFrame DEF Holding
<1>12. ASSUME NEW t \in Thread, Follow(t) PROVE Owners' /\ SeesLive'
  <2>1. /\ UNCHANGED <<table, freePorts, port, stale>> /\ Live' = Live /\ pc[t] = "next"
    BY <1>12 DEF Follow, At, OpenId, Live
  <2>2. PICK place \in {"free", "destroy"} : pc' = [pc EXCEPT ![t] = place]
    BY <1>12 DEF Follow, Hold
  <2> QED BY <1>t, <2>1, <2>2, OwnersFrame, SeesFrame DEF Holding
<1>13. ASSUME NEW t \in Thread, Recycle(t) PROVE Owners' /\ SeesLive'
  <2>1. UNCHANGED <<table, freePorts, pc, port>> /\ stale \subseteq stale'
    BY <1>13 DEF Recycle
  <2> QED BY <2>1, OwnersFrame, SeesFrame DEF Holding, Live, OpenId
<1>14. ASSUME NEW t \in Thread, Destroy(t) PROVE Owners' /\ SeesLive'
  <2>1. /\ UNCHANGED <<table, stale>> /\ OpenId' = OpenId /\ Live' = Live
        /\ freePorts' = freePorts \cup {port[t]} /\ Holding(t) /\ port[t] \in PortSlot
        /\ pc' = [pc EXCEPT ![t] = "user"] /\ port' = [port EXCEPT ![t] = NoPort]
    BY <1>14 DEF Destroy, Return, At, Holding, OpenId, Live, Typed, LocalsOK
  <2>2. \A u \in Thread : Holding(u)' <=> Holding(u) /\ u # t
    BY <1>t, <2>1 DEF Holding
  <2>3. Owners'
    BY <1>t, <2>1, <2>2 DEF Owners, Live
  <2> QED BY <1>t, <2>1, <2>3, SeesFrame
<1>15. CASE UNCHANGED vars
  BY <1>15, OwnersFrame, SeesFrame DEF vars, portVars, Holding, Live, OpenId
<1> QED
  BY Steps, <1>1, <1>2, <1>3, <1>4, <1>5, <1>6, <1>7, <1>8, <1>9, <1>10, <1>11, <1>12,
     <1>13, <1>14, <1>15 DEF Acts, Call, Continue

THEOREM OwnedAlways == Spec => []Owned
BY OwnedInit, OwnedStep, PTL DEF Spec

\* Every port structure has one owner: the allocator, the table or a thread that is
\* creating or deleting it.
THEOREM PortsOwned == Spec => []PortOwnership
<1>1. Owned => PortOwnership
  BY OwnersGivePortOwnership DEF Owned
<1> QED BY <1>1, OwnedAlways, PTL

-----------------------------------------------------------------------------
\* ThreadPlacement, pointwise, apart from the scheduler's part of it; nobody waits on
\* a port before it is in the table.
Sleepers ==
    /\ \A p \in Live : IsInjective(waiters[p])
    /\ \A p \in Live : \A t \in ToSet(waiters[p]) :
         state[t] = "SLEEPING" /\ pc[t] = "wait" /\ port[t] = p /\ t \notin stale
    /\ \A t \in Thread :
         state[t] = "SLEEPING" => pc[t] = "wait" /\ (t \in stale \/ t \in ToSet(waiters[port[t]]))
    /\ \A t \in Thread : pc[t] = "insert" => waiters[port[t]] = <<>>

Placed == Owned /\ Placement /\ Sleepers

LEMMA LivePorts == Typed => Live \subseteq PortSlot
BY DEF Typed, TypeOK, Live, OpenId

LEMMA WaitersOf ==
    ASSUME Typed, NEW p \in Live
    PROVE  p \in PortSlot /\ waiters[p] \in Seq(Thread) /\ ToSet(waiters[p]) \subseteq Thread
<1>1. p \in PortSlot
  BY LivePorts
<1>2. waiters[p] \in Seq(Thread)
  BY <1>1 DEF Typed, TypeOK
<1> QED BY <1>1, <1>2, QueueElements

LEMMA PlacedGivesThreadPlacement == Placed => ThreadPlacement
<1> SUFFICES ASSUME Placed PROVE ThreadPlacement
  OBVIOUS
<1>1. \A p \in Live : ToSet(waiters[p]) \subseteq Thread
  BY WaitersOf DEF Placed, Owned
<1> QED BY <1>1 DEF Placed, Sleepers, ThreadPlacement, WaitingOn

LEMMA PlacedInit == Init => Placed
<1> SUFFICES ASSUME Init PROVE Placed
  OBVIOUS
<1>1. Placement
  BY BootOrderAssumption, NotThreadsAssumption DEF Init, SchedInit, Placement
<1>2. Sleepers
  BY EmptyQueue DEF Init, SchedInit, Sleepers, Live, OpenId
<1> QED BY <1>1, <1>2, OwnedInit DEF Placed

\* Steps that move no thread into or out of a wait.
LEMMA SleepersFrame ==
    ASSUME Owned, Sleepers,
           \A p \in Live : waiters'[p] = waiters[p],
           \A p \in Live' : p \in Live \/ waiters'[p] = <<>>,
           \A t \in Thread : state'[t] = "SLEEPING" <=> state[t] = "SLEEPING",
           \A t \in Thread : pc[t] = "wait" => pc'[t] = "wait" /\ port'[t] = port[t],
           \A t \in Thread : t \in stale => t \in stale',
           \A t \in Thread : t \in stale' => t \in stale \/ pc[t] # "wait" \/ port[t] \notin Live',
           \A t \in Thread : pc'[t] = "insert" => waiters'[port'[t]] = <<>>
    PROVE  Sleepers'
<1>1. \A p \in Live : ToSet(waiters[p]) \subseteq Thread
  BY WaitersOf DEF Owned
<1>2. \A p \in Live' : \A t \in ToSet(waiters'[p]) : p \in Live /\ t \in ToSet(waiters[p])
  BY EmptyQueue
<1>3. \A p \in Live' : IsInjective(waiters'[p])
  BY EmptyQueue DEF Sleepers
<1>4. ASSUME NEW t \in Thread, state'[t] = "SLEEPING"
      PROVE  pc'[t] = "wait" /\ (t \in stale' \/ t \in ToSet(waiters'[port'[t]]))
  <2>1. pc[t] = "wait" /\ (t \in stale \/ t \in ToSet(waiters[port[t]]))
    BY <1>4 DEF Sleepers
  <2>2. t \notin stale => port[t] \in Live
    BY <2>1 DEF Owned, SeesLive
  <2> QED BY <2>1, <2>2
<1>5. ASSUME NEW p \in Live', NEW t \in ToSet(waiters'[p])
      PROVE  state'[t] = "SLEEPING" /\ pc'[t] = "wait" /\ port'[t] = p /\ t \notin stale'
  <2>1. p \in Live /\ t \in ToSet(waiters[p]) /\ t \in Thread
    BY <1>1, <1>2
  <2>2. state[t] = "SLEEPING" /\ pc[t] = "wait" /\ port[t] = p /\ t \notin stale
    BY <2>1 DEF Sleepers
  <2> QED BY <2>1, <2>2
<1> QED BY <1>3, <1>4, <1>5 DEF Sleepers

\* The usual case of it: no queue of waiters, no pointer to a port changes.
LEMMA SleepersStay ==
    ASSUME Owned, Sleepers, UNCHANGED waiters, Live' = Live,
           \A t \in Thread : state'[t] = "SLEEPING" <=> state[t] = "SLEEPING",
           \A t \in Thread : pc[t] = "wait" => pc'[t] = "wait" /\ port'[t] = port[t],
           \A t \in Thread : t \in stale => t \in stale',
           \A t \in Thread : t \in stale' => t \in stale \/ pc[t] # "wait",
           \A t \in Thread : pc'[t] = "insert" => pc[t] = "insert" /\ port'[t] = port[t]
    PROVE  Sleepers'
<1>1. \A t \in Thread : pc'[t] = "insert" => waiters'[port'[t]] = <<>>
  BY DEF Sleepers
<1> QED BY <1>1, SleepersFrame

\* A message: the first waiter of the port moves to the ready queue.
LEMMA SendPlaces ==
    ASSUME Owned, Placement, Sleepers, NEW i \in OpenId, NEW message, Send(i, message)
    PROVE  Placement' /\ Sleepers'
<1> DEFINE p == table[i]
<1>1. /\ p \in PortSlot /\ p \in Live /\ waiters[p] \in Seq(Thread) /\ SchedTypeOK
      /\ waiters \in [PortSlot -> Seq(Thread)] /\ Typed
  BY DEF Owned, Typed, TypeOK, OpenId, Live
<1>l. Live' = Live /\ Live \subseteq PortSlot
  BY <1>1, LivePorts DEF Send, Store, Live, OpenId
<1>s. /\ \A t \in Thread : t \in stale => t \in stale'
      /\ \A t \in Thread : t \in stale' => t \in stale \/ pc[t] = "next"
  BY DEF Send, Store
<1>2. CASE waiters[p] = <<>>
  <2>1. WakeUp(<<>>) /\ current' = current /\ pc' = pc /\ port' = port
    BY <1>2 DEF Send, Store
  <2>2. waiters' = waiters
    BY <1>1, <1>2 DEF Send, Store
  <2>3. state' = state /\ ready' = ready
    BY <1>1, <2>1, WakeUpNobody
  <2>4. \A t \in Thread : t \in stale' => t \in stale \/ pc[t] # "wait"
    BY <1>s
  <2> HIDE DEF p
  <2> QED BY <1>l, <1>s, <2>1, <2>2, <2>3, <2>4, SleepersStay DEF Placement
<1>3. CASE waiters[p] # <<>>
  <2> DEFINE h == Head(waiters[p])
  <2>1. WakeUp(<<h>>) /\ current' = current /\ pc' = pc /\ port' = port
    BY <1>3 DEF Send, Store
  <2>2. waiters' = [waiters EXCEPT ![p] = Tail(@)]
    BY <1>1, <1>3 DEF Send, Store
  <2>3. /\ h \in Thread /\ h \in ToSet(waiters[p])
        /\ ToSet(waiters[p]) = ToSet(Tail(waiters[p])) \cup {h}
        /\ IsInjective(Tail(waiters[p])) /\ h \notin ToSet(Tail(waiters[p]))
    BY <1>1, <1>3, PopElements, PopOnce DEF Sleepers
  <2>4. state[h] = "SLEEPING" /\ port[h] = p /\ pc[h] = "wait"
    BY <1>1, <2>3 DEF Sleepers
  <2>5. /\ Placement'
        /\ \A t \in Thread : state'[t] = IF t = h THEN "READY" ELSE state[t]
    BY <1>1, <2>1, <2>3, <2>4, WakeUpPlaces
  <2>6. \A q \in PortSlot : /\ waiters'[q] = IF q = p THEN Tail(waiters[p]) ELSE waiters[q]
                            /\ ToSet(waiters[q]) \subseteq Thread
    BY <1>1, <2>2, QueueElements
  <2>7. \A q \in Live : \A t \in ToSet(waiters'[q]) : t # h /\ t \in ToSet(waiters[q])
    BY <1>1, <1>l, <2>3, <2>4, <2>6 DEF Sleepers
  <2>8. \A q \in Live : IsInjective(waiters'[q])
    BY <1>l, <2>3, <2>6 DEF Sleepers
  <2>9. \A t \in Thread : state'[t] = "SLEEPING" =>
          pc[t] = "wait" /\ (t \in stale \/ t \in ToSet(waiters'[port[t]]))
    <3> SUFFICES ASSUME NEW t \in Thread, state'[t] = "SLEEPING"
                 PROVE  pc[t] = "wait" /\ (t \in stale \/ t \in ToSet(waiters'[port[t]]))
      OBVIOUS
    <3>1. t # h /\ state[t] = "SLEEPING"
      BY <2>5
    <3>2. pc[t] = "wait" /\ (t \in stale \/ t \in ToSet(waiters[port[t]])) /\ port[t] \in PortSlot
      BY <1>1, <3>1 DEF Sleepers, Typed, LocalsOK
    <3> QED BY <2>3, <2>6, <3>1, <3>2
  <2>10. \A t \in Thread : pc[t] = "insert" => waiters'[port[t]] = <<>>
    <3> SUFFICES ASSUME NEW t \in Thread, pc[t] = "insert" PROVE waiters'[port[t]] = <<>>
      OBVIOUS
    <3>1. waiters[port[t]] = <<>> /\ port[t] \in PortSlot
      BY <1>1 DEF Sleepers, Typed, LocalsOK
    <3>2. port[t] # p
      BY <1>3, <3>1
    <3> QED BY <2>6, <3>1, <3>2
  <2>11. \A q \in Live : \A t \in ToSet(waiters'[q]) :
            state'[t] = "SLEEPING" /\ pc[t] = "wait" /\ port[t] = q /\ t \notin stale'
    <3> SUFFICES ASSUME NEW q \in Live, NEW t \in ToSet(waiters'[q])
                 PROVE  state'[t] = "SLEEPING" /\ pc[t] = "wait" /\ port[t] = q /\ t \notin stale'
      OBVIOUS
    <3>1. t # h /\ t \in ToSet(waiters[q]) /\ t \in Thread
      BY <1>l, <2>6, <2>7
    <3>2. state[t] = "SLEEPING" /\ pc[t] = "wait" /\ port[t] = q /\ t \notin stale
      BY <3>1 DEF Sleepers
    <3> QED BY <1>s, <2>5, <3>1, <3>2
  <2> HIDE DEF h, p
  <2>12. \A t \in Thread : state'[t] = "SLEEPING" =>
          pc'[t] = "wait" /\ (t \in stale' \/ t \in ToSet(waiters'[port'[t]]))
    BY <1>s, <2>1, <2>9
  <2>13. Sleepers'
    BY <1>l, <2>1, <2>8, <2>10, <2>11, <2>12 DEF Sleepers
  <2> QED BY <2>5, <2>13
<1> QED BY <1>2, <1>3

\* A receive: the running thread takes a message or joins the waiters.
LEMMA TakeOrWaitPlaces ==
    ASSUME Owned, Placement, Sleepers, NEW t \in Thread, current = t,
           pc[t] \in {"user", "wait"}, t \notin stale,
           NEW p \in Live, TakeOrWait(t, p),
           port' = [port EXCEPT ![t] = p], UNCHANGED <<table, stale>>
    PROVE  Placement' /\ Sleepers'
<1>1. /\ SchedTypeOK /\ waiters \in [PortSlot -> Seq(Thread)] /\ Typed
      /\ port \in [Thread -> PortSlot \cup {NoPort}]
      /\ pc \in [Thread -> Places]
  BY DEF Owned, Typed, TypeOK, Places
<1>l. p \in PortSlot /\ Live' = Live /\ Live \subseteq PortSlot
  BY <1>1, LivePorts DEF Live, OpenId
<1>2. \A q \in Live : t \notin ToSet(waiters[q])
  BY DEF Placement, Sleepers
<1>3. \A q \in Live : ToSet(waiters[q]) \subseteq Thread
  BY <1>1, WaitersOf
<1>4. CASE queue[p] # <<>>
  <2>1. UNCHANGED schedVars /\ waiters' = waiters /\ pc' = [pc EXCEPT ![t] = "copy"]
    BY <1>4 DEF TakeOrWait
  <2>2. Placement'
    BY <2>1 DEF Placement, schedVars
  <2>3. state[t] # "SLEEPING"
    BY DEF Placement
  <2>4. state' = state
    BY <2>1 DEF schedVars
  <2>5. \A u \in Thread : u # t => pc'[u] = pc[u] /\ port'[u] = port[u]
    BY <1>1, <2>1
  <2>6. pc'[t] = "copy"
    BY <1>1, <2>1
  <2>7. ASSUME NEW q \in Live, NEW u \in ToSet(waiters[q])
        PROVE  state[u] = "SLEEPING" /\ pc'[u] = "wait" /\ port'[u] = q /\ u \notin stale
    BY <1>2, <1>3, <2>5 DEF Sleepers
  <2> QED BY <1>l, <2>1, <2>2, <2>3, <2>4, <2>5, <2>6, <2>7 DEF Sleepers
<1>5. CASE queue[p] = <<>>
  <2>1. /\ waiters' = [waiters EXCEPT ![p] = Append(@, t)]
        /\ pc' = [pc EXCEPT ![t] = "wait"] /\ Sleep
    BY <1>5 DEF TakeOrWait
  <2>2. /\ Placement'
        /\ \A u \in Thread : state'[u] = "SLEEPING" <=> state[u] = "SLEEPING" \/ u = t
    BY <1>1, <2>1, SleepPlaces
  <2>3. /\ IsInjective(Append(waiters[p], t))
        /\ ToSet(Append(waiters[p], t)) = ToSet(waiters[p]) \cup {t}
    BY <1>1, <1>l, <1>2, AppendElements, AppendNew DEF Sleepers
  <2>4. \A q \in PortSlot :
          ToSet(waiters'[q]) = IF q = p THEN ToSet(waiters[q]) \cup {t} ELSE ToSet(waiters[q])
    BY <1>1, <1>l, <2>1, <2>3
  <2>9. \A q \in Live : IsInjective(waiters'[q])
    BY <1>1, <1>l, <2>1, <2>3 DEF Sleepers
  <2>5. \A u \in Thread : u # t => pc'[u] = pc[u] /\ port'[u] = port[u]
    BY <1>1, <2>1
  <2>6. pc'[t] = "wait" /\ port'[t] = p
    BY <1>1, <2>1
  <2>7. ASSUME NEW q \in Live, NEW u \in ToSet(waiters'[q])
        PROVE  state'[u] = "SLEEPING" /\ pc'[u] = "wait" /\ port'[u] = q /\ u \notin stale
    <3>1. CASE u = t
      <4>1. q = p
        BY <1>2, <1>l, <2>4, <3>1
      <4> QED BY <2>2, <2>6, <3>1, <4>1
    <3>2. CASE u # t
      <4>1. u \in ToSet(waiters[q]) /\ u \in Thread
        BY <1>3, <1>l, <2>4, <3>2
      <4>2. state[u] = "SLEEPING" /\ pc[u] = "wait" /\ port[u] = q /\ u \notin stale
        BY <4>1 DEF Sleepers
      <4> QED BY <2>2, <2>5, <3>2, <4>1, <4>2
    <3> QED BY <3>1, <3>2
  <2>8. ASSUME NEW u \in Thread, state'[u] = "SLEEPING"
        PROVE  pc'[u] = "wait" /\ (u \in stale \/ u \in ToSet(waiters'[port'[u]]))
    <3>1. CASE u = t
      BY <1>l, <2>4, <2>6, <3>1
    <3>2. CASE u # t
      <4>1. state[u] = "SLEEPING"
        BY <2>2, <2>8, <3>2
      <4>2. /\ pc[u] = "wait" /\ (u \in stale \/ u \in ToSet(waiters[port[u]]))
            /\ port[u] \in PortSlot
        BY <1>1, <4>1 DEF Sleepers, Typed, LocalsOK
      <4> QED BY <2>4, <2>5, <3>2, <4>2
    <3> QED BY <3>1, <3>2
  <2>10. ASSUME NEW u \in Thread, pc'[u] = "insert" PROVE waiters'[port'[u]] = <<>>
    <3>1. u # t /\ pc[u] = "insert" /\ port'[u] = port[u]
      BY <2>5, <2>6, <2>10
    <3>2. port[u] # p /\ port[u] \in PortSlot
      BY <1>1, <3>1 DEF Owned, Owners, Holding, Typed, LocalsOK
    <3> QED BY <1>1, <2>1, <3>1, <3>2 DEF Sleepers
  <2> QED BY <1>l, <2>2, <2>7, <2>8, <2>9, <2>10 DEF Sleepers
<1> QED BY <1>4, <1>5

LEMMA PlacedStep == Placed /\ [Next]_vars => Placed'
<1> SUFFICES ASSUME Placed, [Next]_vars PROVE Placement' /\ Sleepers'
  BY OwnedStep DEF Placed
<1> USE DEF Placed
<1>t. /\ pc \in [Thread -> Places]
      /\ port \in [Thread -> PortSlot \cup {NoPort}]
      /\ waiters \in [PortSlot -> Seq(Thread)]
      /\ table \in [OpenId -> PortSlot] /\ freePorts \subseteq PortSlot
      /\ SchedTypeOK /\ Typed /\ Owned /\ OpenId \subseteq 0 .. nextId - 1 /\ nextId \in Nat
  BY DEF Owned, Typed, TypeOK, OpenId, Places
<1>1. CASE Preempt /\ UNCHANGED portVars
  <2>1. UNCHANGED <<table, waiters, pc, port, stale>> /\ Live' = Live
    BY <1>1 DEF portVars, Live, OpenId
  <2>2. Placement' /\ \A t \in Thread : state'[t] = "SLEEPING" <=> state[t] = "SLEEPING"
    BY <1>t, <1>1, PreemptPlaces
  <2> QED BY <1>t, <2>1, <2>2, SleepersStay
<1>2. CASE IrqSend
  BY <1>t, <1>2, SendPlaces DEF IrqSend
<1>3. ASSUME NEW t \in Thread, Create(t) PROVE Placement' /\ Sleepers'
  <2>1. PICK p \in freePorts :
          waiters' = [waiters EXCEPT ![p] = <<>>] /\ port' = [port EXCEPT ![t] = p]
    BY <1>3 DEF Create
  <2>2. /\ UNCHANGED schedVars /\ pc[t] = "user" /\ pc' = [pc EXCEPT ![t] = "insert"]
        /\ stale' = stale /\ Live' = Live
    BY <1>3 DEF Create, At, Live, OpenId
  <2>3. p \notin Live /\ p \in PortSlot
    BY <1>t DEF Owned, Owners, Live
  <2>4. \A q \in Live : waiters'[q] = waiters[q]
    BY <1>t, <2>1, <2>3
  <2>5. \A u \in Thread : pc'[u] = "insert" => waiters'[port'[u]] = <<>>
    <3> SUFFICES ASSUME NEW u \in Thread, pc'[u] = "insert" PROVE waiters'[port'[u]] = <<>>
      OBVIOUS
    <3>1. CASE u = t
      BY <1>t, <2>1, <2>3, <3>1
    <3>2. CASE u # t
      <4>1. pc[u] = "insert" /\ port'[u] = port[u] /\ port[u] \in PortSlot
        BY <1>t, <2>1, <2>2, <3>2 DEF Typed, LocalsOK
      <4>2. waiters[port[u]] = <<>>
        BY <4>1 DEF Sleepers
      <4> QED BY <1>t, <2>1, <4>1, <4>2
    <3> QED BY <3>1, <3>2
  <2>6. Placement' /\ state' = state
    BY <2>2 DEF schedVars, Placement
  <2>7. \A u \in Thread : pc[u] = "wait" => pc'[u] = "wait" /\ port'[u] = port[u]
    BY <1>t, <2>1, <2>2
  <2> QED BY <1>t, <2>2, <2>4, <2>5, <2>6, <2>7, SleepersFrame
<1>4. ASSUME NEW t \in Thread, Insert(t) PROVE Placement' /\ Sleepers'
  <2>1. /\ pc[t] = "insert" /\ pc' = [pc EXCEPT ![t] = "user"]
        /\ port' = [port EXCEPT ![t] = NoPort]
        /\ UNCHANGED <<state, ready, current, waiters, stale>>
    BY <1>4 DEF Insert, Return, At
  <2>2. nextId \notin OpenId
    BY <1>t
  <2>3. Live' = Live \cup {port[t]}
    BY <1>4, <2>2 DEF Insert, OpenId, Live
  <2>4. waiters[port[t]] = <<>>
    BY <2>1 DEF Sleepers
  <2>5. \A q \in Live' : q \in Live \/ waiters'[q] = <<>>
    BY <2>1, <2>3, <2>4
  <2>6. \A u \in Thread : pc'[u] = "insert" => waiters'[port'[u]] = <<>>
    BY <1>t, <2>1 DEF Sleepers
  <2>7. \A u \in Thread : pc[u] = "wait" => pc'[u] = "wait" /\ port'[u] = port[u]
    BY <1>t, <2>1
  <2>8. Placement'
    BY <2>1 DEF Placement
  <2> QED BY <1>t, <2>1, <2>5, <2>6, <2>7, <2>8, SleepersFrame
<1>5. ASSUME NEW t \in Thread, ThreadSend(t) PROVE Placement' /\ Sleepers'
  BY <1>t, <1>5, SendPlaces DEF ThreadSend
<1>6. ASSUME NEW t \in Thread, t \notin stale, Receive(t) PROVE Placement' /\ Sleepers'
  <2>1. PICK i \in OpenId : port' = [port EXCEPT ![t] = table[i]] /\ TakeOrWait(t, table[i])
    BY <1>6 DEF Receive
  <2>2. /\ table[i] \in Live /\ current = t /\ pc[t] \in {"user", "wait"}
        /\ UNCHANGED <<table, stale>>
    BY <1>6 DEF Receive, At, Live
  <2> QED BY <1>t, <1>6, <2>1, <2>2, TakeOrWaitPlaces
<1>7. ASSUME NEW t \in Thread, t \notin stale, Recheck(t) PROVE Placement' /\ Sleepers'
  <2>1. /\ current = t /\ pc[t] = "wait" /\ TakeOrWait(t, port[t])
        /\ port' = [port EXCEPT ![t] = port[t]] /\ UNCHANGED <<table, stale>>
    BY <1>t, <1>7 DEF Recheck, At
  <2>2. port[t] \in Live /\ pc[t] \in {"user", "wait"}
    BY <1>7, <2>1 DEF Owned, SeesLive
  <2> QED BY <1>t, <1>7, <2>1, <2>2, TakeOrWaitPlaces
\* The steps that leave the waiters, the table and the CPU alone.
<1>s. ASSUME NEW t \in Thread, pc[t] \notin {"wait", "insert"},
             UNCHANGED <<state, ready, current, waiters, table>>,
             \A u \in Thread : u # t => pc'[u] = pc[u] /\ port'[u] = port[u],
             pc'[t] # "insert",
             \A u \in Thread : u \in stale => u \in stale',
             \A u \in Thread : u \in stale' => u \in stale \/ pc[u] # "wait"
      PROVE  Placement' /\ Sleepers'
  <2>1. Live' = Live /\ Placement'
    BY <1>s DEF Live, OpenId, Placement
  <2> QED BY <1>t, <1>s, <2>1, SleepersStay
<1>8. ASSUME NEW t \in Thread, Copy(t) PROVE Placement' /\ Sleepers'
  BY <1>t, <1>8, <1>s DEF Copy, At, schedVars
<1>9. ASSUME NEW t \in Thread, Release(t) PROVE Placement' /\ Sleepers'
  BY <1>t, <1>9, <1>s DEF Release, Return, At
<1>10. ASSUME NEW t \in Thread, Delete(t) PROVE Placement' /\ Sleepers'
  <2>1. PICK i \in OpenId : Unlist(t, i)
    BY <1>10 DEF Delete
  <2>2. /\ port' = [port EXCEPT ![t] = table[i]] /\ pc[t] = "user" /\ UNCHANGED schedVars
        /\ stale' = stale \cup WaitingOn(table[i]) /\ waiters' = waiters
    BY <2>1 DEF Unlist, At
  <2>3. PICK place \in {"free", "destroy"} : pc' = [pc EXCEPT ![t] = place]
    BY <2>1 DEF Unlist, Hold
  <2>4. Live' = Live \ {table[i]}
    BY <1>t, <2>1, UnlistUnlists
  <2>5. \A u \in Thread : u \in stale' => u \in stale \/ pc[u] # "wait" \/ port[u] \notin Live'
    BY <2>2, <2>4 DEF WaitingOn
  <2>6. \A u \in Thread : u # t => pc'[u] = pc[u] /\ port'[u] = port[u]
    BY <1>t, <2>2, <2>3
  <2>7. pc'[t] # "insert"
    BY <1>t, <2>3
  <2>8. \A u \in Thread : pc'[u] = "insert" => waiters'[port'[u]] = <<>>
    BY <2>2, <2>6, <2>7 DEF Sleepers
  <2>9. Placement' /\ state' = state
    BY <2>2 DEF schedVars, Placement
  <2>10. /\ \A q \in Live : waiters'[q] = waiters[q]
         /\ \A q \in Live' : q \in Live \/ waiters'[q] = <<>>
    BY <2>2, <2>4
  <2>11. /\ \A u \in Thread : pc[u] = "wait" => pc'[u] = "wait" /\ port'[u] = port[u]
         /\ \A u \in Thread : u \in stale => u \in stale'
    BY <2>2, <2>6
  <2> QED BY <1>t, <2>5, <2>8, <2>9, <2>10, <2>11, SleepersFrame
<1>11. ASSUME NEW t \in Thread, FreeMessage(t) PROVE Placement' /\ Sleepers'
  BY <1>t, <1>11, <1>s DEF FreeMessage, At, schedVars
<1>12. ASSUME NEW t \in Thread, Follow(t) PROVE Placement' /\ Sleepers'
  <2>1. PICK place \in {"free", "destroy"} : pc' = [pc EXCEPT ![t] = place]
    BY <1>12 DEF Follow, Hold
  <2> QED BY <1>t, <1>12, <1>s, <2>1 DEF Follow, At, schedVars
<1>13. ASSUME NEW t \in Thread, Recycle(t) PROVE Placement' /\ Sleepers'
  <2>1. /\ UNCHANGED <<state, ready, current, waiters, table, pc, port>> /\ pc[t] = "next"
        /\ stale' = stale \cup {t}
    BY <1>13 DEF Recycle, schedVars
  <2> QED BY <1>t, <1>s, <2>1
<1>14. ASSUME NEW t \in Thread, Destroy(t) PROVE Placement' /\ Sleepers'
  BY <1>t, <1>14, <1>s DEF Destroy, Return, At
<1>15. CASE UNCHANGED vars
  <2>1. UNCHANGED <<state, ready, current, waiters, table, pc, port, stale>>
    BY <1>15 DEF vars, portVars, schedVars
  <2>2. Live' = Live /\ Placement'
    BY <2>1 DEF Live, OpenId, Placement
  <2> QED BY <1>t, <2>1, <2>2, SleepersStay
<1> QED
  BY Steps, <1>1, <1>2, <1>3, <1>4, <1>5, <1>6, <1>7, <1>8, <1>9, <1>10, <1>11, <1>12,
     <1>13, <1>14, <1>15 DEF Acts, Call, Continue

THEOREM PlacedAlways == Spec => []Placed
BY PlacedInit, PlacedStep, PTL DEF Spec

\* Each thread is on the CPU, in the ready queue or among the waiters of the
\* port it receives from, unless that port was deleted, and in one of them only.
THEOREM ThreadsPlaced == Spec => []ThreadPlacement
BY PlacedAlways, PlacedGivesThreadPlacement, PTL

-----------------------------------------------------------------------------
\* MessageOwnership, for every port structure; one that is neither in the table nor
\* being emptied has no message.
InHand(t) == pc[t] \in {"copy", "release", "free"}
Emptying(t) == pc[t] \in {"free", "next"}
Queued(m) == \E p \in PortSlot : m \in ToSet(queue[p])
Taken(m) == \E t \in Thread : InHand(t) /\ msg[t] = m
EmptyElsewhere ==
    \A p \in PortSlot :
      p \in Live \/ queue[p] = <<>> \/ \E t \in Thread : Emptying(t) /\ port[t] = p

Conserved ==
    /\ \A p \in PortSlot : IsInjective(queue[p])
    /\ EmptyElsewhere
    /\ \A p, q \in PortSlot : \A m \in ToSet(queue[p]) : m \in ToSet(queue[q]) => p = q
    /\ \A m \in MsgSlot : m \in freeMsgs <=> ~ Queued(m) /\ ~ Taken(m)
    /\ \A m \in MsgSlot : Queued(m) => ~ Taken(m)
    /\ \A t, u \in Thread : InHand(t) /\ InHand(u) /\ msg[t] = msg[u] => t = u

LEMMA ConservedGivesMessageOwnership == Typed /\ Conserved => MessageOwnership
<1> SUFFICES ASSUME Typed, Conserved PROVE MessageOwnership
  OBVIOUS
<1> DEFINE Used == {p \in PortSlot : p \in Live \/ Deleting(p) # {}}
           In(m) == {p \in Used : m \in ToSet(queue[p])}
           Held(m) == {t \in Thread : pc[t] \in {"copy", "release", "free"} /\ msg[t] = m}
<1>1. \A p \in PortSlot : p \notin Used => ToSet(queue[p]) = {}
  <2>1. \A p \in PortSlot : p \notin Used => queue[p] = <<>>
    BY DEF Conserved, EmptyElsewhere, Emptying, Deleting
  <2> QED BY <2>1, EmptyQueue
<1>2. Used \subseteq PortSlot
  OBVIOUS
<1>3. \A m \in MsgSlot : In(m) = {} <=> ~ Queued(m)
  BY <1>1, <1>2 DEF Queued
<1>4. \A m \in MsgSlot : Held(m) = {} <=> ~ Taken(m)
  BY DEF Taken, InHand
<1>5. \A p \in Used : IsInjective(queue[p])
  BY <1>2 DEF Conserved
<1>6. \A m \in MsgSlot : \A p, q \in In(m) : p = q
  BY <1>2 DEF Conserved
<1>7. \A m \in MsgSlot : \A t, u \in Held(m) : t = u
  BY DEF Conserved, InHand
<1>8. \A m \in MsgSlot : /\ m \in freeMsgs <=> In(m) = {} /\ Held(m) = {}
                         /\ In(m) # {} => Held(m) = {}
  BY <1>3, <1>4 DEF Conserved
<1> HIDE DEF Used, In, Held
<1>9. /\ \A p \in Used : IsInjective(queue[p])
      /\ \A m \in MsgSlot : /\ m \in freeMsgs <=> In(m) = {} /\ Held(m) = {}
                            /\ In(m) # {} => Held(m) = {}
                            /\ \A p, q \in In(m) : p = q
                            /\ \A t, u \in Held(m) : t = u
  BY <1>5, <1>6, <1>7, <1>8
<1> QED BY <1>9 DEF MessageOwnership, Used, In, Held

LEMMA ConservedInit == Init => Conserved
BY EmptyQueue, PortAssumption
DEF Init, Conserved, EmptyElsewhere, Queued, Taken, InHand

\* Steps that leave the messages where they are.
LEMMA ConservedFrame ==
    ASSUME Conserved, UNCHANGED <<queue, freeMsgs>>, EmptyElsewhere',
           \A t \in Thread : InHand(t)' <=> InHand(t),
           \A t \in Thread : InHand(t) => msg'[t] = msg[t]
    PROVE  Conserved'
<1>1. \A m : (Queued(m)' <=> Queued(m)) /\ (Taken(m)' <=> Taken(m))
  BY DEF Queued, Taken
<1> QED BY <1>1 DEF Conserved

\* Steps that leave alone the table and those who are emptying a port.
LEMMA EmptyFrame ==
    ASSUME EmptyElsewhere, UNCHANGED queue, Live \subseteq Live',
           \A t \in Thread : Emptying(t) => Emptying(t)' /\ port'[t] = port[t]
    PROVE  EmptyElsewhere'
BY DEF EmptyElsewhere

\* A message: a free structure joins the list of one port.
LEMMA SendConserves ==
    ASSUME Typed, Conserved, NEW i \in OpenId, NEW message, Send(i, message)
    PROVE  Conserved'
<1>p. PICK p \in PortSlot : p = table[i]
  BY DEF Typed, TypeOK, OpenId
<1>1. PICK m \in freeMsgs : /\ queue' = [queue EXCEPT ![p] = Append(@, m)]
                            /\ freeMsgs' = freeMsgs \ {m}
  BY <1>p DEF Send, Store
<1>2. /\ m \in MsgSlot /\ queue \in [PortSlot -> Seq(MsgSlot)] /\ queue[p] \in Seq(MsgSlot)
      /\ freeMsgs \subseteq MsgSlot
  BY DEF Typed, TypeOK
<1>3. UNCHANGED <<msg, pc, port, table>> /\ p \in Live /\ Live' = Live
  BY <1>p DEF Send, Store, Live, OpenId
<1>4. ~ Queued(m) /\ ~ Taken(m)
  BY <1>2 DEF Conserved
<1>5. m \notin ToSet(queue[p])
  BY <1>4 DEF Queued
<1>6. /\ ToSet(Append(queue[p], m)) = ToSet(queue[p]) \cup {m}
      /\ IsInjective(Append(queue[p], m))
  BY <1>2, <1>5, AppendElements, AppendNew DEF Conserved
<1>7. queue'[p] = Append(queue[p], m) /\ \A q \in PortSlot : q # p => queue'[q] = queue[q]
  BY <1>1, <1>2
<1>8. \A k : /\ Queued(k)' <=> Queued(k) \/ k = m
             /\ Taken(k)' <=> Taken(k)
  BY <1>3, <1>6, <1>7 DEF Queued, Taken, InHand
<1>9. \A q \in PortSlot : IsInjective(queue'[q])
  BY <1>6, <1>7 DEF Conserved
<1>10. EmptyElsewhere'
  BY <1>3, <1>7 DEF Conserved, EmptyElsewhere, Emptying
<1>11. \A q \in PortSlot : m \notin ToSet(queue[q])
  BY <1>4 DEF Queued
<1>12. \A q, r \in PortSlot : \A k \in ToSet(queue'[q]) : k \in ToSet(queue'[r]) => q = r
  BY <1>6, <1>7, <1>11 DEF Conserved
<1>13. \A k \in MsgSlot : k \in freeMsgs' <=> ~ Queued(k)' /\ ~ Taken(k)'
  BY <1>1, <1>8 DEF Conserved
<1>14. \A k \in MsgSlot : Queued(k)' => ~ Taken(k)'
  BY <1>4, <1>8 DEF Conserved
<1>15. \A t, u \in Thread : InHand(t)' /\ InHand(u)' /\ msg'[t] = msg'[u] => t = u
  BY <1>3 DEF Conserved, InHand
<1> QED BY <1>9, <1>10, <1>12, <1>13, <1>14, <1>15 DEF Conserved

\* A receiver, or a thread that deletes the port, takes the first message of the list.
LEMMA TakeConserves ==
    ASSUME Typed, Conserved, NEW t \in Thread, ~ InHand(t), NEW p \in PortSlot,
           queue[p] # <<>>, msg' = [msg EXCEPT ![t] = Head(queue[p])],
           queue' = [queue EXCEPT ![p] = Tail(@)], freeMsgs' = freeMsgs, InHand(t)',
           \A u \in Thread : u # t => (InHand(u)' <=> InHand(u)),
           EmptyElsewhere'
    PROVE  Conserved'
<1>1. /\ queue \in [PortSlot -> Seq(MsgSlot)] /\ queue[p] \in Seq(MsgSlot)
      /\ msg \in [Thread -> MsgSlot \cup {NoMsg}]
  BY DEF Typed, TypeOK
<1>m. PICK m \in MsgSlot : m = Head(queue[p])
  BY <1>1, PopElements
<1>2. /\ m \in ToSet(queue[p]) /\ ToSet(queue[p]) = ToSet(Tail(queue[p])) \cup {m}
      /\ IsInjective(Tail(queue[p])) /\ m \notin ToSet(Tail(queue[p]))
  BY <1>1, <1>m, PopElements, PopOnce DEF Conserved
<1>3. /\ queue'[p] = Tail(queue[p])
      /\ \A q \in PortSlot : q # p => queue'[q] = queue[q]
      /\ msg'[t] = m /\ \A u \in Thread : u # t => msg'[u] = msg[u]
  BY <1>1, <1>m
<1>4. \A q \in PortSlot : q # p => m \notin ToSet(queue[q])
  BY <1>2 DEF Conserved
<1>5. Queued(m) /\ ~ Taken(m) /\ m \notin freeMsgs
  BY <1>2 DEF Queued, Conserved
<1>6. \A k \in MsgSlot : /\ Queued(k)' <=> Queued(k) /\ k # m
                         /\ Taken(k)' <=> Taken(k) \/ k = m
  <2> SUFFICES ASSUME NEW k \in MsgSlot
               PROVE  /\ Queued(k)' <=> Queued(k) /\ k # m
                      /\ Taken(k)' <=> Taken(k) \/ k = m
    OBVIOUS
  <2>1. \A q \in PortSlot : k \in ToSet(queue'[q]) <=> k \in ToSet(queue[q]) /\ k # m
    BY <1>2, <1>3, <1>4
  <2>2. Taken(k)' <=> Taken(k) \/ k = m
    BY <1>1, <1>3 DEF Taken
  <2> QED BY <2>1, <2>2 DEF Queued
<1>7. \A q \in PortSlot : IsInjective(queue'[q])
  BY <1>2, <1>3 DEF Conserved
<1>8. \A q, r \in PortSlot : \A k \in ToSet(queue'[q]) : k \in ToSet(queue'[r]) => q = r
  <2>1. \A q \in PortSlot : ToSet(queue'[q]) \subseteq ToSet(queue[q])
    BY <1>2, <1>3
  <2> QED BY <2>1 DEF Conserved
<1>9. \A k \in MsgSlot : k \in freeMsgs' <=> ~ Queued(k)' /\ ~ Taken(k)'
  BY <1>5, <1>6 DEF Conserved
<1>10. \A k \in MsgSlot : Queued(k)' => ~ Taken(k)'
  BY <1>6 DEF Conserved
<1>11. \A u, v \in Thread : InHand(u)' /\ InHand(v)' /\ msg'[u] = msg'[v] => u = v
  <2>1. \A u \in Thread : InHand(u) => msg[u] # m
    BY <1>5 DEF Taken
  <2> QED BY <1>3, <2>1 DEF Conserved
<1> QED BY <1>7, <1>8, <1>9, <1>10, <1>11 DEF Conserved

\* The thread that has a message in hand frees it.
LEMMA GiveBackConserves ==
    ASSUME Typed, Conserved, NEW t \in Thread, InHand(t), NEW m \in MsgSlot, m = msg[t],
           freeMsgs' = freeMsgs \cup {m}, queue' = queue, ~ InHand(t)',
           \A u \in Thread : u # t => (InHand(u)' <=> InHand(u)) /\ msg'[u] = msg[u],
           EmptyElsewhere'
    PROVE  Conserved'
<1>1. \A u \in Thread : u # t /\ InHand(u) => msg[u] # m
  BY DEF Conserved
<1>2. Taken(m) /\ ~ Queued(m)
  BY DEF Taken, Conserved
<1>3. \A k \in MsgSlot : /\ Queued(k)' <=> Queued(k)
                         /\ Taken(k)' <=> Taken(k) /\ k # m
  BY <1>1 DEF Queued, Taken
<1>4. \A k \in MsgSlot : k \in freeMsgs' <=> ~ Queued(k)' /\ ~ Taken(k)'
  BY <1>2, <1>3 DEF Conserved
<1>5. \A k \in MsgSlot : Queued(k)' => ~ Taken(k)'
  BY <1>3 DEF Conserved
<1>6. \A u, v \in Thread : InHand(u)' /\ InHand(v)' /\ msg'[u] = msg'[v] => u = v
  BY DEF Conserved
<1> QED BY <1>4, <1>5, <1>6 DEF Conserved

\* A receive: the first message of the list passes to the receiver, or it sleeps.
LEMMA TakeOrWaitConserves ==
    ASSUME Owned, Conserved, NEW t \in Thread, pc[t] \in {"user", "wait"}, NEW p \in Live,
           TakeOrWait(t, p), UNCHANGED <<table, freeMsgs>>,
           \A u \in Thread : u # t => port'[u] = port[u]
    PROVE  Conserved'
<1>1. /\ Typed /\ p \in PortSlot /\ Live' = Live
      /\ pc \in [Thread -> Places] /\ queue \in [PortSlot -> Seq(MsgSlot)]
  BY LivePorts DEF Owned, Typed, TypeOK, Live, OpenId, Places
<1>p. PICK place \in {"copy", "wait"} : pc' = [pc EXCEPT ![t] = place]
  BY DEF TakeOrWait
<1>2. /\ pc'[t] = place /\ \A u \in Thread : u # t => pc'[u] = pc[u]
      /\ ~ InHand(t) /\ ~ Emptying(t)
  BY <1>1, <1>p DEF InHand, Emptying
<1>3. \A u \in Thread : Emptying(u) => Emptying(u)' /\ port'[u] = port[u]
  BY <1>2 DEF Emptying
<1>4. CASE queue[p] = <<>>
  <2>1. queue' = queue /\ msg' = msg /\ pc'[t] = "wait"
    BY <1>1, <1>4 DEF TakeOrWait
  <2>2. EmptyElsewhere'
    BY <1>1, <1>3, <2>1, EmptyFrame DEF Conserved
  <2> QED BY <1>2, <2>1, <2>2, ConservedFrame DEF InHand
<1>5. CASE queue[p] # <<>>
  <2>1. /\ msg' = [msg EXCEPT ![t] = Head(queue[p])]
        /\ queue' = [queue EXCEPT ![p] = Tail(@)] /\ pc'[t] = "copy"
    BY <1>1, <1>5 DEF TakeOrWait
  <2>2. EmptyElsewhere'
    BY <1>1, <1>3, <2>1 DEF Conserved, EmptyElsewhere
  <2>3. InHand(t)' /\ \A u \in Thread : u # t => (InHand(u)' <=> InHand(u))
    BY <1>2, <2>1 DEF InHand
  <2> QED BY <1>1, <1>2, <1>5, <2>1, <2>2, <2>3, TakeConserves
<1> QED BY <1>4, <1>5

\* A deletion has the next message in hand, or finds that none is left.
LEMMA HoldConserves ==
    ASSUME Typed, Conserved, NEW t \in Thread, pc[t] \in {"user", "next"}, NEW p \in PortSlot,
           Hold(t, p), port'[t] = p, UNCHANGED freeMsgs, Live \subseteq Live' \cup {p},
           \A u \in Thread : u # t => port'[u] = port[u],
           pc[t] = "next" => port[t] = p,
           \A u \in Thread : u # t /\ Emptying(u) => port[u] # p,
           p \notin Live'
    PROVE  Conserved'
<1>1. pc \in [Thread -> Places] /\ queue \in [PortSlot -> Seq(MsgSlot)]
  BY DEF Typed, TypeOK, Places
<1>p. PICK place \in {"free", "destroy"} : pc' = [pc EXCEPT ![t] = place]
  BY DEF Hold
<1>2. pc'[t] = place /\ (\A u \in Thread : u # t => pc'[u] = pc[u]) /\ ~ InHand(t)
  BY <1>1, <1>p DEF InHand
<1>3. \A q \in PortSlot : q # p =>
        q \in Live' \/ queue[q] = <<>> \/ \E u \in Thread : Emptying(u)' /\ port'[u] = q
  <2> SUFFICES ASSUME NEW q \in PortSlot, q # p, q \notin Live', queue[q] # <<>>
               PROVE  \E u \in Thread : Emptying(u)' /\ port'[u] = q
    OBVIOUS
  <2>1. PICK u \in Thread : Emptying(u) /\ port[u] = q
    BY DEF Conserved, EmptyElsewhere
  <2>2. u # t
    BY <2>1 DEF Emptying
  <2>3. Emptying(u)' /\ port'[u] = q
    BY <1>2, <2>1, <2>2 DEF Emptying
  <2> QED BY <2>3
<1>4. CASE queue[p] = <<>>
  <2>1. queue' = queue /\ pc'[t] = "destroy"
    BY <1>1, <1>4 DEF Hold
  <2>2. EmptyElsewhere'
    BY <1>3, <1>4, <2>1 DEF EmptyElsewhere
  <2>3. \A u \in Thread : (InHand(u)' <=> InHand(u)) /\ (InHand(u) => msg'[u] = msg[u])
    BY <1>2, <1>4, <2>1 DEF InHand, Hold, Typed, TypeOK
  <2> QED BY <2>1, <2>2, <2>3, ConservedFrame
<1>5. CASE queue[p] # <<>>
  <2>1. /\ msg' = [msg EXCEPT ![t] = Head(queue[p])]
        /\ queue' = [queue EXCEPT ![p] = Tail(@)] /\ pc'[t] = "free"
    BY <1>1, <1>5 DEF Hold
  <2>2. EmptyElsewhere'
    <3>1. Emptying(t)' /\ port'[t] = p
      BY <2>1 DEF Emptying
    <3>2. \A q \in PortSlot : q # p => queue'[q] = queue[q]
      BY <1>1, <2>1
    <3> QED BY <1>3, <3>1, <3>2 DEF EmptyElsewhere
  <2>3. InHand(t)' /\ \A u \in Thread : u # t => (InHand(u)' <=> InHand(u))
    BY <1>2, <2>1 DEF InHand
  <2> QED BY <1>2, <1>5, <2>1, <2>2, <2>3, TakeConserves
<1> QED BY <1>4, <1>5

LEMMA ConservedStep == Owned /\ Conserved /\ [Next]_vars => Conserved'
<1> SUFFICES ASSUME Owned, Conserved, [Next]_vars PROVE Conserved'
  OBVIOUS
<1>t. /\ Typed /\ table \in [OpenId -> PortSlot] /\ freePorts \subseteq PortSlot
      /\ pc \in [Thread -> Places] /\ port \in [Thread -> PortSlot \cup {NoPort}]
      /\ queue \in [PortSlot -> Seq(MsgSlot)] /\ msg \in [Thread -> MsgSlot \cup {NoMsg}]
      /\ freeMsgs \subseteq MsgSlot /\ EmptyElsewhere
  BY DEF Owned, Typed, TypeOK, OpenId, Conserved, Places
<1>l. \A t \in Thread : /\ pc[t] # "user" => port[t] \in PortSlot
                        /\ InHand(t) => msg[t] \in MsgSlot
  BY DEF Owned, Typed, LocalsOK, InHand, WithMsg
\* The steps of a thread that has no message in hand and is not emptying a port.
<1>s. ASSUME NEW t \in Thread, ~ InHand(t), ~ Emptying(t),
             ~ InHand(t)', UNCHANGED <<queue, freeMsgs>>, Live \subseteq Live',
             \A u \in Thread : u # t => pc'[u] = pc[u] /\ port'[u] = port[u] /\ msg'[u] = msg[u]
      PROVE  Conserved'
  <2>1. EmptyElsewhere'
    BY <1>t, <1>s, EmptyFrame DEF Emptying
  <2> QED BY <1>s, <2>1, ConservedFrame DEF InHand
<1>1. CASE Preempt /\ UNCHANGED portVars
  <2>1. UNCHANGED <<queue, freeMsgs, pc, port, msg>> /\ Live' = Live
    BY <1>1 DEF portVars, Live, OpenId
  <2> QED BY <1>t, <2>1, ConservedFrame, EmptyFrame DEF InHand, Emptying
<1>2. CASE IrqSend
  BY <1>t, <1>2, SendConserves DEF IrqSend
<1>3. ASSUME NEW t \in Thread, Create(t) PROVE Conserved'
  <2>1. PICK p \in freePorts :
          queue' = [queue EXCEPT ![p] = <<>>] /\ port' = [port EXCEPT ![t] = p]
    BY <1>3 DEF Create
  <2>2. queue[p] = <<>>
    <3>1. p \in PortSlot /\ p \notin Live /\ \A u \in Thread : Emptying(u) => port[u] # p
      BY <1>t DEF Owned, Owners, Live, Emptying, Holding
    <3> QED BY <1>t, <3>1 DEF EmptyElsewhere
  <2>3. queue' = queue
    BY <1>t, <2>1, <2>2
  <2>4. /\ msg' = msg /\ freeMsgs' = freeMsgs /\ Live' = Live /\ pc[t] = "user"
        /\ pc' = [pc EXCEPT ![t] = "insert"]
    BY <1>3 DEF Create, Live, OpenId, At
  <2> QED BY <1>t, <1>s, <2>1, <2>3, <2>4 DEF InHand, Emptying
<1>4. ASSUME NEW t \in Thread, Insert(t) PROVE Conserved'
  <2>1. /\ pc[t] = "insert" /\ pc' = [pc EXCEPT ![t] = "user"]
        /\ port' = [port EXCEPT ![t] = NoPort] /\ msg' = [msg EXCEPT ![t] = NoMsg]
        /\ queue' = queue /\ freeMsgs' = freeMsgs
    BY <1>4 DEF Insert, Return, At
  <2>3. nextId \notin OpenId
    BY DEF Owned, Typed, TypeOK, OpenId
  <2>4. Live \subseteq Live'
    BY <1>4, <2>3 DEF Insert, Live, OpenId
  <2> QED BY <1>t, <1>s, <2>1, <2>4 DEF InHand, Emptying
<1>5. ASSUME NEW t \in Thread, ThreadSend(t) PROVE Conserved'
  BY <1>t, <1>5, SendConserves DEF ThreadSend
<1>6. ASSUME NEW t \in Thread, Receive(t) PROVE Conserved'
  <2>1. PICK i \in OpenId : port' = [port EXCEPT ![t] = table[i]] /\ TakeOrWait(t, table[i])
    BY <1>6 DEF Receive
  <2>2. table[i] \in Live /\ pc[t] \in {"user", "wait"} /\ UNCHANGED <<table, freeMsgs>>
    BY <1>6 DEF Receive, At, Live
  <2> QED BY <1>t, <2>1, <2>2, TakeOrWaitConserves
<1>7. ASSUME NEW t \in Thread, t \notin stale, Recheck(t) PROVE Conserved'
  <2>1. /\ pc[t] = "wait" /\ TakeOrWait(t, port[t]) /\ UNCHANGED <<table, freeMsgs, port>>
    BY <1>7 DEF Recheck, At
  <2>2. port[t] \in Live /\ pc[t] \in {"user", "wait"}
    BY <1>7, <2>1 DEF Owned, SeesLive
  <2> QED BY <1>t, <2>1, <2>2, TakeOrWaitConserves
<1>8. ASSUME NEW t \in Thread, Copy(t) PROVE Conserved'
  <2>1. /\ pc[t] = "copy" /\ pc' = [pc EXCEPT ![t] = "release"]
        /\ UNCHANGED <<queue, freeMsgs, port, msg>> /\ Live' = Live
    BY <1>8 DEF Copy, At, Live, OpenId
  <2> QED BY <1>t, <2>1, ConservedFrame, EmptyFrame DEF InHand, Emptying
<1>9. ASSUME NEW t \in Thread, Release(t) PROVE Conserved'
  <2>m. PICK m \in MsgSlot : m = msg[t]
    BY <1>l, <1>9 DEF Release, At, InHand
  <2>1. /\ msg' = [msg EXCEPT ![t] = NoMsg] /\ freeMsgs' = freeMsgs \cup {m}
        /\ queue' = queue /\ Live' = Live /\ pc[t] = "release"
        /\ pc' = [pc EXCEPT ![t] = "user"] /\ port' = [port EXCEPT ![t] = NoPort]
    BY <1>9, <2>m DEF Release, Return, Live, OpenId, At
  <2>2. InHand(t) /\ ~ Emptying(t) /\ ~ InHand(t)'
    BY <1>t, <2>1 DEF InHand, Emptying
  <2>3. \A u \in Thread : u # t => pc'[u] = pc[u] /\ port'[u] = port[u] /\ msg'[u] = msg[u]
    BY <1>t, <2>1
  <2>4. EmptyElsewhere'
    BY <1>t, <2>1, <2>2, <2>3, EmptyFrame DEF Emptying
  <2> QED BY <1>t, <2>m, <2>1, <2>2, <2>3, <2>4, GiveBackConserves DEF InHand
<1>10. ASSUME NEW t \in Thread, Delete(t) PROVE Conserved'
  <2>1. PICK i \in OpenId : Unlist(t, i)
    BY <1>10 DEF Delete
  <2>p. PICK p \in PortSlot : p = table[i]
    BY <1>t
  <2>2. /\ Hold(t, p) /\ freeMsgs' = freeMsgs /\ pc[t] \in {"user", "next"} /\ pc[t] # "next"
        /\ port' = [port EXCEPT ![t] = p]
    BY <2>1, <2>p DEF Unlist, At
  <2>3. Live' = Live \ {p}
    BY <1>t, <2>1, <2>p, UnlistUnlists
  <2>4. \A u \in Thread : Emptying(u) => port[u] # p
    BY <2>p DEF Owned, Owners, Live, Emptying, Holding
  <2> QED BY <1>t, <2>2, <2>3, <2>4, HoldConserves
<1>11. ASSUME NEW t \in Thread, FreeMessage(t) PROVE Conserved'
  <2>m. PICK m \in MsgSlot : m = msg[t]
    BY <1>l, <1>11 DEF FreeMessage, At, InHand
  <2>1. /\ UNCHANGED <<queue, port, msg>> /\ freeMsgs' = freeMsgs \cup {m} /\ Live' = Live
        /\ pc[t] = "free" /\ pc' = [pc EXCEPT ![t] = "next"]
    BY <1>11, <2>m DEF FreeMessage, Live, OpenId, At
  <2>2. InHand(t) /\ ~ InHand(t)' /\ \A u \in Thread : u # t => pc'[u] = pc[u]
    BY <1>t, <2>1 DEF InHand
  <2>3. \A u \in Thread : Emptying(u) => Emptying(u)'
    BY <1>t, <2>1 DEF Emptying
  <2>4. EmptyElsewhere'
    BY <1>t, <2>1, <2>3, EmptyFrame
  <2> QED BY <1>t, <2>m, <2>1, <2>2, <2>4, GiveBackConserves DEF InHand
<1>12. ASSUME NEW t \in Thread, Follow(t) PROVE Conserved'
  <2>p. PICK p \in PortSlot : p = port[t]
    BY <1>l, <1>12 DEF Follow, At
  <2>2. /\ Hold(t, p) /\ UNCHANGED <<freeMsgs, port>> /\ pc[t] = "next"
        /\ pc[t] \in {"user", "next"} /\ Live' = Live
    BY <1>12, <2>p DEF Follow, At, Live, OpenId
  <2>3. p \notin Live /\ \A u \in Thread : u # t /\ Emptying(u) => port[u] # p
    BY <2>p, <2>2 DEF Owned, Owners, Emptying, Holding
  <2> QED BY <1>t, <2>p, <2>2, <2>3, HoldConserves
<1>13. ASSUME NEW t \in Thread, Recycle(t) PROVE Conserved'
  <2>1. UNCHANGED <<queue, freeMsgs, pc, port, msg>> /\ Live' = Live
    BY <1>13 DEF Recycle, Live, OpenId
  <2> QED BY <1>t, <2>1, ConservedFrame, EmptyFrame DEF InHand, Emptying
<1>14. ASSUME NEW t \in Thread, Destroy(t) PROVE Conserved'
  <2>1. /\ pc[t] = "destroy" /\ pc' = [pc EXCEPT ![t] = "user"]
        /\ port' = [port EXCEPT ![t] = NoPort] /\ msg' = [msg EXCEPT ![t] = NoMsg]
        /\ queue' = queue /\ freeMsgs' = freeMsgs /\ Live' = Live
    BY <1>14 DEF Destroy, Return, At, Live, OpenId
  <2> QED BY <1>t, <1>s, <2>1 DEF InHand, Emptying
<1>15. CASE UNCHANGED vars
  <2>1. UNCHANGED <<queue, freeMsgs, pc, port, msg>> /\ Live' = Live
    BY <1>15 DEF vars, portVars, Live, OpenId
  <2> QED BY <1>t, <2>1, ConservedFrame, EmptyFrame DEF InHand, Emptying
<1> QED
  BY Steps, <1>1, <1>2, <1>3, <1>4, <1>5, <1>6, <1>7, <1>8, <1>9, <1>10, <1>11, <1>12,
     <1>13, <1>14, <1>15 DEF Acts, Call, Continue

\* A message structure is free, or queued once on a port that is in the table or whose
\* deletion has not come to it, or held by the one thread that took it, to deliver it
\* or to free it with its port.
THEOREM MessagesOwned == Spec => []MessageOwnership
<1>1. Typed /\ Conserved => MessageOwnership
  BY ConservedGivesMessageOwnership
<1>2. Owned => Typed
  BY DEF Owned
<1>3. Spec => []Conserved
  BY ConservedInit, OwnedAlways, ConservedStep, PTL DEF Spec
<1> QED BY <1>1, <1>2, <1>3, OwnedAlways, PTL

-----------------------------------------------------------------------------
LEMMA WokenFinite ==
    ASSUME NEW p
    PROVE  IsFiniteSet(Woken(p)) /\ Cardinality(Woken(p)) \in Nat
<1>1. IsFiniteSet(Thread)
  BY BootOrderAssumption, QueueFinite
<1>2. Woken(p) \subseteq Thread
  BY DEF Woken, WaitingOn
<1> QED BY <1>1, <1>2, FS_Subset, FS_CardinalityType

\* Steps that neither queue nor take a message of a port of the table, nor wake or send
\* off a receiver.
LEMMA WokenFrame ==
    ASSUME NoLostWakeup,
           \A p \in Live' : \/ waiters'[p] = <<>>
                            \/ p \in Live /\ queue'[p] = queue[p] /\ waiters'[p] = waiters[p],
           \A t \in Thread : state'[t] = "SLEEPING" <=> state[t] = "SLEEPING",
           \A t \in Thread : pc[t] = "wait" <=> pc'[t] = "wait",
           \A t \in Thread : pc[t] = "wait" => port'[t] = port[t],
           \A t \in Thread : t \in stale => t \in stale',
           \A t \in Thread : t \in stale' => t \in stale \/ pc[t] # "wait" \/ port[t] \notin Live'
    PROVE  NoLostWakeup'
<1>1. \A p \in Live' : Woken(p)' = Woken(p)
  BY DEF Woken, WaitingOn
<1> QED BY <1>1 DEF NoLostWakeup

\* The usual case of it.
LEMMA WokenStay ==
    ASSUME NoLostWakeup, UNCHANGED <<queue, waiters>>, Live' = Live,
           \A t \in Thread : state'[t] = "SLEEPING" <=> state[t] = "SLEEPING",
           \A t \in Thread : pc[t] = "wait" <=> pc'[t] = "wait",
           \A t \in Thread : pc[t] = "wait" => port'[t] = port[t],
           \A t \in Thread : t \in stale => t \in stale',
           \A t \in Thread : t \in stale' => t \in stale \/ pc[t] # "wait"
    PROVE  NoLostWakeup'
BY WokenFrame

\* A message queued on a port with a waiter wakes one more receiver.
LEMMA SendWakes ==
    ASSUME Typed, Sleepers, NoLostWakeup,
           NEW i \in OpenId, NEW message, Send(i, message)
    PROVE  NoLostWakeup'
<1>p. PICK p \in PortSlot : p = table[i]
  BY DEF Typed, TypeOK, OpenId
<1>1. /\ p \in PortSlot /\ waiters[p] \in Seq(Thread) /\ queue[p] \in Seq(MsgSlot)
      /\ waiters \in [PortSlot -> Seq(Thread)] /\ queue \in [PortSlot -> Seq(MsgSlot)]
      /\ SchedTypeOK
  BY DEF Typed, TypeOK
<1>l. p \in Live /\ Live' = Live /\ Live \subseteq PortSlot
  BY <1>p, LivePorts DEF Send, Store, Live, OpenId
<1>2. PICK m \in freeMsgs : queue' = [queue EXCEPT ![p] = Append(@, m)]
  BY <1>p DEF Send, Store
<1>3. pc' = pc /\ port' = port
  BY DEF Send, Store
<1>s. \A t \in Thread : pc[t] = "wait" => (t \in stale' <=> t \in stale)
  BY DEF Send, Store
<1>4. CASE waiters[p] = <<>>
  <2>1. waiters' = waiters
    BY <1>p, <1>1, <1>4 DEF Send, Store
  <2>2. WakeUp(<<>>)
    BY <1>p, <1>4 DEF Send, Store
  <2>3. state' = state
    BY <1>1, <2>2, WakeUpNobody
  <2>4. \A q \in PortSlot : Woken(q)' = Woken(q)
    BY <1>3, <1>s, <2>3 DEF Woken, WaitingOn
  <2>5. \A q \in PortSlot : q # p => queue'[q] = queue[q]
    BY <1>1, <1>2
  <2> QED BY <1>4, <1>l, <2>1, <2>4, <2>5 DEF NoLostWakeup
<1>5. CASE waiters[p] # <<>>
  <2>h. PICK h \in Thread : h = Head(waiters[p])
    BY <1>1, <1>5, PopElements
  <2>1. WakeUp(<<h>>)
    BY <1>p, <1>5, <2>h DEF Send, Store
  <2>2. h \in ToSet(waiters[p])
    BY <1>1, <1>5, <2>h, PopElements
  <2>3. state[h] = "SLEEPING" /\ pc[h] = "wait" /\ port[h] = p /\ h \notin stale
    BY <1>l, <2>2 DEF Sleepers
  <2>4. \A t \in Thread : state'[t] = IF t = h THEN "READY" ELSE state[t]
    BY <2>1 DEF WakeUp, ToSet
  <2>5. Woken(p)' = Woken(p) \cup {h} /\ h \notin Woken(p)
    BY <1>3, <1>s, <2>2, <2>3, <2>4 DEF Woken, WaitingOn
  <2>6. Cardinality(Woken(p)') = Cardinality(Woken(p)) + 1
    BY <2>5, WokenFinite, FS_AddElement
  <2>7. Len(queue'[p]) = Len(queue[p]) + 1 /\ Len(queue[p]) \in Nat
    <3>1. m \in MsgSlot
      BY DEF Typed, TypeOK
    <3>2. queue'[p] = Append(queue[p], m)
      BY <1>1, <1>2
    <3> QED BY <1>1, <3>1, <3>2, AppendElements, QueueElements
  <2>8. Len(queue'[p]) <= Cardinality(Woken(p)')
    BY <1>l, <1>5, <2>6, <2>7, WokenFinite DEF NoLostWakeup
  <2>9. \A q \in PortSlot : q # p =>
          /\ queue'[q] = queue[q] /\ waiters'[q] = waiters[q]
          /\ Woken(q)' = Woken(q)
    <3>1. \A q \in PortSlot : q # p => queue'[q] = queue[q]
      BY <1>1, <1>2
    <3>2. waiters' = [waiters EXCEPT ![p] = IF @ = <<>> THEN @ ELSE Tail(@)]
      BY <1>p DEF Send, Store
    <3>3. \A q \in PortSlot : q # p => waiters'[q] = waiters[q]
      BY <1>1, <3>2
    <3>4. \A q \in PortSlot : q # p => Woken(q)' = Woken(q)
      BY <1>3, <1>s, <2>3, <2>4 DEF Woken, WaitingOn
    <3> QED BY <3>1, <3>3, <3>4
  <2> QED BY <1>l, <2>8, <2>9 DEF NoLostWakeup
<1> QED BY <1>4, <1>5

\* A woken receiver takes its message; one that finds none was not needed.
LEMMA TakeOrWaitWakes ==
    ASSUME Typed, Placement, Sleepers, NoLostWakeup,
           NEW t \in Thread, current = t, t \notin stale, NEW p \in Live, TakeOrWait(t, p),
           port' = [port EXCEPT ![t] = p], pc[t] = "wait" => port[t] = p,
           UNCHANGED <<table, stale>>
    PROVE  NoLostWakeup'
<1>1. /\ queue[p] \in Seq(MsgSlot) /\ SchedTypeOK /\ p \in PortSlot
      /\ waiters \in [PortSlot -> Seq(Thread)] /\ queue \in [PortSlot -> Seq(MsgSlot)]
      /\ port \in [Thread -> PortSlot \cup {NoPort}]
      /\ pc \in [Thread -> Places]
  BY LivePorts DEF Typed, TypeOK, Places
<1>l. Live' = Live /\ Live \subseteq PortSlot
  BY LivePorts DEF Live, OpenId
<1>2. state[t] # "SLEEPING"
  BY DEF Placement
<1>3. CASE queue[p] # <<>>
  <2>1. /\ UNCHANGED schedVars /\ waiters' = waiters
        /\ pc' = [pc EXCEPT ![t] = "copy"]
        /\ queue' = [queue EXCEPT ![p] = Tail(@)]
    BY <1>3 DEF TakeOrWait
  <2>2. \A q \in PortSlot : q # p => Woken(q)' = Woken(q) /\ queue'[q] = queue[q]
    BY <1>1, <2>1 DEF Woken, WaitingOn, schedVars
  <2>3. Woken(p)' = Woken(p) \ {t}
    BY <1>1, <2>1 DEF Woken, WaitingOn, schedVars
  <2>4. Cardinality(Woken(p)') >= Cardinality(Woken(p)) - 1
    <3>1. CASE t \in Woken(p)
      <4>1. IsFiniteSet(Woken(p))
        BY WokenFinite
      <4>2. Cardinality(Woken(p) \ {t}) = Cardinality(Woken(p)) - 1
        BY <3>1, <4>1, FS_RemoveElement
      <4>3. Cardinality(Woken(p)) \in Nat
        BY <4>1, FS_CardinalityType
      <4>4. Cardinality(Woken(p)') = Cardinality(Woken(p)) - 1
        BY <2>3, <4>2
      <4> QED BY <4>3, <4>4
    <3>2. CASE t \notin Woken(p)
      <4>1. Woken(p)' = Woken(p)
        BY <2>3, <3>2
      <4> QED BY <4>1, WokenFinite
    <3> QED BY <3>1, <3>2
  <2>5. Len(queue'[p]) = Len(queue[p]) - 1 /\ Len(queue[p]) \in Nat
    <3>1. queue'[p] = Tail(queue[p])
      BY <1>1, <2>1
    <3> QED BY <1>1, <1>3, <3>1, PopElements, QueueElements
  <2>6. Cardinality(Woken(p)') \in Nat /\ Cardinality(Woken(p)) \in Nat
    <3>1. IsFiniteSet(Woken(p) \ {t})
      BY WokenFinite, FS_RemoveElement, FS_Subset
    <3> QED BY <2>3, <3>1, WokenFinite, FS_CardinalityType
  <2>7. waiters'[p] # <<>> => Len(queue'[p]) <= Cardinality(Woken(p)')
    BY <2>1, <2>4, <2>5, <2>6 DEF NoLostWakeup
  <2> QED BY <1>l, <2>1, <2>2, <2>7 DEF NoLostWakeup
<1>4. CASE queue[p] = <<>>
  <2>1. /\ waiters' = [waiters EXCEPT ![p] = Append(@, t)] /\ queue' = queue
        /\ pc' = [pc EXCEPT ![t] = "wait"] /\ Sleep
    BY <1>4 DEF TakeOrWait
  <2>2. \A u \in Thread : state'[u] = "SLEEPING" <=> state[u] = "SLEEPING" \/ u = t
    BY <1>1, <2>1, SleepPlaces
  <2>3. \A q \in PortSlot : q # p => Woken(q)' = Woken(q) /\ waiters'[q] = waiters[q]
    BY <1>1, <2>1, <2>2 DEF Woken, WaitingOn
  <2>4. Woken(p)' \subseteq Thread
    BY DEF Woken, WaitingOn
  <2>5. Cardinality(Woken(p)') \in Nat
    <3>1. IsFiniteSet(Thread)
      BY BootOrderAssumption, QueueFinite
    <3> QED BY <2>4, <3>1, FS_Subset, FS_CardinalityType
  <2>6. Len(queue'[p]) = 0
    BY <1>4, <2>1, EmptyQueue
  <2>7. Len(queue'[p]) <= Cardinality(Woken(p)')
    BY <2>5, <2>6
  <2> QED BY <1>l, <2>1, <2>3, <2>7 DEF NoLostWakeup
<1> QED BY <1>3, <1>4

LEMMA WokenInit == Init => NoLostWakeup
BY DEF Init, NoLostWakeup, Live, OpenId

LEMMA WokenStep == Placed /\ NoLostWakeup /\ [Next]_vars => NoLostWakeup'
<1> SUFFICES ASSUME Placed, NoLostWakeup, [Next]_vars PROVE NoLostWakeup'
  OBVIOUS
<1>t. /\ pc \in [Thread -> Places]
      /\ port \in [Thread -> PortSlot \cup {NoPort}]
      /\ waiters \in [PortSlot -> Seq(Thread)] /\ queue \in [PortSlot -> Seq(MsgSlot)]
      /\ table \in [OpenId -> PortSlot] /\ freePorts \subseteq PortSlot
      /\ SchedTypeOK /\ Typed /\ Owned /\ Placement /\ Sleepers
      /\ OpenId \subseteq 0 .. nextId - 1 /\ nextId \in Nat
  BY DEF Placed, Owned, Typed, TypeOK, OpenId, Places
<1>1. CASE Preempt /\ UNCHANGED portVars
  <2>1. UNCHANGED <<table, queue, waiters, pc, port, stale>> /\ Live' = Live
    BY <1>1 DEF portVars, Live, OpenId
  <2>2. \A t \in Thread : state'[t] = "SLEEPING" <=> state[t] = "SLEEPING"
    BY <1>t, <1>1, PreemptPlaces
  <2> QED BY <2>1, <2>2, WokenStay
<1>2. CASE IrqSend
  BY <1>t, <1>2, SendWakes DEF IrqSend
<1>3. ASSUME NEW t \in Thread, Create(t) PROVE NoLostWakeup'
  <2>1. PICK p \in freePorts :
          /\ queue' = [queue EXCEPT ![p] = <<>>] /\ waiters' = [waiters EXCEPT ![p] = <<>>]
          /\ port' = [port EXCEPT ![t] = p]
    BY <1>3 DEF Create
  <2>2. /\ pc[t] = "user" /\ pc' = [pc EXCEPT ![t] = "insert"] /\ state' = state
        /\ stale' = stale /\ Live' = Live
    BY <1>3 DEF Create, At, schedVars, Live, OpenId
  <2>3. p \notin Live
    BY <1>t DEF Owned, Owners, Live
  <2>4. \A q \in Live' : q \in Live /\ queue'[q] = queue[q] /\ waiters'[q] = waiters[q]
    BY <1>t, <2>1, <2>2, <2>3
  <2>5. \A u \in Thread : /\ pc[u] = "wait" <=> pc'[u] = "wait"
                          /\ pc[u] = "wait" => port'[u] = port[u]
    BY <1>t, <2>1, <2>2
  <2> QED BY <2>2, <2>4, <2>5, WokenFrame
<1>4. ASSUME NEW t \in Thread, Insert(t) PROVE NoLostWakeup'
  <2>1. /\ pc[t] = "insert" /\ pc' = [pc EXCEPT ![t] = "user"]
        /\ port' = [port EXCEPT ![t] = NoPort]
        /\ UNCHANGED <<state, queue, waiters, stale>>
    BY <1>4 DEF Insert, Return, At
  <2>2. nextId \notin OpenId
    BY <1>t
  <2>3. Live' = Live \cup {port[t]}
    BY <1>4, <2>2 DEF Insert, OpenId, Live
  <2>4. waiters[port[t]] = <<>>
    BY <1>t, <2>1 DEF Sleepers
  <2>5. \A u \in Thread : /\ pc[u] = "wait" <=> pc'[u] = "wait"
                          /\ pc[u] = "wait" => port'[u] = port[u]
    BY <1>t, <2>1
  <2> QED BY <2>1, <2>3, <2>4, <2>5, WokenFrame
<1>5. ASSUME NEW t \in Thread, ThreadSend(t) PROVE NoLostWakeup'
  BY <1>t, <1>5, SendWakes DEF ThreadSend
<1>6. ASSUME NEW t \in Thread, t \notin stale, Receive(t) PROVE NoLostWakeup'
  <2>1. PICK i \in OpenId : port' = [port EXCEPT ![t] = table[i]] /\ TakeOrWait(t, table[i])
    BY <1>6 DEF Receive
  <2>2. /\ table[i] \in Live /\ current = t /\ pc[t] = "user" /\ UNCHANGED <<table, stale>>
    BY <1>6 DEF Receive, At, Live
  <2> QED BY <1>t, <1>6, <2>1, <2>2, TakeOrWaitWakes
<1>7. ASSUME NEW t \in Thread, t \notin stale, Recheck(t) PROVE NoLostWakeup'
  <2>1. /\ current = t /\ pc[t] = "wait" /\ TakeOrWait(t, port[t])
        /\ port' = [port EXCEPT ![t] = port[t]] /\ UNCHANGED <<table, stale>>
    BY <1>t, <1>7 DEF Recheck, At
  <2>2. port[t] \in Live
    BY <1>t, <1>7, <2>1 DEF Owned, SeesLive
  <2> QED BY <1>t, <1>7, <2>1, <2>2, TakeOrWaitWakes
\* The steps of a thread that waits neither before nor after.
<1>s. ASSUME NEW t \in Thread, pc[t] # "wait", pc'[t] # "wait",
             UNCHANGED <<state, waiters, table>>, \A p \in Live : queue'[p] = queue[p],
             \A u \in Thread : u # t => pc'[u] = pc[u] /\ port'[u] = port[u],
             \A u \in Thread : u \in stale => u \in stale',
             \A u \in Thread : u \in stale' => u \in stale \/ pc[u] # "wait"
      PROVE  NoLostWakeup'
  <2>1. Live' = Live
    BY <1>s DEF Live, OpenId
  <2> QED BY <1>s, <2>1, WokenFrame
<1>8. ASSUME NEW t \in Thread, Copy(t) PROVE NoLostWakeup'
  BY <1>t, <1>8, <1>s DEF Copy, At, schedVars
<1>9. ASSUME NEW t \in Thread, Release(t) PROVE NoLostWakeup'
  BY <1>t, <1>9, <1>s DEF Release, Return, At
<1>10. ASSUME NEW t \in Thread, Delete(t) PROVE NoLostWakeup'
  <2>1. PICK i \in OpenId : Unlist(t, i)
    BY <1>10 DEF Delete
  <2>2. /\ port' = [port EXCEPT ![t] = table[i]] /\ pc[t] = "user" /\ state' = state
        /\ stale' = stale \cup WaitingOn(table[i]) /\ waiters' = waiters
        /\ table[i] \in PortSlot /\ Hold(t, table[i])
    BY <1>t, <2>1 DEF Unlist, At, schedVars
  <2>3. PICK place \in {"free", "destroy"} : pc' = [pc EXCEPT ![t] = place]
    BY <2>1 DEF Unlist, Hold
  <2>4. Live' = Live \ {table[i]}
    BY <1>t, <2>1, UnlistUnlists
  <2>5. \A u \in Thread : u \in stale' => u \in stale \/ pc[u] # "wait" \/ port[u] \notin Live'
    BY <2>2, <2>4 DEF WaitingOn
  <2>6. \A u \in Thread : /\ pc[u] = "wait" <=> pc'[u] = "wait"
                          /\ pc[u] = "wait" => port'[u] = port[u]
                          /\ u \in stale => u \in stale'
    BY <1>t, <2>2, <2>3
  <2>7. \A p \in PortSlot : p # table[i] => queue'[p] = queue[p]
    BY <1>t, <2>2 DEF Hold
  <2>8. \A p \in Live' : p \in Live /\ queue'[p] = queue[p] /\ waiters'[p] = waiters[p]
    BY <1>t, <2>2, <2>4, <2>7, LivePorts
  <2> QED BY <2>2, <2>5, <2>6, <2>8, WokenFrame
<1>11. ASSUME NEW t \in Thread, FreeMessage(t) PROVE NoLostWakeup'
  BY <1>t, <1>11, <1>s DEF FreeMessage, At, schedVars
<1>12. ASSUME NEW t \in Thread, Follow(t) PROVE NoLostWakeup'
  <2>1. PICK place \in {"free", "destroy"} : pc' = [pc EXCEPT ![t] = place]
    BY <1>12 DEF Follow, Hold
  <2>2. /\ pc[t] = "next" /\ Hold(t, port[t]) /\ UNCHANGED <<state, waiters, table, port, stale>>
    BY <1>12 DEF Follow, At, schedVars
  <2>3. port[t] \notin Live
    BY <1>t, <2>2 DEF Owned, Owners, Holding
  <2>4. \A p \in Live : queue'[p] = queue[p]
    BY <1>t, <2>2, <2>3, LivePorts DEF Hold
  <2> QED BY <1>t, <1>s, <2>1, <2>2, <2>4
<1>13. ASSUME NEW t \in Thread, Recycle(t) PROVE NoLostWakeup'
  <2>1. /\ UNCHANGED <<state, waiters, queue, table, pc, port>> /\ pc[t] = "next"
        /\ stale' = stale \cup {t}
    BY <1>13 DEF Recycle, schedVars
  <2> QED BY <1>s, <2>1
<1>14. ASSUME NEW t \in Thread, Destroy(t) PROVE NoLostWakeup'
  BY <1>t, <1>14, <1>s DEF Destroy, Return, At
<1>15. CASE UNCHANGED vars
  <2>1. UNCHANGED <<state, queue, waiters, table, pc, port, stale>>
    BY <1>15 DEF vars, portVars, schedVars
  <2>2. Live' = Live
    BY <2>1 DEF Live, OpenId
  <2> QED BY <2>1, <2>2, WokenStay
<1> QED
  BY Steps, <1>1, <1>2, <1>3, <1>4, <1>5, <1>6, <1>7, <1>8, <1>9, <1>10, <1>11, <1>12,
     <1>13, <1>14, <1>15 DEF Acts, Call, Continue

\* While a thread sleeps on a port of the table, every message queued there has a woken
\* receiver of its own on the way.
THEOREM WakeupsSuffice == Spec => []NoLostWakeup
BY PlacedAlways, WokenInit, WokenStep, PTL DEF Spec

-----------------------------------------------------------------------------
\* The identifiers still to be given out suffice for the ports being created.
Inserting == {t \in Thread : pc[t] = "insert"}
IdsSuffice == nextId + Cardinality(Inserting) <= MaxPorts + Cardinality(Thread)

LEMMA InsertingFinite ==
    /\ IsFiniteSet(Thread) /\ Cardinality(Thread) \in Nat
    /\ IsFiniteSet(Inserting) /\ Cardinality(Inserting) \in Nat
    /\ Cardinality(Inserting) <= Cardinality(Thread)
<1>1. IsFiniteSet(Thread)
  BY BootOrderAssumption, QueueFinite
<1>2. Inserting \subseteq Thread
  BY DEF Inserting
<1> QED BY <1>1, <1>2, FS_Subset, FS_CardinalityType

LEMMA IdsFrame ==
    ASSUME IdsSuffice, nextId' = nextId,
           \A t \in Thread : pc'[t] = "insert" <=> pc[t] = "insert"
    PROVE  IdsSuffice'
BY DEF IdsSuffice, Inserting

LEMMA IdsInit == Init => IdsSuffice
<1> SUFFICES ASSUME Init PROVE IdsSuffice
  OBVIOUS
<1>1. Inserting = {} /\ nextId = 0
  BY DEF Init, Inserting
<1>2. Cardinality(Inserting) = 0
  BY <1>1, FS_EmptySet
<1> QED BY <1>1, <1>2, InsertingFinite, PortAssumption DEF IdsSuffice

LEMMA IdsStep == Typed /\ IdsSuffice /\ [Next]_vars => IdsSuffice'
<1> SUFFICES ASSUME Typed, IdsSuffice, [Next]_vars PROVE IdsSuffice'
  OBVIOUS
<1>t. /\ pc \in [Thread -> Places]
      /\ nextId \in Nat /\ MaxPorts \in Nat
  BY PortAssumption DEF Typed, TypeOK, Places
<1>1. CASE Preempt /\ UNCHANGED portVars
  BY <1>1, IdsFrame DEF portVars
<1>2. CASE IrqSend
  BY <1>2, IdsFrame DEF IrqSend, Send, Store
<1>3. ASSUME NEW t \in Thread, Create(t) PROVE IdsSuffice'
  <2>1. nextId' = nextId /\ nextId < MaxPorts
    BY <1>3 DEF Create
  <2>2. Inserting' \subseteq Thread
    BY DEF Inserting
  <2>3. Cardinality(Inserting)' \in Nat /\ Cardinality(Inserting)' <= Cardinality(Thread)
    BY <2>2, InsertingFinite, FS_Subset, FS_CardinalityType
  <2> QED BY <1>t, <2>1, <2>3, InsertingFinite DEF IdsSuffice
<1>4. ASSUME NEW t \in Thread, Insert(t) PROVE IdsSuffice'
  <2>1. nextId' = nextId + 1 /\ pc[t] = "insert" /\ pc' = [pc EXCEPT ![t] = "user"]
    BY <1>4 DEF Insert, At, Return
  <2>2. Inserting' = Inserting \ {t} /\ t \in Inserting
    BY <1>t, <2>1 DEF Inserting
  <2>3. Cardinality(Inserting)' = Cardinality(Inserting) - 1
    BY <2>2, InsertingFinite, FS_RemoveElement
  <2> QED BY <1>t, <2>1, <2>3, InsertingFinite DEF IdsSuffice
<1>5. ASSUME NEW t \in Thread, ThreadSend(t) PROVE IdsSuffice'
  BY <1>5, IdsFrame DEF ThreadSend, Send, Store
<1>6. ASSUME NEW t \in Thread, Receive(t) PROVE IdsSuffice'
  BY <1>t, <1>6, IdsFrame DEF Receive, At, TakeOrWait
<1>7. ASSUME NEW t \in Thread, Recheck(t) PROVE IdsSuffice'
  BY <1>t, <1>7, IdsFrame DEF Recheck, At, TakeOrWait
<1>8. ASSUME NEW t \in Thread, Copy(t) PROVE IdsSuffice'
  BY <1>t, <1>8, IdsFrame DEF Copy, At
<1>9. ASSUME NEW t \in Thread, Release(t) PROVE IdsSuffice'
  BY <1>t, <1>9, IdsFrame DEF Release, Return, At
<1>10. ASSUME NEW t \in Thread, Delete(t) PROVE IdsSuffice'
  BY <1>t, <1>10, IdsFrame DEF Delete, Unlist, Hold, At
<1>11. ASSUME NEW t \in Thread, FreeMessage(t) PROVE IdsSuffice'
  BY <1>t, <1>11, IdsFrame DEF FreeMessage, At
<1>12. ASSUME NEW t \in Thread, Follow(t) PROVE IdsSuffice'
  BY <1>t, <1>12, IdsFrame DEF Follow, Hold, At
<1>13. ASSUME NEW t \in Thread, Recycle(t) PROVE IdsSuffice'
  BY <1>13, IdsFrame DEF Recycle
<1>14. ASSUME NEW t \in Thread, Destroy(t) PROVE IdsSuffice'
  BY <1>t, <1>14, IdsFrame DEF Destroy, Return, At
<1>15. CASE UNCHANGED vars
  BY <1>15, IdsFrame DEF vars, portVars
<1> QED
  BY Steps, <1>1, <1>2, <1>3, <1>4, <1>5, <1>6, <1>7, <1>8, <1>9, <1>10, <1>11, <1>12,
     <1>13, <1>14, <1>15 DEF Acts, Call, Continue

\* An identifier that is open, or about to be given out, is one of the channel's.
LEMMA IdsAreChannels ==
    ASSUME Typed, IdsSuffice
    PROVE  /\ PortId \subseteq Nat /\ NoPort \notin PortId
           /\ OpenId \subseteq PortId
           /\ \A t \in Thread : pc[t] = "insert" => nextId \in PortId
<1>1. nextId \in Nat /\ OpenId \subseteq 0 .. nextId - 1 /\ MaxPorts \in Nat
  BY PortAssumption DEF Typed, TypeOK, OpenId
<1>2. PortId \subseteq Nat
  BY <1>1, InsertingFinite DEF PortId
<1>3. OpenId \subseteq PortId
  BY <1>1, InsertingFinite DEF PortId, IdsSuffice
<1>4. ASSUME NEW t \in Thread, pc[t] = "insert" PROVE nextId \in PortId
  <2>1. Inserting # {}
    BY <1>4 DEF Inserting
  <2>2. Cardinality(Inserting) # 0
    BY <2>1, InsertingFinite, FS_EmptySet
  <2> QED BY <1>1, <2>2, InsertingFinite DEF PortId, IdsSuffice
<1> QED BY <1>2, <1>3, <1>4, PortAssumption

-----------------------------------------------------------------------------
\* The steps of the channel, identifier by identifier and thread by thread.
LEMMA PromiseStutters ==
    ASSUME \A i \in PortId : StatusOf(i)' = StatusOf(i),
           \A i \in PortId : PendingOf(i)' = PendingOf(i),
           \A t \in Thread : WaitingOf(t)' = WaitingOf(t),
           \A t \in Thread : InboxOf(t)' = InboxOf(t)
    PROVE  UNCHANGED Promise!vars
BY DEF Promise!vars

LEMMA PromiseOpens ==
    ASSUME NEW n \in PortId, StatusOf(n) = "unused",
           \A i \in PortId : StatusOf(i)' = IF i = n THEN "open" ELSE StatusOf(i),
           \A i \in PortId : PendingOf(i)' = PendingOf(i),
           \A t \in Thread : WaitingOf(t)' = WaitingOf(t),
           \A t \in Thread : InboxOf(t)' = InboxOf(t)
    PROVE  Promise!Next
<1>1. Promise!Open(n)
  BY DEF Promise!Open
<1> QED BY <1>1 DEF Promise!Next

LEMMA PromiseCloses ==
    ASSUME NEW n \in PortId, NEW t \in Thread,
           StatusOf(n) = "open", WaitingOf(t) = NoPort,
           \A i \in PortId : StatusOf(i)' = IF i = n THEN "closed" ELSE StatusOf(i),
           \A i \in PortId : PendingOf(i)' = IF i = n THEN <<>> ELSE PendingOf(i),
           \A u \in Thread : WaitingOf(u)' = IF WaitingOf(u) = n THEN Never ELSE WaitingOf(u),
           \A u \in Thread : InboxOf(u)' = IF u = t THEN NoMsg ELSE InboxOf(u)
    PROVE  Promise!Next
<1>1. Promise!Close(n, t)
  BY DEF Promise!Close
<1> QED BY <1>1 DEF Promise!Next

LEMMA PromiseSends ==
    ASSUME NEW n \in PortId, NEW m \in Message, NEW done,
           done = {} \/ \E t \in Thread : done = {t},
           StatusOf(n) = "open",
           \A i \in PortId : StatusOf(i)' = StatusOf(i),
           \A i \in PortId : PendingOf(i)' = IF i = n THEN Append(PendingOf(i), m) ELSE PendingOf(i),
           \A u \in Thread : WaitingOf(u)' = WaitingOf(u),
           \A u \in Thread : InboxOf(u)' = IF u \in done THEN NoMsg ELSE InboxOf(u)
    PROVE  Promise!Next
<1>1. Promise!Send(n, m, done)
  BY DEF Promise!Send
<1> QED BY <1>1 DEF Promise!Next

LEMMA PromiseConsumes ==
    ASSUME NEW t \in Thread, WaitingOf(t) = NoPort,
           \A i \in PortId : StatusOf(i)' = StatusOf(i),
           \A i \in PortId : PendingOf(i)' = PendingOf(i),
           \A u \in Thread : WaitingOf(u)' = WaitingOf(u),
           \A u \in Thread : InboxOf(u)' = IF u = t THEN NoMsg ELSE InboxOf(u)
    PROVE  Promise!Next
<1>1. Promise!Consume(t)
  BY DEF Promise!Consume
<1> QED BY <1>1 DEF Promise!Next

LEMMA PromiseWaits ==
    ASSUME NEW n \in PortId, NEW t \in Thread,
           StatusOf(n) = "open", WaitingOf(t) = NoPort,
           \A i \in PortId : StatusOf(i)' = StatusOf(i),
           \A i \in PortId : PendingOf(i)' = PendingOf(i),
           \A u \in Thread : WaitingOf(u)' = IF u = t THEN n ELSE WaitingOf(u),
           \A u \in Thread : InboxOf(u)' = IF u = t THEN NoMsg ELSE InboxOf(u)
    PROVE  Promise!Next
<1>1. Promise!Wait(t, n)
  BY DEF Promise!Wait
<1> QED BY <1>1 DEF Promise!Next

LEMMA PromiseDelivers ==
    ASSUME NEW n \in PortId, NEW t \in Thread,
           StatusOf(n) = "open", WaitingOf(t) \in {n, NoPort}, PendingOf(n) # <<>>,
           \A i \in PortId : StatusOf(i)' = StatusOf(i),
           \A i \in PortId : PendingOf(i)' = IF i = n THEN Tail(PendingOf(i)) ELSE PendingOf(i),
           \A u \in Thread : WaitingOf(u)' = IF u = t THEN NoPort ELSE WaitingOf(u),
           \A u \in Thread : InboxOf(u)' = IF u = t THEN Head(PendingOf(n)) ELSE InboxOf(u)
    PROVE  Promise!Next
<1>1. Promise!Deliver(t, n)
  BY DEF Promise!Deliver
<1> QED BY <1>1 DEF Promise!Next

-----------------------------------------------------------------------------
\* What the refinement is proved from.
Mapped == Owned /\ Conserved /\ IdsSuffice

\* An open port has its identifier back.
Numbered == \A i \in OpenId : IdOf(table[i]) = i

LEMMA IdOfOpen == Owned => Numbered
BY DEF Owned, Owners, Numbered, IdOf

\* Where a waiting thread waits, and that the others do not.
LEMMA WaitingElsewhere ==
    ASSUME Mapped, NEW t \in Thread
    PROVE  /\ pc[t] = "wait" /\ t \notin stale =>
                WaitingOf(t) \in OpenId /\ table[WaitingOf(t)] = port[t]
           /\ pc[t] = "wait" /\ t \in stale => WaitingOf(t) = Never
           /\ pc[t] # "wait" => WaitingOf(t) = NoPort
BY IdOfOpen DEF Mapped, Owned, SeesLive, Live, Numbered, WaitingOf

LEMMA StatusFrame ==
    ASSUME UNCHANGED <<table, nextId>>, NEW i
    PROVE  StatusOf(i)' = StatusOf(i)
BY DEF StatusOf, OpenId

LEMMA WaitingFrame ==
    ASSUME Mapped, Owned', NEW t \in Thread, pc'[t] = "wait" <=> pc[t] = "wait",
           pc[t] = "wait" => (t \in stale' <=> t \in stale),
           pc[t] = "wait" /\ t \notin stale =>
              /\ port'[t] = port[t]
              /\ WaitingOf(t) \in OpenId'
              /\ table'[WaitingOf(t)] = table[WaitingOf(t)]
    PROVE  WaitingOf(t)' = WaitingOf(t)
<1>1. CASE pc[t] = "wait" /\ t \notin stale
  <2>1. WaitingOf(t) \in OpenId' /\ table'[WaitingOf(t)] = port'[t]
    BY <1>1, WaitingElsewhere
  <2>2. Numbered'
    BY IdOfOpen, PTL
  <2> QED BY <1>1, <2>1, <2>2 DEF Numbered, WaitingOf
<1>2. CASE pc[t] # "wait" \/ t \in stale
  BY <1>2 DEF WaitingOf
<1> QED BY <1>1, <1>2

\* The messages queued on a port are the same as long as its queue and their
\* structures are.
LEMMA PendingFrame ==
    ASSUME Typed, NEW i \in OpenId, i \in OpenId', table'[i] = table[i],
           queue'[table[i]] = queue[table[i]],
           \A m \in ToSet(queue[table[i]]) : content'[m] = content[m]
    PROVE  PendingOf(i)' = PendingOf(i)
<1>1. \A k \in DOMAIN queue[table[i]] : queue[table[i]][k] \in ToSet(queue[table[i]])
  BY DEF ToSet
<1> QED BY <1>1 DEF PendingOf

LEMMA InboxFrame ==
    ASSUME NEW t \in Thread, pc'[t] = "copy" <=> pc[t] = "copy", inbox'[t] = inbox[t],
           pc[t] = "copy" => msg'[t] = msg[t] /\ content'[msg[t]] = content[msg[t]]
    PROVE  InboxOf(t)' = InboxOf(t)
BY DEF InboxOf

LEMMA PendingTyped ==
    ASSUME Typed, NEW i \in OpenId
    PROVE  /\ table[i] \in PortSlot /\ queue[table[i]] \in Seq(MsgSlot)
           /\ PendingOf(i) = [k \in DOMAIN queue[table[i]] |-> content[queue[table[i]][k]]]
           /\ queue[table[i]] # <<>> =>
                /\ PendingOf(i) # <<>>
                /\ Head(PendingOf(i)) = content[Head(queue[table[i]])]
                /\ Tail(PendingOf(i)) =
                     [k \in DOMAIN Tail(queue[table[i]]) |-> content[Tail(queue[table[i]])[k]]]
<1>1. /\ table[i] \in PortSlot /\ queue[table[i]] \in Seq(MsgSlot)
      /\ content \in [MsgSlot -> Message \cup {NoMsg}]
  BY DEF Typed, TypeOK, OpenId
<1>2. PendingOf(i) = [k \in DOMAIN queue[table[i]] |-> content[queue[table[i]][k]]]
  BY DEF PendingOf
<1> QED BY <1>1, <1>2, LookedUpPop

\* A message sent to a port is pending on its identifier, after the others.
LEMMA SendMaps ==
    ASSUME Mapped, Owned', NEW i \in OpenId, NEW message \in Message, Send(i, message),
           NEW done, done = {} \/ \E t \in Thread : done = {t},
           \A t \in done : pc[t] = "user",
           \A t \in Thread : inbox'[t] = IF t \in done THEN NoMsg ELSE inbox[t]
    PROVE  Promise!Next
<1> USE DEF Mapped
<1>t. Typed /\ \A j \in OpenId : table[j] \in PortSlot /\ queue[table[j]] \in Seq(MsgSlot)
  BY PendingTyped DEF Owned
<1>1. PICK m \in freeMsgs : /\ queue' = [queue EXCEPT ![table[i]] = Append(@, m)]
                            /\ content' = [content EXCEPT ![m] = message]
                            /\ UNCHANGED <<nextId, table, pc, port, msg>>
  BY DEF Send, Store
<1>2. /\ m \in MsgSlot /\ queue \in [PortSlot -> Seq(MsgSlot)] /\ i \in PortId
      /\ content \in [MsgSlot -> Message \cup {NoMsg}]
      /\ content' \in [MsgSlot -> Message \cup {NoMsg}]
  BY <1>t, <1>1, IdsAreChannels DEF Typed, TypeOK
<1>3. /\ content'[m] = message /\ \A k \in MsgSlot : k # m => content'[k] = content[k]
      /\ \A p \in PortSlot : m \notin ToSet(queue[p])
      /\ \A t \in Thread : pc[t] = "copy" => msg[t] # m
      /\ \A t \in Thread : pc[t] = "wait" => (t \in stale' <=> t \in stale)
  <2>1. \A t \in Thread : pc[t] = "wait" => (t \in stale' <=> t \in stale)
    BY DEF Send, Store
  <2> QED BY <1>1, <1>2, <2>1 DEF Conserved, Queued, Taken, InHand
<1>4. OpenId' = OpenId /\ \A j \in PortId : StatusOf(j)' = StatusOf(j)
  BY <1>1, StatusFrame DEF OpenId
<1>5. PendingOf(i)' = Append(PendingOf(i), message)
  <2> DEFINE q == queue[table[i]]
  <2>1. q \in Seq(MsgSlot) /\ queue'[table'[i]] = Append(q, m)
    BY <1>t, <1>1, <1>2
  <2>2. PendingOf(i)' = [k \in DOMAIN Append(q, m) |-> content'[Append(q, m)[k]]]
    BY <1>4, <2>1 DEF PendingOf
  <2>3. PendingOf(i) = [k \in DOMAIN q |-> content'[q[k]]]
    <3>1. \A k \in DOMAIN q : q[k] \in ToSet(q) /\ q[k] \in MsgSlot
      BY <2>1 DEF ToSet
    <3>2. \A k \in DOMAIN q : content'[q[k]] = content[q[k]]
      BY <1>t, <1>3, <3>1
    <3> QED BY <3>2 DEF PendingOf
  <2> HIDE DEF q
  <2> QED BY <1>2, <1>3, <2>1, <2>2, <2>3, LookedUpAppend
<1>6. \A j \in PortId : j # i => PendingOf(j)' = PendingOf(j)
  <2> SUFFICES ASSUME NEW j \in PortId, j # i PROVE PendingOf(j)' = PendingOf(j)
    OBVIOUS
  <2>1. CASE j \in OpenId
    <3>1. queue'[table[j]] = queue[table[j]]
      BY <1>t, <1>1, <1>2, <2>1 DEF Owned, Owners
    <3>2. \A k \in ToSet(queue[table[j]]) : content'[k] = content[k]
      BY <1>t, <1>3, <2>1, QueueElements
    <3> QED BY <1>t, <1>1, <1>4, <2>1, <3>1, <3>2, PendingFrame
  <2>2. CASE j \notin OpenId
    BY <1>4, <2>2 DEF PendingOf
  <2> QED BY <2>1, <2>2
<1>7. \A t \in Thread : WaitingOf(t)' = WaitingOf(t)
  BY <1>1, <1>3, <1>4, WaitingElsewhere, WaitingFrame
<1>8. \A t \in Thread : InboxOf(t)' = IF t \in done THEN NoMsg ELSE InboxOf(t)
  <2> SUFFICES ASSUME NEW t \in Thread
               PROVE  InboxOf(t)' = IF t \in done THEN NoMsg ELSE InboxOf(t)
    OBVIOUS
  <2>1. pc[t] = "copy" => msg[t] \in MsgSlot /\ content'[msg[t]] = content[msg[t]]
    BY <1>t, <1>3 DEF Typed, LocalsOK, WithMsg
  <2> QED BY <1>1, <2>1 DEF InboxOf
<1>9. StatusOf(i) = "open"
  BY DEF StatusOf
<1> QED BY <1>2, <1>4, <1>5, <1>6, <1>7, <1>8, <1>9, PromiseSends

\* A receiver gets the message that was pending longest, or waits for one.
LEMMA TakeOrWaitMaps ==
    ASSUME Mapped, Owned', NEW t \in Thread, NEW n \in OpenId, TakeOrWait(t, table[n]),
           pc[t] \in {"user", "wait"}, pc[t] = "wait" => port[t] = table[n],
           t \notin stale, UNCHANGED <<nextId, table, content, stale>>,
           port' = [port EXCEPT ![t] = table[n]],
           \A u \in Thread : inbox'[u] = IF u = t /\ pc[t] = "user" THEN NoMsg ELSE inbox[u]
    PROVE  [Promise!Next]_(Promise!vars)
<1> USE DEF Mapped
<1>t. /\ Typed /\ \A j \in OpenId : table[j] \in PortSlot /\ queue[table[j]] \in Seq(MsgSlot)
      /\ pc \in [Thread -> Places]
      /\ port \in [Thread -> PortSlot \cup {NoPort}]
      /\ msg \in [Thread -> MsgSlot \cup {NoMsg}]
      /\ queue \in [PortSlot -> Seq(MsgSlot)] /\ n \in PortId
  BY PendingTyped, IdsAreChannels DEF Owned, Typed, TypeOK, Places
<1>1. OpenId' = OpenId /\ \A j \in PortId : StatusOf(j)' = StatusOf(j)
  BY StatusFrame DEF OpenId
<1>2. StatusOf(n) = "open"
  BY DEF StatusOf
<1>3. WaitingOf(t) = IF pc[t] = "wait" THEN n ELSE NoPort
  BY WaitingElsewhere DEF Owned, Owners
<1>4. \A u \in Thread : u # t => /\ pc'[u] = pc[u] /\ port'[u] = port[u]
                                 /\ msg'[u] = msg[u] /\ inbox'[u] = inbox[u]
  BY <1>t DEF TakeOrWait
<1>5. \A u \in Thread : u # t => WaitingOf(u)' = WaitingOf(u)
  BY <1>1, <1>4, WaitingElsewhere, WaitingFrame
<1>6. \A u \in Thread : u # t => InboxOf(u)' = InboxOf(u)
  BY <1>4, InboxFrame
<1>7. CASE queue[table[n]] # <<>>
  <2>1. /\ msg'[t] = Head(queue[table[n]]) /\ pc'[t] = "copy"
        /\ queue' = [queue EXCEPT ![table[n]] = Tail(@)]
    BY <1>t, <1>7 DEF TakeOrWait
  <2>2. /\ PendingOf(n) # <<>> /\ Head(PendingOf(n)) = content[Head(queue[table[n]])]
        /\ PendingOf(n)' = Tail(PendingOf(n))
    <3>1. queue'[table'[n]] = Tail(queue[table[n]])
      BY <1>t, <2>1
    <3>2. PendingOf(n)' = [k \in DOMAIN Tail(queue[table[n]]) |-> content[Tail(queue[table[n]])[k]]]
      BY <1>1, <3>1 DEF PendingOf
    <3> QED BY <1>t, <1>7, <3>2, PendingTyped
  <2>3. \A j \in PortId : j # n => PendingOf(j)' = PendingOf(j)
    <3> SUFFICES ASSUME NEW j \in PortId, j # n PROVE PendingOf(j)' = PendingOf(j)
      OBVIOUS
    <3>1. CASE j \in OpenId
      <4>1. queue'[table[j]] = queue[table[j]]
        BY <1>t, <2>1, <3>1 DEF Owned, Owners
      <4> QED BY <1>t, <1>1, <3>1, <4>1, PendingFrame
    <3>2. CASE j \notin OpenId
      BY <1>1, <3>2 DEF PendingOf
    <3> QED BY <3>1, <3>2
  <2>4. WaitingOf(t)' = NoPort /\ InboxOf(t)' = Head(PendingOf(n))
    BY <2>1, <2>2 DEF WaitingOf, InboxOf
  <2>5. Promise!Next
    BY <1>t, <1>1, <1>2, <1>3, <1>5, <1>6, <2>2, <2>3, <2>4, PromiseDelivers
  <2> QED BY <2>5
<1>8. CASE queue[table[n]] = <<>>
  <2>1. pc'[t] = "wait" /\ queue' = queue /\ port'[t] = table[n]
    BY <1>t, <1>8 DEF TakeOrWait
  <2>2. \A j \in PortId : PendingOf(j)' = PendingOf(j)
    BY <1>1, <2>1 DEF PendingOf
  <2>3. WaitingOf(t)' = n
    <3>1. Numbered'
      BY IdOfOpen, PTL
    <3> QED BY <1>1, <2>1, <3>1 DEF Numbered, WaitingOf
  <2>4. InboxOf(t)' = IF pc[t] = "user" THEN NoMsg ELSE InboxOf(t)
    BY <2>1 DEF InboxOf
  <2>5. CASE pc[t] = "user"
    <3>1. Promise!Next
      BY <1>t, <1>1, <1>2, <1>3, <1>5, <1>6, <2>2, <2>3, <2>4, <2>5, PromiseWaits
    <3> QED BY <3>1
  <2>6. CASE pc[t] = "wait"
    <3>1. UNCHANGED Promise!vars
      BY <1>1, <1>3, <1>5, <1>6, <2>2, <2>3, <2>4, <2>6, PromiseStutters
    <3> QED BY <3>1
  <2> QED BY <2>5, <2>6
<1> QED BY <1>7, <1>8

LEMMA MappedInit == Init => Mapped
BY OwnedInit, ConservedInit, IdsInit DEF Mapped

LEMMA MappedStep == Mapped /\ [Next]_vars => Mapped'
BY OwnedStep, ConservedStep, IdsStep DEF Mapped, Owned

LEMMA PromiseInit == Init => Promise!Init
<1> SUFFICES ASSUME Init PROVE Promise!Init
  OBVIOUS
<1>1. OpenId = {} /\ nextId = 0
  BY DEF Init, OpenId
<1>2. \A i \in PortId : StatusOf(i) = "unused" /\ PendingOf(i) = <<>>
  <2>1. PortId \subseteq Nat
    BY InsertingFinite, PortAssumption DEF PortId
  <2>2. \A i \in PortId : StatusOf(i) = "unused"
    BY <1>1, <2>1 DEF StatusOf
  <2>3. \A i \in PortId : PendingOf(i) = <<>>
    BY <1>1 DEF PendingOf
  <2> QED BY <2>2, <2>3
<1>3. \A t \in Thread : WaitingOf(t) = NoPort /\ InboxOf(t) = NoMsg
  BY DEF Init, WaitingOf, InboxOf
<1> QED BY <1>2, <1>3 DEF Promise!Init

LEMMA PromiseStep == Mapped /\ [Next]_vars => [Promise!Next]_(Promise!vars)
<1> SUFFICES ASSUME Mapped, [Next]_vars PROVE [Promise!Next]_(Promise!vars)
  OBVIOUS
<1>o. Mapped' /\ Owned'
  BY MappedStep DEF Mapped
<1>t. /\ Typed /\ Owned /\ Conserved
      /\ pc \in [Thread -> Places]
      /\ port \in [Thread -> PortSlot \cup {NoPort}]
      /\ msg \in [Thread -> MsgSlot \cup {NoMsg}]
      /\ inbox \in [Thread -> Message \cup {NoMsg}]
      /\ content \in [MsgSlot -> Message \cup {NoMsg}]
      /\ queue \in [PortSlot -> Seq(MsgSlot)] /\ nextId \in Nat
      /\ OpenId \subseteq PortId /\ nextId \notin OpenId
      /\ \A i \in OpenId : i < nextId /\ table[i] \in PortSlot
  BY IdsAreChannels DEF Mapped, Owned, Typed, TypeOK, OpenId, Places
<1>w. \A t \in Thread : pc[t] # "wait" => WaitingOf(t) = NoPort
  BY DEF WaitingOf
\* A step inside the kernel that the channel does not see.
<1>s. ASSUME UNCHANGED <<nextId, table>>, \A i \in OpenId : queue'[table[i]] = queue[table[i]],
             \A i \in OpenId : \A m \in ToSet(queue[table[i]]) : content'[m] = content[m],
             \A t \in Thread : pc'[t] = "wait" <=> pc[t] = "wait",
             \A t \in Thread : pc[t] = "wait" => (t \in stale' <=> t \in stale),
             \A t \in Thread : pc[t] = "wait" => port'[t] = port[t],
             \A t \in Thread : InboxOf(t)' = InboxOf(t)
      PROVE  UNCHANGED Promise!vars
  <2>1. OpenId' = OpenId /\ \A i \in PortId : StatusOf(i)' = StatusOf(i)
    BY <1>s, StatusFrame DEF OpenId
  <2>2. \A i \in OpenId : PendingOf(i)' = PendingOf(i)
    BY <1>t, <1>s, <2>1, PendingFrame
  <2>3. \A i \in PortId : PendingOf(i)' = PendingOf(i)
    BY <2>1, <2>2 DEF PendingOf
  <2>4. \A t \in Thread : WaitingOf(t)' = WaitingOf(t)
    BY <1>o, <1>s, <2>1, WaitingElsewhere, WaitingFrame
  <2> QED BY <1>s, <2>1, <2>3, <2>4, PromiseStutters
<1>1. CASE Preempt /\ UNCHANGED portVars
  <2>1. UNCHANGED <<nextId, table, queue, content, pc, port, msg, inbox, stale>>
    BY <1>1 DEF portVars
  <2>2. \A t \in Thread : InboxOf(t)' = InboxOf(t)
    BY <2>1 DEF InboxOf
  <2> QED BY <1>s, <2>1, <2>2
<1>2. CASE IrqSend
  <2>1. PICK i \in OpenId, d \in Data : Send(i, [sender |-> Kernel, data |-> d])
    BY <1>2 DEF IrqSend
  <2>2. [sender |-> Kernel, data |-> d] \in Message /\ inbox' = inbox
    BY <1>2 DEF Message, IrqSend
  <2>3. ASSUME NEW done, done = {} PROVE Promise!Next
    BY <1>o, <2>1, <2>2, <2>3, SendMaps
  <2>4. Promise!Next
    BY <2>3
  <2> QED BY <2>4
<1>3. ASSUME NEW t \in Thread, Create(t) PROVE Promise!Next
  <2>1. PICK p \in freePorts : /\ queue' = [queue EXCEPT ![p] = <<>>]
                               /\ port' = [port EXCEPT ![t] = p]
    BY <1>3 DEF Create
  <2>2. /\ UNCHANGED <<nextId, table, content, msg>> /\ pc[t] = "user"
        /\ pc' = [pc EXCEPT ![t] = "insert"] /\ inbox' = [inbox EXCEPT ![t] = NoMsg]
        /\ OpenId' = OpenId /\ stale' = stale
    BY <1>3 DEF Create, At, OpenId
  <2>3. queue' = queue
    <3>1. p \in PortSlot /\ p \notin Live /\ \A u \in Thread : Emptying(u) => port[u] # p
      BY <1>t DEF Owned, Owners, Typed, TypeOK, Live, Emptying, Holding
    <3>2. queue[p] = <<>>
      BY <1>t, <3>1 DEF Conserved, EmptyElsewhere
    <3> QED BY <1>t, <2>1, <3>2
  <2>4. \A i \in PortId : StatusOf(i)' = StatusOf(i) /\ PendingOf(i)' = PendingOf(i)
    BY <2>2, <2>3, StatusFrame DEF PendingOf
  <2>5. \A u \in Thread : WaitingOf(u)' = WaitingOf(u)
    BY <1>o, <1>t, <2>1, <2>2, WaitingElsewhere, WaitingFrame
  <2>6. \A u \in Thread : InboxOf(u)' = IF u = t THEN NoMsg ELSE InboxOf(u)
    BY <1>t, <2>2 DEF InboxOf
  <2> QED BY <1>w, <2>2, <2>4, <2>5, <2>6, PromiseConsumes
<1>4. ASSUME NEW t \in Thread, Insert(t) PROVE Promise!Next
  <2>1. /\ UNCHANGED <<queue, content, inbox, stale>> /\ nextId' = nextId + 1 /\ pc[t] = "insert"
        /\ pc' = [pc EXCEPT ![t] = "user"] /\ port' = [port EXCEPT ![t] = NoPort]
        /\ msg' = [msg EXCEPT ![t] = NoMsg]
    BY <1>4 DEF Insert, Return, At
  <2>2. /\ OpenId' = OpenId \cup {nextId} /\ table'[nextId] = port[t]
        /\ \A i \in OpenId : table'[i] = table[i]
    BY <1>t, <1>4 DEF Insert, OpenId
  <2>3. nextId \in PortId /\ PortId \subseteq Nat
    BY <1>t, <2>1, IdsAreChannels DEF Mapped
  <2>4. StatusOf(nextId) = "unused"
    BY <1>t DEF StatusOf
  <2>5. \A i \in PortId : StatusOf(i)' = IF i = nextId THEN "open" ELSE StatusOf(i)
    BY <1>t, <2>1, <2>2, <2>3 DEF StatusOf
  <2>6. ASSUME NEW i \in PortId PROVE PendingOf(i)' = PendingOf(i)
    <3>1. CASE i = nextId
      <4>0. /\ port[t] \in PortSlot /\ port[t] \notin Live
            /\ \A u \in Thread : Emptying(u) => port[u] # port[t]
        BY <1>t, <2>1 DEF Owned, Owners, Holding, Emptying, Typed, LocalsOK
      <4>1. queue[port[t]] = <<>>
        BY <1>t, <4>0 DEF Conserved, EmptyElsewhere
      <4>2. PendingOf(i) = <<>>
        BY <1>t, <3>1 DEF PendingOf
      <4>3. PendingOf(i)' = [k \in DOMAIN <<>> |-> content[queue[port[t]][k]]]
        BY <2>1, <2>2, <3>1, <4>1 DEF PendingOf
      <4> QED BY <4>2, <4>3
    <3>2. CASE i # nextId /\ i \in OpenId
      BY <1>t, <2>1, <2>2, <3>2, PendingFrame
    <3>3. CASE i # nextId /\ i \notin OpenId
      BY <2>2, <3>3 DEF PendingOf
    <3> QED BY <3>1, <3>2, <3>3
  <2>7. \A u \in Thread : WaitingOf(u)' = WaitingOf(u)
    BY <1>o, <1>t, <2>1, <2>2, WaitingElsewhere, WaitingFrame
  <2>8. \A u \in Thread : InboxOf(u)' = InboxOf(u)
    BY <1>t, <2>1 DEF InboxOf
  <2> QED BY <2>3, <2>4, <2>5, <2>6, <2>7, <2>8, PromiseOpens
<1>5. ASSUME NEW t \in Thread, ThreadSend(t) PROVE Promise!Next
  <2>1. PICK i \in OpenId, d \in Data : Send(i, [sender |-> t, data |-> d])
    BY <1>5 DEF ThreadSend
  <2>2. [sender |-> t, data |-> d] \in Message
    BY DEF Message
  <2>3. \A u \in Thread : inbox'[u] = IF u \in {t} THEN NoMsg ELSE inbox[u]
    BY <1>t, <1>5 DEF ThreadSend
  <2>4. pc[t] = "user"
    BY <1>5 DEF ThreadSend, At
  <2> QED BY <1>o, <2>1, <2>2, <2>3, <2>4, SendMaps
<1>6. ASSUME NEW t \in Thread, t \notin stale, Receive(t) PROVE [Promise!Next]_(Promise!vars)
  <2>1. PICK n \in OpenId : port' = [port EXCEPT ![t] = table[n]] /\ TakeOrWait(t, table[n])
    BY <1>6 DEF Receive
  <2>2. /\ UNCHANGED <<nextId, table, content, stale>> /\ pc[t] = "user"
        /\ \A u \in Thread : inbox'[u] = IF u = t THEN NoMsg ELSE inbox[u]
    BY <1>t, <1>6 DEF Receive, At
  <2> QED BY <1>o, <1>6, <2>1, <2>2, TakeOrWaitMaps
<1>7. ASSUME NEW t \in Thread, t \notin stale, Recheck(t) PROVE [Promise!Next]_(Promise!vars)
  <2>1. /\ UNCHANGED <<nextId, table, content, port, inbox, stale>> /\ pc[t] = "wait"
        /\ TakeOrWait(t, port[t])
    BY <1>7 DEF Recheck, At
  <2>2. PICK n \in OpenId : port[t] = table[n]
    BY <1>t, <1>7, <2>1 DEF Owned, SeesLive, Live
  <2>3. port' = [port EXCEPT ![t] = table[n]]
    BY <1>t, <2>1, <2>2
  <2> QED BY <1>o, <1>7, <2>1, <2>2, <2>3, TakeOrWaitMaps
<1>8. ASSUME NEW t \in Thread, Copy(t) PROVE UNCHANGED Promise!vars
  <2>1. /\ UNCHANGED <<nextId, table, queue, content, port, msg, stale>> /\ pc[t] = "copy"
        /\ pc' = [pc EXCEPT ![t] = "release"]
        /\ inbox' = [inbox EXCEPT ![t] = content[msg[t]]]
    BY <1>8 DEF Copy, At
  <2>2. \A u \in Thread : InboxOf(u)' = InboxOf(u)
    BY <1>t, <2>1 DEF InboxOf
  <2> QED BY <1>s, <1>t, <2>1, <2>2
<1>9. ASSUME NEW t \in Thread, Release(t) PROVE UNCHANGED Promise!vars
  <2>1. /\ UNCHANGED <<nextId, table, queue, inbox, stale>> /\ pc[t] = "release"
        /\ content' = [content EXCEPT ![msg[t]] = NoMsg]
        /\ pc' = [pc EXCEPT ![t] = "user"] /\ port' = [port EXCEPT ![t] = NoPort]
        /\ msg' = [msg EXCEPT ![t] = NoMsg]
    BY <1>9 DEF Release, Return, At
  <2>2. msg[t] \in MsgSlot /\ ~ Queued(msg[t])
    BY <1>t, <2>1 DEF Typed, LocalsOK, WithMsg, Conserved, Taken, InHand
  <2>3. \A i \in OpenId : \A m \in ToSet(queue[table[i]]) : content'[m] = content[m]
    BY <1>t, <2>1, <2>2 DEF Queued
  <2>4. \A u \in Thread : u # t /\ pc[u] = "copy" => content'[msg[u]] = content[msg[u]]
    <3>1. \A u \in Thread : u # t /\ pc[u] = "copy" => msg[u] # msg[t]
      BY <1>t, <2>1 DEF Conserved, InHand
    <3> QED BY <1>t, <2>1, <3>1
  <2>5. \A u \in Thread : InboxOf(u)' = InboxOf(u)
    BY <1>t, <2>1, <2>4 DEF InboxOf
  <2> QED BY <1>s, <1>t, <2>1, <2>3, <2>5
<1>10. ASSUME NEW t \in Thread, Delete(t) PROVE Promise!Next
  <2>1. PICK n \in OpenId : Unlist(t, n)
    BY <1>10 DEF Delete
  <2>2. /\ UNCHANGED <<nextId, content>> /\ pc[t] = "user" /\ Hold(t, table[n])
        /\ port' = [port EXCEPT ![t] = table[n]] /\ inbox' = [inbox EXCEPT ![t] = NoMsg]
        /\ stale' = stale \cup WaitingOn(table[n])
    BY <2>1 DEF Unlist, At
  <2>3. StatusOf(n) = "open" /\ n \in PortId /\ PortId \subseteq Nat
    BY <1>t, IdsAreChannels DEF StatusOf, Mapped
  <2>4. OpenId' = OpenId \ {n} /\ \A i \in OpenId' : table'[i] = table[i]
    BY <1>t, <2>1, UnlistUnlists
  <2>5. PICK place \in {"free", "destroy"} : pc' = [pc EXCEPT ![t] = place]
    BY <2>2 DEF Hold
  <2>6. \A u \in Thread : u # t => /\ pc'[u] = pc[u] /\ port'[u] = port[u]
                                   /\ msg'[u] = msg[u] /\ inbox'[u] = inbox[u]
    BY <1>t, <2>2, <2>5 DEF Hold
  <2>7. pc'[t] \notin {"wait", "copy"} /\ inbox'[t] = NoMsg
    BY <1>t, <2>2, <2>5
  <2>8. \A i \in PortId : StatusOf(i)' = IF i = n THEN "closed" ELSE StatusOf(i)
    BY <1>t, <2>2, <2>4 DEF StatusOf
  <2>9. ASSUME NEW i \in PortId PROVE PendingOf(i)' = IF i = n THEN <<>> ELSE PendingOf(i)
    <3>1. CASE i \in OpenId'
      <4>1. i \in OpenId /\ i # n /\ table'[i] = table[i] /\ table[i] # table[n]
        BY <1>t, <2>4, <3>1 DEF Owned, Owners
      <4>2. queue'[table[i]] = queue[table[i]]
        BY <1>t, <2>2, <4>1 DEF Hold
      <4> QED BY <1>t, <2>2, <3>1, <4>1, <4>2, PendingFrame
    <3>2. CASE i \notin OpenId'
      BY <2>4, <3>2 DEF PendingOf
    <3> QED BY <3>1, <3>2
  <2>10. ASSUME NEW u \in Thread
         PROVE  WaitingOf(u)' = IF WaitingOf(u) = n THEN Never ELSE WaitingOf(u)
    <3>0. Never # n /\ NoPort # n
      BY <2>3, PortAssumption
    <3>1. CASE pc[u] # "wait"
      BY <2>6, <2>7, <3>0, <3>1 DEF WaitingOf
    <3>2. CASE pc[u] = "wait" /\ u \in stale
      BY <2>2, <2>6, <3>0, <3>2 DEF WaitingOf
    <3>3. CASE pc[u] = "wait" /\ u \notin stale /\ port[u] = table[n]
      <4>1. WaitingOf(u) = n
        BY <3>3, WaitingElsewhere DEF Owned, Owners, Mapped
      <4>2. WaitingOf(u)' = Never
        BY <2>2, <2>6, <2>7, <3>3 DEF WaitingOf, WaitingOn
      <4> QED BY <4>1, <4>2
    <3>4. CASE pc[u] = "wait" /\ u \notin stale /\ port[u] # table[n]
      <4>1. WaitingOf(u) \in OpenId /\ table[WaitingOf(u)] = port[u]
        BY <3>4, WaitingElsewhere
      <4>2. WaitingOf(u) # n /\ WaitingOf(u) \in OpenId'
        BY <2>4, <3>4, <4>1
      <4>3. u # t /\ u \notin stale'
        BY <2>2, <3>4 DEF WaitingOn
      <4>4. WaitingOf(u)' = WaitingOf(u)
        BY <1>o, <2>4, <2>6, <3>4, <4>1, <4>2, <4>3, WaitingFrame
      <4> QED BY <4>2, <4>4
    <3> QED BY <3>1, <3>2, <3>3, <3>4
  <2>11. \A u \in Thread : InboxOf(u)' = IF u = t THEN NoMsg ELSE InboxOf(u)
    BY <2>2, <2>6, <2>7 DEF InboxOf
  <2>12. WaitingOf(t) = NoPort
    BY <1>w, <2>2
  <2> HIDE DEF Mapped
  <2> QED BY <2>3, <2>8, <2>9, <2>10, <2>11, <2>12, PromiseCloses
<1>11. ASSUME NEW t \in Thread, FreeMessage(t) PROVE UNCHANGED Promise!vars
  <2>1. /\ UNCHANGED <<nextId, table, queue, inbox, stale, port, msg>> /\ pc[t] = "free"
        /\ content' = [content EXCEPT ![msg[t]] = NoMsg]
        /\ pc' = [pc EXCEPT ![t] = "next"]
    BY <1>11 DEF FreeMessage, At
  <2>2. msg[t] \in MsgSlot /\ ~ Queued(msg[t])
    BY <1>t, <2>1 DEF Typed, LocalsOK, WithMsg, Conserved, Taken, InHand
  <2>3. \A i \in OpenId : \A m \in ToSet(queue[table[i]]) : content'[m] = content[m]
    BY <1>t, <2>1, <2>2 DEF Queued
  <2>4. \A u \in Thread : u # t /\ pc[u] = "copy" => content'[msg[u]] = content[msg[u]]
    <3>1. \A u \in Thread : u # t /\ pc[u] = "copy" => msg[u] # msg[t]
      BY <1>t, <2>1 DEF Conserved, InHand
    <3> QED BY <1>t, <2>1, <3>1
  <2>5. \A u \in Thread : InboxOf(u)' = InboxOf(u)
    BY <1>t, <2>1, <2>4 DEF InboxOf
  <2> QED BY <1>s, <1>t, <2>1, <2>3, <2>5
<1>12. ASSUME NEW t \in Thread, Follow(t) PROVE UNCHANGED Promise!vars
  <2>1. /\ UNCHANGED <<nextId, table, content, inbox, stale, port>> /\ pc[t] = "next"
        /\ Hold(t, port[t])
    BY <1>12 DEF Follow, At
  <2>2. PICK place \in {"free", "destroy"} : pc' = [pc EXCEPT ![t] = place]
    BY <2>1 DEF Hold
  <2>3. port[t] \notin Live
    BY <1>t, <2>1 DEF Owned, Owners, Holding
  <2>4. \A i \in OpenId : queue'[table[i]] = queue[table[i]]
    BY <1>t, <2>1, <2>3 DEF Hold, Live
  <2>5. \A u \in Thread : pc[u] = "copy" => msg'[u] = msg[u]
    BY <1>t, <2>1 DEF Hold
  <2>6. \A u \in Thread : InboxOf(u)' = InboxOf(u)
    BY <1>t, <2>1, <2>2, <2>5 DEF InboxOf
  <2> QED BY <1>s, <1>t, <2>1, <2>2, <2>4, <2>6
<1>13. ASSUME NEW t \in Thread, Recycle(t) PROVE UNCHANGED Promise!vars
  <2>1. /\ UNCHANGED <<nextId, table, queue, content, pc, port, msg, inbox>> /\ pc[t] = "next"
        /\ stale' = stale \cup {t}
    BY <1>13 DEF Recycle
  <2>2. \A u \in Thread : InboxOf(u)' = InboxOf(u)
    BY <2>1 DEF InboxOf
  <2> QED BY <1>s, <2>1, <2>2
<1>14. ASSUME NEW t \in Thread, Destroy(t) PROVE UNCHANGED Promise!vars
  <2>1. /\ UNCHANGED <<nextId, table, queue, content, inbox, stale>> /\ pc[t] = "destroy"
        /\ pc' = [pc EXCEPT ![t] = "user"] /\ port' = [port EXCEPT ![t] = NoPort]
        /\ msg' = [msg EXCEPT ![t] = NoMsg]
    BY <1>14 DEF Destroy, Return, At
  <2>2. \A u \in Thread : InboxOf(u)' = InboxOf(u)
    BY <1>t, <2>1 DEF InboxOf
  <2> QED BY <1>s, <1>t, <2>1, <2>2
<1>15. CASE UNCHANGED vars
  <2>1. UNCHANGED <<nextId, table, queue, content, pc, port, msg, inbox, stale>>
    BY <1>15 DEF vars, portVars
  <2>2. \A t \in Thread : InboxOf(t)' = InboxOf(t)
    BY <2>1 DEF InboxOf
  <2> QED BY <1>s, <2>1, <2>2
<1> QED
  BY Steps, <1>1, <1>2, <1>3, <1>4, <1>5, <1>6, <1>7, <1>8, <1>9, <1>10, <1>11, <1>12,
     <1>13, <1>14, <1>15 DEF Acts, Call, Continue

\* Whatever the threads and interrupts do, the ports behave like the channels
\* Channel describes: opened once and closed for good, their messages delivered
\* whole, once and in the order they were sent.
THEOREM PortsAreChannels == Spec => Promise!Safe
<1>1. Spec => []Mapped
  BY MappedInit, MappedStep, PTL DEF Spec
<1> QED BY <1>1, PromiseInit, PromiseStep, PTL DEF Spec, Promise!Safe
=============================================================================
