------------------------------ MODULE KeyedStore ------------------------------
(***************************************************************************)
(* What a slab cache and a hash table promise together, without links:     *)
(* an allocation hands out an object that nobody has; the objects entered  *)
(* under a key are taken out newest first; a release gives the object up.  *)
(***************************************************************************)
EXTENDS Sequences

CONSTANTS Kind, Object, Name

VARIABLES
    private, \* of each kind, the objects handed out and in no table
    entries  \* of each kind, the objects entered under each name, newest first

vars == <<private, entries>>

Entered(k) == UNION {{entries[k][n][i] : i \in DOMAIN entries[k][n]} : n \in Name}
InUse == UNION {private[k] \cup Entered(k) : k \in Kind}

Init ==
    /\ private = [k \in Kind |-> {}]
    /\ entries = [k \in Kind |-> [n \in Name |-> <<>>]]

Allocate(k) ==
    /\ \E o \in Object : /\ private' = [private EXCEPT ![k] = @ \cup {o}]
                         /\ o \notin InUse
    /\ UNCHANGED entries

Enter(k, n) ==
    \E o \in private[k] :
      /\ private' = [private EXCEPT ![k] = @ \ {o}]
      /\ entries' = [entries EXCEPT ![k][n] = <<o>> \o @]

TakeOut(k, n) ==
    /\ entries[k][n] # <<>>
    /\ private' = [private EXCEPT ![k] = @ \cup {Head(entries[k][n])}]
    /\ entries' = [entries EXCEPT ![k][n] = Tail(@)]

Release(k) ==
    /\ \E o \in private[k] : private' = [private EXCEPT ![k] = @ \ {o}]
    /\ UNCHANGED entries

Next ==
    \/ \E k \in Kind : Allocate(k) \/ Release(k)
    \/ \E k \in Kind, n \in Name : Enter(k, n) \/ TakeOut(k, n)

Spec == Init /\ [][Next]_vars
=============================================================================
