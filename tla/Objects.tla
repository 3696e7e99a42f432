------------------------------- MODULE Objects --------------------------------
(***************************************************************************)
(* Objects as the kernel and the device library keep them: allocated from  *)
(* a slab cache, entered in a hash table, taken out and freed.  Both       *)
(* structures link an object through its first word: a port in the table   *)
(* of ports and a free port structure use the same eight bytes.            *)
(*                                                                         *)
(* Allocation, entry, removal and freeing are four lock sections, between  *)
(* which another thread may make any of the calls (ipc_port_create and     *)
(* ipc_port_insert, sys_ipc_port_delete and ipc_port_destroy).             *)
(***************************************************************************)
EXTENDS Slab, Lists

CONSTANTS
    Key, Size, Hash, \* see HashTable
    MaxItems         \* bound: how often an item is added to a table, in all

ASSUME TableAssumption ==
    /\ Size \in Nat \ {0}
    /\ Hash \in [Key -> Nat]
    /\ MaxItems \in Nat

VARIABLES
    heads, \* of each cache, the heads of the buckets of its table
    items, \* the counter of each table
    place, \* "free", "private" (somebody's local variable) or "table"
    key    \* the key of each object in a table

objectVars == <<heads, items, place, key>>
vars == <<slabVars, objectVars>>

Table == INSTANCE HashTable WITH NoItem <- Null

TypeOK ==
    /\ SlabTypeOK
    /\ heads \in [Cache -> [Table!Bucket -> Obj \cup {Null}]]
    /\ items \in [Cache -> 0 .. MaxItems]
    /\ place \in [Obj -> {"free", "private", "table"}]
    /\ key \in [Obj -> Key \cup {Null}]

\* hashtable_init for every table, on a page that holds zeros: nothing clears it, and
\* the pages of the machine may have been in use before.
Init ==
    /\ SlabInit
    /\ heads = [c \in Cache |-> [b \in Table!Bucket |-> Null]]
    /\ items = [c \in Cache |-> 0]
    /\ place = [o \in Obj |-> "free"]
    /\ key = [o \in Obj |-> Null]

-----------------------------------------------------------------------------
BucketChain(c, b) == Chain(word, heads[c][b])
ChainOf(c, k) == BucketChain(c, Table!IndexOf(k))

\* slab_cache_alloc by ipc_port_create and the like.
Allocate(c) ==
    /\ \E o \in Obj : SlabAlloc(c, o) /\ place' = [place EXCEPT ![o] = "private"]
    /\ UNCHANGED <<heads, items, key>>

\* The object gets its key and is added to the table.
Enter(c, o, k) ==
    /\ place[o] = "private" /\ slab[o[1]].cache = c
    /\ MapThenSumSet(LAMBDA d : items[d], Cache) < MaxItems
    /\ key' = [key EXCEPT ![o] = k]
    /\ word' = Table!AddWord(word, heads[c], o, k)
    /\ heads' = [heads EXCEPT ![c] = Table!AddHead(@, o, k)]
    /\ items' = [items EXCEPT ![c] = @ + 1]
    /\ place' = [place EXCEPT ![o] = "table"]
    /\ UNCHANGED <<slab, full, partial, pages, returns>>

\* hashtable_get, which changes nothing.
Get(c, k) == Table!FirstOf(ChainOf(c, k), key, k)

\* hashtable_remove of a key the table has; the counter stays as it is.
TakeOut(c, k) ==
    LET o == Get(c, k)
    IN  /\ o # Null
        /\ word' = Table!RemoveWord(word, ChainOf(c, k), o)
        /\ heads' = [heads EXCEPT ![c] = Table!RemoveHead(word, @, ChainOf(c, k), o, k)]
        /\ place' = [place EXCEPT ![o] = "private"]
        /\ key' = [key EXCEPT ![o] = Null]
        /\ UNCHANGED <<slab, full, partial, pages, returns, items>>

\* Mutant: the object is freed by whoever finds it, while the table has it.
ReleaseListed(c, o) ==
    /\ place[o] # "free" /\ slab[o[1]].cache = c
    /\ SlabFree(c, o)
    /\ place' = [place EXCEPT ![o] = "free"]
    /\ UNCHANGED <<heads, items, key>>

\* slab_cache_free by ipc_port_destroy and the like, of an object in no table.
Release(c, o) ==
    /\ place[o] = "private" /\ slab[o[1]].cache = c
    /\ SlabFree(c, o)
    /\ place' = [place EXCEPT ![o] = "free"]
    /\ UNCHANGED <<heads, items, key>>

Next ==
    \/ \E c \in Cache : Allocate(c)
    \/ \E c \in Cache, o \in Obj, k \in Key : Enter(c, o, k)
    \/ \E c \in Cache, k \in Key : TakeOut(c, k)
    \/ \E c \in Cache, o \in Obj : Release(c, o)

Spec == Init /\ [][Next]_vars

-----------------------------------------------------------------------------
(* Properties *)

\* One word serves two lists and never both at once: the buckets of a table hold,
\* each once, just the objects that were added and not removed, every one in the
\* bucket of its key, and no object is in a bucket and on a free list.
BucketsExact ==
    LET free == UNION {ToSet(FreeObjects(p)) : p \in Page \ pages}
    IN  /\ \A c \in Cache, b \in Table!Bucket :
             /\ Ends(BucketChain(c, b)) /\ IsInjective(BucketChain(c, b))
             /\ \A o \in ToSet(Front(BucketChain(c, b))) :
                  /\ place[o] = "table" /\ slab[o[1]].cache = c
                  /\ Table!IndexOf(key[o]) = b
        /\ \A o \in Obj : place[o] = "table" =>
             o \in ToSet(ChainOf(slab[o[1]].cache, key[o]))
        /\ \A o \in Obj : place[o] = "free" <=> o[1] \in pages \/ o \in free

\* The objects of cache c that were handed out and are in no table, and those in
\* the table under key k, in the order a look-up meets them.
PrivateOf(c) == {o \in Obj : place[o] = "private" /\ slab[o[1]].cache = c}
EntriesOf(c, k) == Chosen(Front(ChainOf(c, k)), {o \in Obj : key[o] = k})

Promise == INSTANCE KeyedStore WITH
    Kind <- Cache, Object <- Obj, Name <- Key,
    private <- [c \in Cache |-> PrivateOf(c)],
    entries <- [c \in Cache |-> [k \in Key |-> EntriesOf(c, k)]]

\* The links implement the store: no object is handed out twice, and the one that
\* a look-up finds and a removal takes out is the newest of its key, whatever
\* shares the bucket, and no other.
ImplementsStore == Promise!Spec
=============================================================================
