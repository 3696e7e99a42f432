-------------------------------- MODULE Slab ---------------------------------
(***************************************************************************)
(* The slab allocator, of the kernel (kernel/src/mm/slab.c) and of user    *)
(* programs (lib/support/src/slab.c).                                      *)
(*                                                                         *)
(* A slab is a page: objects from its start, its header at its end.  The   *)
(* free objects of a slab are chained through their first word, the        *)
(* slabs of a cache are chained in two lists, those with free objects and  *)
(* those without.  Each operation runs under the lock of its cache.        *)
(***************************************************************************)
EXTENDS Integers, FiniteSets, SequencesExt

CONSTANTS
    Cache,   \* the slab caches
    Page,    \* the pages the allocator of pages can give them
    PerSlab, \* obj_per_slab
    Null

ASSUME SlabAssumption ==
    /\ IsFiniteSet(Page)
    /\ PerSlab \in Nat \ {0}
    /\ Null \notin Page \cup Cache \cup Page \X (1 .. PerSlab)

Obj == Page \X (1 .. PerSlab)

VARIABLES
    word,    \* the first word of each object: a link while the object is free
    slab,    \* the header of each page that is a slab
    full,    \* slab_full of each cache
    partial, \* slab_partial of each cache
    pages,   \* the pages that are free
    returns  \* whether a slab without objects in use is given back: it is in
             \* the kernel, it is not in user programs

slabVars == <<word, slab, full, partial, pages, returns>>

SlabHeader == [next : Page \cup {Null}, cache : Cache \cup {Null},
               freeList : Obj \cup {Null}, freeCount : 0 .. PerSlab]

SlabTypeOK ==
    /\ word \in [Obj -> Obj \cup {Null}]
    /\ slab \in [Page -> SlabHeader]
    /\ full \in [Cache -> Page \cup {Null}]
    /\ partial \in [Cache -> Page \cup {Null}]
    /\ pages \subseteq Page
    /\ returns \in BOOLEAN

\* slab_cache_init for every cache.
SlabInit ==
    /\ word = [o \in Obj |-> Null]
    /\ slab = [p \in Page |-> [next |-> Null, cache |-> Null,
                               freeList |-> Null, freeCount |-> 0]]
    /\ full = [c \in Cache |-> Null]
    /\ partial = [c \in Cache |-> Null]
    /\ pages = Page
    /\ returns \in BOOLEAN

-----------------------------------------------------------------------------
\* The nodes from head on, through next, up to and with the NULL at the end; a
\* chain with a loop in it does not end so.
Chain(next, head) ==
    LET upTo[n \in 0 .. Cardinality(DOMAIN next)] ==
          IF n = 0 THEN <<head>>
          ELSE LET s == upTo[n - 1]
               IN  IF Last(s) = Null THEN s ELSE Append(s, next[Last(s)])
    IN  upTo[Cardinality(DOMAIN next)]
Ends(chain) == Last(chain) = Null

SlabLink == [p \in Page |-> slab[p].next]
Slabs(head) == Chain(SlabLink, head)
FreeObjects(p) == Chain(word, slab[p].freeList)

-----------------------------------------------------------------------------
\* slab_create: the objects of the new slab are chained from the last to the
\* first.
Created(p) == [o \in Obj |-> IF o[1] # p THEN word[o]
                             ELSE IF o[2] = 1 THEN Null ELSE <<p, o[2] - 1>>]
Header(c, p) == [next |-> Null, cache |-> c,
                 freeList |-> <<p, PerSlab>>, freeCount |-> PerSlab]

\* slab_cache_alloc takes o, the first free object of slab p, whose header is h,
\* while w are the words of the objects.
TakeFirst(c, p, h, w, o) ==
    LET left == [h EXCEPT !.freeList = w[o], !.freeCount = @ - 1]
    IN  /\ o = h.freeList
        /\ word' = w
        /\ IF left.freeList = Null
           THEN /\ partial' = [partial EXCEPT ![c] = h.next]
                /\ slab' = [slab EXCEPT ![p] = [left EXCEPT !.next = full[c]]]
                /\ full' = [full EXCEPT ![c] = p]
           ELSE /\ partial' = [partial EXCEPT ![c] = p]
                /\ slab' = [slab EXCEPT ![p] = left]
                /\ UNCHANGED full
        /\ UNCHANGED returns

\* slab_cache_alloc(c) returns o; without a page for a new slab it returns NULL
\* and changes nothing.
SlabAlloc(c, o) ==
    IF partial[c] # Null
    THEN LET p == partial[c] IN TakeFirst(c, p, slab[p], word, o) /\ UNCHANGED pages
    ELSE \E p \in pages :
           /\ TakeFirst(c, p, Header(c, p), Created(p), o)
           /\ pages' = pages \ {p}

\* The list from head without slab p, which it holds: the new head and links.
Unlinked(head, p) ==
    IF head = p THEN [head |-> slab[p].next, slab |-> slab]
    ELSE LET prev == CHOOSE q \in ToSet(Slabs(head)) \ {Null} : slab[q].next = p
         IN  [head |-> head, slab |-> [slab EXCEPT ![prev].next = slab[p].next]]

\* Mutant: only a slab that was full is taken out of its list.
SlabFreeNoUnlink(c, o) ==
    LET p == o[1]
        was == slab[p].freeCount = 0
        empty == slab[p].freeCount + 1 = PerSlab
        out == IF was THEN Unlinked(full[c], p) ELSE [head |-> partial[c], slab |-> slab]
        freed == [out.slab[p] EXCEPT !.freeList = o, !.freeCount = @ + 1]
        away == returns /\ empty
    IN  /\ word' = [word EXCEPT ![o] = slab[p].freeList]
        /\ pages' = IF away THEN pages \cup {p} ELSE pages
        /\ full' = IF was THEN [full EXCEPT ![c] = out.head] ELSE full
        /\ slab' = [out.slab EXCEPT ![p] =
                      IF was /\ ~away THEN [freed EXCEPT !.next = partial[c]] ELSE freed]
        /\ partial' = [partial EXCEPT ![c] = IF was /\ ~away THEN p ELSE @]
        /\ UNCHANGED returns

\* slab_cache_free(c, o), for an object of c: the object joins the free ones of
\* its slab, and the slab moves from the full to the partial list, leaves its
\* list when nothing in it is in use any more, or stays where it is.
SlabFree(c, o) ==
    LET p == o[1]
        wasFull == slab[p].freeCount = 0
        away == returns /\ slab[p].freeCount + 1 = PerSlab
        list == IF wasFull THEN full[c] ELSE partial[c]
        out == IF wasFull \/ away THEN Unlinked(list, p) ELSE [head |-> list, slab |-> slab]
        freed == [out.slab[p] EXCEPT !.freeList = o, !.freeCount = @ + 1]
    IN  /\ word' = [word EXCEPT ![o] = slab[p].freeList]
        /\ pages' = IF away THEN pages \cup {p} ELSE pages
        /\ full' = IF wasFull THEN [full EXCEPT ![c] = out.head] ELSE full
        /\ slab' = [out.slab EXCEPT ![p] =
                      IF wasFull /\ ~away THEN [freed EXCEPT !.next = partial[c]] ELSE freed]
        /\ partial' = [partial EXCEPT ![c] = IF wasFull
                                            THEN IF away THEN @ ELSE p
                                            ELSE out.head]
        /\ UNCHANGED returns

-----------------------------------------------------------------------------
(* Properties *)

\* Every slab is in one list of the one cache it belongs to: among the full ones
\* if it has no free object, else among the partial ones; the kernel keeps none
\* without an object in use, and no list holds a page that was given back.  The
\* free objects of a slab are chained without a loop, lie in that slab and are as
\* many as its counter says.
SlabsExact ==
    /\ \A c \in Cache :
         /\ Ends(Slabs(full[c])) /\ Ends(Slabs(partial[c]))
         /\ \A p \in ToSet(Slabs(full[c])) \ {Null} :
              slab[p].cache = c /\ p \notin pages /\ slab[p].freeCount = 0
         /\ \A p \in ToSet(Slabs(partial[c])) \ {Null} :
              /\ slab[p].cache = c /\ p \notin pages
              /\ slab[p].freeCount > 0
              /\ returns => slab[p].freeCount < PerSlab
    /\ \A p \in Page \ pages :
         LET c == slab[p].cache
             free == Front(FreeObjects(p))
         IN  /\ c \in Cache /\ p \in ToSet(Slabs(full[c]) \o Slabs(partial[c]))
             /\ Ends(FreeObjects(p)) /\ IsInjective(free)
             /\ Len(free) = slab[p].freeCount
             /\ \A o \in ToSet(free) : o[1] = p
=============================================================================
