----------------------------- MODULE MemoryProofs ----------------------------
(***************************************************************************)
(* Proofs about memory: its pages (PhysMemory) and the objects laid out in *)
(* them (Slab and HashTable, in Objects).                                  *)
(*                                                                         *)
(* PhysMemory: whatever the firmware reports, in whatever order, and       *)
(* wherever memory is in use, the map stays ordered and apart from what    *)
(* was taken out of it, the table of free pages holds each of its pages    *)
(* once, and as many pages are allocated as callers have (PInv).           *)
(*                                                                         *)
(* Objects: the properties speak of chains that are walked; the inductive  *)
(* invariant (IInv) says of every head which set of nodes the list from    *)
(* it holds (Listed).  Slabs are full or partial by their counter, objects *)
(* free or in a bucket by what became of them, so the sets of two lists    *)
(* are disjoint, and a step that links or unlinks a node of one list       *)
(* leaves the others as they were (ListedFrame).  With that every action   *)
(* is a push, a pop or an unlinking (ListedPush, ListedPop, ListedUnlink), *)
(* and a step of the store of KeyedStore.                                  *)
(***************************************************************************)
EXTENDS PhysMemory, Objects, ListProofs

-----------------------------------------------------------------------------
(* PhysMemory. *)

\* What the table of free pages holds of a list: each page once.
LEMMA FilledExact ==
    ASSUME NEW list \in Seq(Regions), Ordered(list)
    PROVE  /\ Filled(list) \in Seq(Nat)
           /\ IsInjective(Filled(list))
           /\ ToSet(Filled(list)) = PagesOf(list)
<1> DEFINE segs == [i \in DOMAIN list |-> [k \in 1 .. list[i].size |-> list[i].base + k - 1]]
           Holds(i, s) == /\ IsInjective(s)
                          /\ \A x : x \in ToSet(s) <=> \E j \in 1 .. i : x \in Pages(list[j])
           P == {p \in Nat \X Seq(Nat) : Holds(p[1], p[2])}
<1>1. PICK n \in Nat : n = Len(list) /\ DOMAIN list = 1 .. n /\ \A i \in 1 .. n : list[i] \in Regions
  BY LenProperties
<1>2. ASSUME NEW r \in Regions
      PROVE  LET s == [k \in 1 .. r.size |-> r.base + k - 1]
             IN  /\ s \in Seq(Nat) /\ IsInjective(s)
                 /\ \A x : x \in ToSet(s) <=> x \in Pages(r)
  <2> DEFINE s == [k \in 1 .. r.size |-> r.base + k - 1]
  <2>1. r.base \in Nat /\ r.size \in Nat \ {0}
    BY DEF Regions
  <2>2. s \in Seq(Nat) /\ DOMAIN s = 1 .. r.size
    BY <2>1
  <2>3. IsInjective(s)
    BY <2>1 DEF IsInjective
  <2>4. ASSUME NEW x PROVE x \in ToSet(s) <=> x \in Pages(r)
    <3>1. ASSUME x \in ToSet(s) PROVE x \in Pages(r)
      <4>1. PICK k \in 1 .. r.size : x = r.base + k - 1
        BY <3>1, <2>2 DEF ToSet
      <4> QED BY <2>1, <4>1 DEF Pages, EndOf
    <3>2. ASSUME x \in Pages(r) PROVE x \in ToSet(s)
      <4>1. x \in Int /\ r.base <= x /\ x <= r.base + r.size - 1
        BY <2>1, <3>2 DEF Pages, EndOf
      <4>2. x - r.base + 1 \in 1 .. r.size /\ x = r.base + (x - r.base + 1) - 1
        BY <2>1, <4>1
      <4>3. s[x - r.base + 1] = x
        BY <4>2
      <4> HIDE DEF s
      <4> QED BY <2>2, <4>2, <4>3 DEF ToSet
    <3> QED BY <3>1, <3>2
  <2> QED BY <2>2, <2>3, <2>4
<1>3. /\ segs \in Seq(Seq(Nat)) /\ Len(segs) = n
      /\ \A i \in 1 .. n : segs[i] = [k \in 1 .. list[i].size |-> list[i].base + k - 1]
  <2>1. \A i \in 1 .. n : [k \in 1 .. list[i].size |-> list[i].base + k - 1] \in Seq(Nat)
    BY <1>1, <1>2
  <2> QED BY <1>1, <2>1
<1>4. Filled(list) = FlattenSeq(segs)
  BY DEF Filled
<1>5. CASE n = 0
  <2>1. list = << >> /\ segs = << >>
    BY <1>1, <1>3, <1>5, EmptySeq
  <2>2. FlattenSeq(segs) = << >>
    BY <1>3, <1>5, <2>1 DEF FlattenSeq
  <2>3. IsInjective(<< >>) /\ ToSet(<< >>) = {} /\ PagesOf(<< >>) = {} /\ << >> \in Seq(Nat)
    BY EmptyQueue DEF PagesOf
  <2> QED BY <1>4, <2>1, <2>2, <2>3
<1>6. CASE n # 0
  <2>1. segs # << >> /\ 1 \in 1 .. n
    BY <1>3, <1>6
  <2> HIDE DEF segs
  <2>2. \A i \in 1 .. n : /\ segs[i] \in Seq(Nat) /\ IsInjective(segs[i])
                          /\ \A x : x \in ToSet(segs[i]) <=> x \in Pages(list[i])
    BY <1>1, <1>2, <1>3
  <2>3. << 1, segs[1] >> \in P
    <3>1. ASSUME NEW x
          PROVE  (\E j \in 1 .. 1 : x \in Pages(list[j])) <=> x \in Pages(list[1])
      <4>1. 1 .. 1 = {1}
        OBVIOUS
      <4> QED BY <4>1
    <3>2. Holds(1, segs[1])
      BY <2>1, <2>2, <3>1
    <3> HIDE DEF Holds
    <3> QED BY <2>1, <2>2, <3>2
  <2>4. ASSUME NEW i \in 2 .. n, NEW s \in Seq(Nat), << i - 1, s >> \in P
        PROVE  << i, s \o segs[i] >> \in P
    <3>1. i \in 1 .. n /\ i - 1 \in Nat /\ i \in Nat /\ 1 .. i = (1 .. i - 1) \cup {i}
      OBVIOUS
    <3>2. Holds(i - 1, s)
      BY <2>4
    <3>3. ASSUME NEW x \in ToSet(s), NEW y \in ToSet(segs[i]) PROVE x # y
      <4>1. PICK j \in 1 .. i - 1 : x \in Pages(list[j])
        BY <3>2
      <4>2. j \in 1 .. n /\ j < i
        BY <4>1, <3>1
      <4>3. y \in Pages(list[i])
        BY <2>2, <3>1
      <4>4. x < y
        BY <1>1, <3>1, <4>1, <4>2, <4>3, PagesFollow
      <4>5. x \in Int
        <5>1. list[j] \in Regions
          BY <1>1, <4>2
        <5> QED BY <4>1, <5>1 DEF Pages
      <4> QED BY <4>4, <4>5
    <3>4. /\ s \o segs[i] \in Seq(Nat) /\ IsInjective(s \o segs[i])
          /\ \A x : x \in ToSet(s \o segs[i]) <=> x \in ToSet(s) \/ x \in ToSet(segs[i])
      BY <2>2, <3>1, <3>2, <3>3, ConcatNew
    <3>5. ASSUME NEW x
          PROVE  x \in ToSet(s \o segs[i]) <=> \E j \in 1 .. i : x \in Pages(list[j])
      <4>1. x \in ToSet(s) <=> \E j \in 1 .. i - 1 : x \in Pages(list[j])
        BY <3>2
      <4>2. x \in ToSet(segs[i]) <=> x \in Pages(list[i])
        BY <2>2, <3>1
      <4>3. (\E j \in 1 .. i : x \in Pages(list[j])) <=>
              (\E j \in 1 .. i - 1 : x \in Pages(list[j])) \/ x \in Pages(list[i])
        BY <3>1
      <4> QED BY <3>4, <4>1, <4>2, <4>3
    <3>6. Holds(i, s \o segs[i])
      BY <3>4, <3>5
    <3> HIDE DEF Holds
    <3> QED BY <3>1, <3>4, <3>6
  <2>5. << n, FlattenSeq(segs) >> \in P /\ FlattenSeq(segs) \in Seq(Nat)
    <3> HIDE DEF P
    <3> QED BY <1>3, <2>1, <2>3, <2>4, FlattenInduction
  <2>6. Holds(n, FlattenSeq(segs))
    BY <2>5
  <2>7. \A x : x \in PagesOf(list) <=> \E j \in 1 .. n : x \in Pages(list[j])
    BY <1>1 DEF PagesOf
  <2> QED BY <1>4, <2>5, <2>6, <2>7
<1> QED BY <1>5, <1>6

-----------------------------------------------------------------------------
\* Before the table is there, nothing was handed out.
Booting ==
    phase # "run" => freeTable = << >> /\ allocated = 0 /\ held = {} /\ tablePages = {}

\* What was taken out of the map stays out of it and of the table.
KeptOut ==
    /\ phase = "report" => reserved = {}
    /\ tablePages \cap PagesOf(map) = {}
    /\ \A k \in reserved : Pages(Reservations[k]) \cap (PagesOf(map) \cup tablePages) = {}

\* As many pages are allocated as callers have.
Counted == IsFiniteSet(held) /\ Cardinality(held) = allocated

\* The inductive invariant.
PInv == MemoryTypeOK /\ MapOrdered /\ Booting /\ KeptOut /\ Counted /\ FreePagesOnce

LEMMA PInvInit == MemoryInit => PInv
<1> SUFFICES ASSUME MemoryInit PROVE PInv
  OBVIOUS
<1>1. PagesOf(<< >>) = {} /\ Ordered(<< >>)
  BY DEF PagesOf, Ordered
<1>2. MemoryTypeOK
  BY MemoryAssumption DEF MemoryInit, MemoryTypeOK
<1>3. Counted
  BY FS_EmptySet DEF MemoryInit, Counted
<1> QED BY <1>1, <1>2, <1>3 DEF MemoryInit, PInv, MapOrdered, Booting, KeptOut, FreePagesOnce

LEMMA ReportKeeps ==
    ASSUME PInv, NEW r \in Available, Report(r)
    PROVE  PInv'
<1>1. r \in Regions
  BY MemoryAssumption
<1>2. map' \in Seq(Regions) /\ Ordered(map')
  <2>1. CASE used < Entries /\ CanAdd(map, r)
    <3>1. map' = Inserted(map, r)
      BY <2>1 DEF Report
    <3> QED BY <1>1, <2>1, <3>1, AddJoinsPages DEF PInv, MemoryTypeOK, MapOrdered
  <2>2. CASE ~(used < Entries /\ CanAdd(map, r))
    BY <2>2 DEF Report, PInv, MemoryTypeOK, MapOrdered
  <2> QED BY <2>1, <2>2
<1>3. used' \in 0 .. Entries /\ reported' \in 0 .. MaxReports
  BY MemoryAssumption DEF PInv, MemoryTypeOK, Report
<1>4. MemoryTypeOK'
  BY <1>2, <1>3 DEF PInv, MemoryTypeOK, Report
<1>5. KeptOut'
  BY DEF PInv, KeptOut, Booting, Report
<1> QED BY <1>2, <1>4, <1>5 DEF PInv, MapOrdered, Booting, Counted, FreePagesOnce, Report

LEMMA ReserveKeeps ==
    ASSUME PInv, Reserve
    PROVE  PInv'
<1> DEFINE e == Reservations[next]
           refused == NeedsEntry(map, e) /\ used = Entries
<1>1. next \in DOMAIN Reservations /\ e \in Regions /\ next + 1 \in 1 .. Len(Reservations) + 1
  <2>1. PICK n \in Nat : n = Len(Reservations) /\ DOMAIN Reservations = 1 .. n
    BY MemoryAssumption, LenProperties
  <2>2. next \in 1 .. n
    BY <2>1 DEF Reserve, PInv, MemoryTypeOK
  <2> QED BY <2>1, <2>2, MemoryAssumption
<1>2. /\ Excluded(map, e) \in Seq(Regions) /\ Ordered(Excluded(map, e))
      /\ PagesOf(Excluded(map, e)) = PagesOf(map) \ Pages(e)
  BY <1>1, ExcludeRemovesPages DEF PInv, MemoryTypeOK, MapOrdered
<1>3. /\ map' = IF refused THEN map ELSE Excluded(map, e)
      /\ used' = IF NeedsEntry(map, e) /\ ~refused THEN used + 1 ELSE used
      /\ reserved' = IF refused THEN reserved ELSE reserved \cup {next}
      /\ next' = next + 1 /\ phase = "reserve"
      /\ UNCHANGED << phase, reported, tablePages, freeTable, allocated, held >>
  BY DEF Reserve
<1> HIDE DEF e
<1>4. map' \in Seq(Regions) /\ Ordered(map')
  BY <1>2, <1>3 DEF PInv, MemoryTypeOK, MapOrdered
<1>5. used' \in 0 .. Entries
  BY <1>3, MemoryAssumption DEF PInv, MemoryTypeOK
<1>6. MemoryTypeOK'
  BY <1>1, <1>3, <1>4, <1>5 DEF PInv, MemoryTypeOK
<1>7. KeptOut'
  <2>1. tablePages' = {}
    BY <1>3 DEF PInv, Booting
  <2>2. ASSUME NEW k \in reserved' PROVE Pages(Reservations[k]) \cap PagesOf(map') = {}
    <3>1. CASE refused
      BY <1>3, <2>2, <3>1 DEF PInv, KeptOut
    <3>2. CASE ~refused /\ k \in reserved
      BY <1>2, <1>3, <3>2 DEF PInv, KeptOut
    <3>3. CASE ~refused /\ k = next
      BY <1>2, <1>3, <3>3 DEF e
    <3> QED BY <1>3, <2>2, <3>1, <3>2, <3>3
  <2> QED BY <1>3, <2>1, <2>2 DEF KeptOut
<1> QED BY <1>3, <1>4, <1>6, <1>7 DEF PInv, MapOrdered, Booting, Counted, FreePagesOnce

LEMMA PlaceTableKeeps ==
    ASSUME PInv, PlaceTable
    PROVE  PInv'
<1> DEFINE at == map[FirstFit(map, TableSize)].base
<1>1. /\ map' \in Seq(Regions) /\ Ordered(map')
      /\ tablePages' \subseteq PagesOf(map)
      /\ PagesOf(map') = PagesOf(map) \ tablePages'
  <2>1. Fits(map, TableSize) # {} /\ TableSize \in Nat \ {0}
    BY MemoryAssumption DEF PlaceTable, CanPlaceTable
  <2>2. map' = Allocated(map, TableSize) /\ tablePages' = Pages(Region(at, TableSize))
    BY DEF PlaceTable
  <2> QED BY <2>1, <2>2, AllocTakesPages DEF PInv, MemoryTypeOK, MapOrdered
<1>2. freeTable' \in Seq(Nat) /\ IsInjective(freeTable') /\ ToSet(freeTable') = PagesOf(map')
  <2>1. freeTable' = Filled(map')
    BY DEF PlaceTable
  <2> QED BY <1>1, <2>1, FilledExact
<1>3. /\ phase = "table" /\ phase' = "run" /\ allocated = 0 /\ held = {}
      /\ UNCHANGED << used, reported, next, reserved, allocated, held >>
  BY DEF PlaceTable, PInv, Booting
<1>4. tablePages' \subseteq Nat
  <2>1. \A i \in DOMAIN map : map[i] \in Regions
    BY DEF PInv, MemoryTypeOK
  <2>2. PagesOf(map) \subseteq Nat
    BY <2>1, RegionEnds DEF PagesOf, Pages
  <2> QED BY <1>1, <2>2
<1>5. allocated' \in 0 .. Len(freeTable')
  BY <1>2, <1>3, LenProperties
<1>6. MemoryTypeOK'
  BY <1>1, <1>2, <1>3, <1>4, <1>5 DEF PInv, MemoryTypeOK
<1>7. KeptOut'
  BY <1>1, <1>3 DEF PInv, KeptOut
<1>8. FreePagesOnce'
  <2>1. Unallocated' = DOMAIN freeTable'
    BY <1>2, <1>3, LenProperties DEF Unallocated
  <2>2. \A i, j \in DOMAIN freeTable' : freeTable'[i] = freeTable'[j] => i = j
    BY <1>2 DEF IsInjective
  <2>3. PagesOf(map') = {freeTable'[i] : i \in DOMAIN freeTable'}
    BY <1>2 DEF ToSet
  <2> QED BY <1>3, <2>1, <2>2, <2>3 DEF FreePagesOnce
<1> QED BY <1>1, <1>3, <1>6, <1>7, <1>8 DEF PInv, MapOrdered, Booting, Counted

LEMMA AllocKeeps ==
    ASSUME PInv, Alloc
    PROVE  PInv'
<1>1. PICK a, n \in Nat : a = allocated /\ n = Len(freeTable) /\ a < n
  <2>1. PICK n \in Nat : n = Len(freeTable)
    BY LenProperties DEF PInv, MemoryTypeOK
  <2>2. PICK a \in 0 .. n : a = allocated
    BY <2>1 DEF PInv, MemoryTypeOK
  <2>3. a \in Nat /\ a < n
    BY <2>1, <2>2 DEF Alloc
  <2> QED BY <2>1, <2>2, <2>3
<1>2. /\ DOMAIN freeTable = 1 .. n /\ \A i \in 1 .. n : freeTable[i] \in Nat
      /\ held \subseteq Nat
  BY <1>1, LenProperties DEF PInv, MemoryTypeOK
<1>3. /\ phase = "run" /\ allocated' = a + 1 /\ held' = held \cup {freeTable[a + 1]}
      /\ UNCHANGED << bootVars, freeTable >>
  BY <1>1 DEF Alloc
<1>4. Unallocated = a + 1 .. n /\ Unallocated' = a + 2 .. n
  BY <1>1, <1>3 DEF Unallocated
<1>5. /\ \A i, j \in a + 1 .. n : freeTable[i] = freeTable[j] => i = j
      /\ \A i \in a + 1 .. n : freeTable[i] \notin held
      /\ PagesOf(map) = held \cup {freeTable[i] : i \in a + 1 .. n}
  BY <1>3, <1>4 DEF PInv, FreePagesOnce
<1>6. a + 1 \in a + 1 .. n /\ a + 1 \in 1 .. n /\ a + 1 .. n = (a + 2 .. n) \cup {a + 1}
      /\ a + 1 \notin a + 2 .. n
  BY <1>1
<1>7. MemoryTypeOK'
  <2>1. allocated' \in 0 .. Len(freeTable')
    BY <1>1, <1>3
  <2>2. held' \subseteq Nat
    BY <1>2, <1>3, <1>6
  <2> QED BY <1>3, <2>1, <2>2 DEF PInv, MemoryTypeOK, bootVars
<1>8. Counted'
  <2>1. freeTable[a + 1] \notin held
    BY <1>5, <1>6
  <2>2. IsFiniteSet(held) /\ Cardinality(held) = a
    BY <1>1 DEF PInv, Counted
  <2>3. IsFiniteSet(held') /\ Cardinality(held') = Cardinality(held) + 1
    BY <1>3, <2>1, <2>2, FS_AddElement
  <2> QED BY <1>3, <2>2, <2>3 DEF Counted
<1>9. FreePagesOnce'
  <2>1. \A i, j \in a + 2 .. n : freeTable[i] = freeTable[j] => i = j
    BY <1>5, <1>6
  <2>2. \A i \in a + 2 .. n : freeTable[i] \notin held'
    BY <1>3, <1>5, <1>6
  <2>3. PagesOf(map) = held' \cup {freeTable[i] : i \in a + 2 .. n}
    BY <1>3, <1>5, <1>6
  <2> QED BY <1>3, <1>4, <2>1, <2>2, <2>3 DEF FreePagesOnce, bootVars
<1> QED BY <1>3, <1>7, <1>8, <1>9 DEF PInv, MapOrdered, Booting, KeptOut, bootVars

LEMMA FreeKeeps ==
    ASSUME PInv, NEW p \in held, Free(p)
    PROVE  PInv'
<1>1. PICK a, n \in Nat : a = allocated /\ n = Len(freeTable) /\ a <= n
  <2>1. PICK n \in Nat : n = Len(freeTable)
    BY LenProperties DEF PInv, MemoryTypeOK
  <2>2. PICK a \in 0 .. n : a = allocated
    BY <2>1 DEF PInv, MemoryTypeOK
  <2>3. a \in Nat /\ a <= n
    OBVIOUS
  <2> QED BY <2>1, <2>2, <2>3
<1>2. /\ DOMAIN freeTable = 1 .. n /\ \A i \in 1 .. n : freeTable[i] \in Nat
      /\ held \subseteq Nat /\ freeTable \in Seq(Nat)
  BY <1>1, LenProperties DEF PInv, MemoryTypeOK
<1>3. /\ phase = "run" /\ freeTable' = [freeTable EXCEPT ![a] = p] /\ allocated' = a - 1
      /\ held' = held \ {p} /\ UNCHANGED bootVars
  BY <1>1 DEF Free
<1>4. IsFiniteSet(held) /\ Cardinality(held) = a
  BY <1>1 DEF PInv, Counted
<1>5. a # 0
  BY <1>4, FS_EmptySet
<1>6. IsFiniteSet(held') /\ Cardinality(held') = a - 1
  BY <1>3, <1>4, FS_RemoveElement
<1>7. /\ freeTable' \in Seq(Nat) /\ Len(freeTable') = n
      /\ freeTable'[a] = p /\ \A i \in 1 .. n : i # a => freeTable'[i] = freeTable[i]
  <2>1. a \in 1 .. n
    BY <1>1, <1>5
  <2>2. freeTable' \in [1 .. n -> Nat]
    BY <1>2, <1>3
  <2>3. freeTable' \in Seq(Nat)
    BY <2>2
  <2>4. Len(freeTable') = n
    BY <1>1, <1>2, <1>3
  <2> QED BY <1>2, <1>3, <2>1, <2>3, <2>4
<1>8. Unallocated = a + 1 .. n /\ Unallocated' = a .. n
  BY <1>1, <1>3, <1>7 DEF Unallocated
<1>9. /\ \A i, j \in a + 1 .. n : freeTable[i] = freeTable[j] => i = j
      /\ \A i \in a + 1 .. n : freeTable[i] \notin held
      /\ PagesOf(map) = held \cup {freeTable[i] : i \in a + 1 .. n}
  BY <1>3, <1>8 DEF PInv, FreePagesOnce
<1>10. a .. n = (a + 1 .. n) \cup {a} /\ \A i \in a + 1 .. n : i \in 1 .. n /\ i # a
  BY <1>1, <1>5
<1>11. \A i \in a + 1 .. n : freeTable'[i] = freeTable[i]
  BY <1>7, <1>10
<1>12. MemoryTypeOK'
  <2>1. allocated' \in 0 .. Len(freeTable')
    BY <1>1, <1>3, <1>5, <1>7
  <2> QED BY <1>2, <1>3, <1>7, <2>1 DEF PInv, MemoryTypeOK, bootVars
<1>13. FreePagesOnce'
  <2>1. \A i \in a + 1 .. n : freeTable[i] # p
    BY <1>9
  <2>2. \A i, j \in a .. n : freeTable'[i] = freeTable'[j] => i = j
    BY <1>7, <1>9, <1>10, <1>11, <2>1
  <2>3. \A i \in a .. n : freeTable'[i] \notin held'
    BY <1>3, <1>7, <1>9, <1>10, <1>11
  <2>4. PagesOf(map) = held' \cup {freeTable'[i] : i \in a .. n}
    <3>1. ASSUME NEW x
          PROVE  x \in {freeTable'[i] : i \in a .. n} <=>
                    x = p \/ x \in {freeTable[i] : i \in a + 1 .. n}
      <4>1. (\E i \in a .. n : x = freeTable'[i]) <=>
              x = freeTable'[a] \/ \E i \in a + 1 .. n : x = freeTable'[i]
        BY <1>10
      <4>2. (\E i \in a + 1 .. n : x = freeTable'[i]) <=> \E i \in a + 1 .. n : x = freeTable[i]
        BY <1>11
      <4> QED BY <1>7, <4>1, <4>2
    <3> QED BY <1>3, <1>9, <3>1
  <2> QED BY <1>3, <1>8, <2>2, <2>3, <2>4 DEF FreePagesOnce, bootVars
<1> QED BY <1>3, <1>6, <1>12, <1>13 DEF PInv, MapOrdered, Booting, KeptOut, Counted, bootVars

LEMMA PInvStep == PInv /\ [MemoryNext]_memoryVars => PInv'
<1> SUFFICES ASSUME PInv, [MemoryNext]_memoryVars PROVE PInv'
  OBVIOUS
<1>k. ASSUME UNCHANGED << map, used, reported, next, reserved, tablePages, freeTable,
                          allocated, held >>,
             phase' # "report", phase # "run" <=> phase' # "run",
             phase' \in {"report", "reserve", "table", "run", "halt"}
      PROVE  PInv'
  BY <1>k DEF PInv, MemoryTypeOK, MapOrdered, Booting, KeptOut, Counted, FreePagesOnce, Unallocated
<1>1. CASE UNCHANGED memoryVars
  BY <1>1 DEF memoryVars, PInv, MemoryTypeOK, MapOrdered, Booting, KeptOut, Counted, FreePagesOnce,
              Unallocated
<1>2. ASSUME NEW r \in Available, Report(r) PROVE PInv'
  BY <1>2, ReportKeeps
<1>3. CASE EndOfReport
  BY <1>3, <1>k DEF EndOfReport
<1>4. CASE Reserve
  BY <1>4, ReserveKeeps
<1>5. CASE EndOfReserve
  BY <1>5, <1>k DEF EndOfReserve
<1>6. CASE PlaceTable
  BY <1>6, PlaceTableKeeps
<1>7. CASE CannotPlaceTable
  BY <1>7, <1>k DEF CannotPlaceTable
<1>8. CASE Alloc
  BY <1>8, AllocKeeps
<1>9. ASSUME NEW p \in held, Free(p) PROVE PInv'
  BY <1>9, FreeKeeps
<1> QED BY <1>1, <1>2, <1>3, <1>4, <1>5, <1>6, <1>7, <1>8, <1>9 DEF MemoryNext

-----------------------------------------------------------------------------
\* The regions of the map never overlap.
THEOREM RegionsApart == MemorySpec => []MapOrdered
<1>1. PInv => MapOrdered
  BY DEF PInv
<1> QED BY <1>1, PInvInit, PInvStep, PTL DEF MemorySpec

\* No page is handed out twice or lost.
THEOREM PagesOnce == MemorySpec => []FreePagesOnce
<1>1. PInv => FreePagesOnce
  BY DEF PInv
<1> QED BY <1>1, PInvInit, PInvStep, PTL DEF MemorySpec

\* What was taken out of the map is never handed out.
THEOREM ReservationsHold == MemorySpec => []ReservedKept
<1>1. PInv => ReservedKept
  BY DEF PInv, ReservedKept, FreePagesOnce, KeptOut
<1> QED BY <1>1, PInvInit, PInvStep, PTL DEF MemorySpec

\* pmm_free never finds a count of zero, where it would panic.
THEOREM FreesCounted == MemorySpec => [](held # {} => allocated > 0)
<1>1. PInv => (held # {} => allocated > 0)
  <2> SUFFICES ASSUME PInv, NEW p \in held PROVE allocated > 0
    OBVIOUS
  <2>1. allocated \in Nat /\ allocated # 0
    BY FS_EmptySet, FS_CardinalityType DEF PInv, Counted
  <2> QED BY <2>1
<1> QED BY <1>1, PInvInit, PInvStep, PTL DEF MemorySpec

-----------------------------------------------------------------------------
(* Linked lists. *)

\* The word that links to place i of the list s: NULL after its end.
At(s, i) == IF i <= Len(s) THEN s[i] ELSE Null

\* link links the nodes of N, of which there are finitely many.
Links(N, link) == IsFiniteSet(N) /\ Null \notin N /\ link \in [N -> N \cup {Null}]

\* The nodes of s are linked in that order, from head to NULL.
Linked(N, link, head, s) ==
    /\ s \in Seq(N) /\ IsInjective(s)
    /\ head = At(s, 1)
    /\ \A i \in 1 .. Len(s) : link[s[i]] = At(s, i + 1)

\* The nodes of the list from head.
Nodes(link, head) == Front(Chain(link, head))

\* The list from head holds just the nodes of S, each once.
Listed(N, link, head, S) ==
    /\ Linked(N, link, head, Nodes(link, head))
    /\ Chain(link, head) = Append(Nodes(link, head), Null)
    /\ ToSet(Nodes(link, head)) = S

\* A sequence that repeats nothing is as long as its elements are many.
LEMMA InjectiveLength ==
    ASSUME NEW N, NEW s \in Seq(N), IsInjective(s)
    PROVE  IsFiniteSet(ToSet(s)) /\ Cardinality(ToSet(s)) = Len(s)
<1>1. Len(s) \in Nat /\ DOMAIN s = 1 .. Len(s)
  BY LenProperties
<1>2. IsFiniteSet(1 .. Len(s)) /\ Cardinality(1 .. Len(s)) = Len(s)
  <2>1. IsFiniteSet(1 .. Len(s))
        /\ Cardinality(1 .. Len(s)) = IF 1 > Len(s) THEN 0 ELSE Len(s) - 1 + 1
    BY <1>1, FS_Interval
  <2> QED BY <1>1, <2>1
<1>3. s \in Bijection(1 .. Len(s), ToSet(s))
  <2>1. s \in [1 .. Len(s) -> ToSet(s)]
    BY <1>1 DEF ToSet
  <2>2. \A a, b \in 1 .. Len(s) : s[a] = s[b] => a = b
    BY <1>1 DEF IsInjective
  <2>3. \A t \in ToSet(s) : \E a \in 1 .. Len(s) : s[a] = t
    BY <1>1 DEF ToSet
  <2> QED BY <2>1, <2>2, <2>3 DEF Bijection, Injection, Surjection
<1>4. ExistsBijection(1 .. Len(s), ToSet(s))
  BY <1>3, Zenon DEF ExistsBijection
<1> QED BY <1>2, <1>4, FS_Bijection

\* The walk from head finds the nodes that are linked, one after the other: the
\* list is no longer than its nodes are many, so the walk does not stop early.
LEMMA LinkedChain ==
    ASSUME NEW N, NEW link, NEW head, NEW s, Links(N, link), Linked(N, link, head, s)
    PROVE  Chain(link, head) = Append(s, Null) /\ Nodes(link, head) = s
<1> DEFINE c == Append(s, Null)
           C == Cardinality(DOMAIN link)
<1>1. PICK L \in Nat : L = Len(s)
  BY LenProperties DEF Linked
<1>2. s \in Seq(N) /\ C = Cardinality(N)
  BY DEF Linked, Links
<1>3. C \in Nat /\ L <= C
  <2>1. IsFiniteSet(ToSet(s)) /\ Cardinality(ToSet(s)) = L /\ ToSet(s) \subseteq N
    BY <1>1, <1>2, InjectiveLength, QueueElements DEF Linked
  <2> QED BY <1>2, <2>1, FS_Subset, FS_CardinalityType DEF Links
<1> HIDE DEF C
<1> DEFINE M == N \cup {Null}
<1>4. /\ c \in Seq(M) /\ Len(c) = L + 1 /\ c[L + 1] = Null
      /\ \A i \in 1 .. L : c[i] = s[i] /\ c[i] # Null
  <2>1. s \in Seq(M)
    BY <1>2
  <2>2. \A i \in 1 .. L : s[i] \in N
    BY <1>1, <1>2
  <2> QED BY <1>1, <2>1, <2>2 DEF Links
<1>5. head = c[1] /\ \A i \in 1 .. L : link[c[i]] = c[i + 1]
  <2>1. head = c[1]
    BY <1>1, <1>4 DEF Linked, At
  <2>2. ASSUME NEW i \in 1 .. L PROVE link[c[i]] = c[i + 1]
    <3>1. link[c[i]] = At(s, i + 1)
      BY <1>1, <1>4 DEF Linked
    <3> QED BY <1>1, <1>4, <3>1 DEF At
  <2> QED BY <2>1, <2>2
<1> HIDE DEF c, M
<1> DEFINE Cut(n) == SubSeq(c, 1, IF n <= L THEN n + 1 ELSE L + 1)
           Up(f) == f = [n \in 0 .. C |->
                      IF n = 0 THEN << head >>
                      ELSE LET t == f[n - 1]
                           IN  IF Last(t) = Null THEN t ELSE Append(t, link[Last(t)])]
           h == CHOOSE f : Up(f)
           g == [n \in 0 .. C |-> Cut(n)]
<1>6. Cut(0) = << head >>
  <2>1. Cut(0) = SubSeq(c, 1, 1)
    BY <1>1
  <2>2. SubSeq(c, 1, 1) = << c[1] >>
    <3>1. SubSeq(c, 1, 1) \in Seq(M) /\ Len(SubSeq(c, 1, 1)) = 1 /\ SubSeq(c, 1, 1)[1] = c[1]
      BY <1>4, SubSeqProperties
    <3>2. c[1] \in M
      BY <1>4
    <3>3. << c[1] >> \in Seq(M) /\ Len(<< c[1] >>) = 1 /\ << c[1] >>[1] = c[1]
      BY <3>2
    <3>4. \A i \in 1 .. 1 : SubSeq(c, 1, 1)[i] = << c[1] >>[i]
      BY <3>1, <3>3
    <3> QED BY <3>1, <3>3, <3>4, SeqEqual
  <2> QED BY <1>5, <2>1, <2>2
<1>7. ASSUME NEW n \in 1 .. C
      PROVE  Cut(n) = IF Last(Cut(n - 1)) = Null THEN Cut(n - 1)
                      ELSE Append(Cut(n - 1), link[Last(Cut(n - 1))])
  <2>1. CASE n <= L
    <3> DEFINE d == SubSeq(c, 1, n)
    <3>1. Cut(n - 1) = d
      BY <2>1
    <3>2. /\ d \in Seq(M) /\ Len(d) = n /\ \A i \in 1 .. n : d[i] = c[i]
      BY <1>4, <2>1, SubSeqProperties
    <3>3. Last(d) = c[n]
      BY <3>2 DEF Last
    <3>4. Last(d) # Null /\ link[Last(d)] = c[n + 1]
      BY <1>4, <1>5, <2>1, <3>3
    <3>5. Cut(n) = SubSeq(c, 1, n + 1)
      BY <2>1
    <3>6. SubSeq(c, 1, n + 1) = Append(d, c[n + 1])
      <4> DEFINE e == SubSeq(c, 1, n + 1)
                 a == Append(d, c[n + 1])
      <4>1. e \in Seq(M) /\ Len(e) = n + 1 /\ \A i \in 1 .. n + 1 : e[i] = c[i]
        BY <1>4, <2>1, SubSeqProperties
      <4>2. c[n + 1] \in M
        BY <1>4, <2>1
      <4> HIDE DEF d
      <4>3. a \in Seq(M) /\ Len(a) = n + 1 /\ a[n + 1] = c[n + 1] /\ \A i \in 1 .. n : a[i] = d[i]
        BY <3>2, <4>2
      <4> HIDE DEF e, a
      <4>4. \A i \in 1 .. n + 1 : e[i] = a[i]
        BY <3>2, <4>1, <4>3
      <4>5. e = a
        BY <4>1, <4>3, <4>4, SeqEqual
      <4> QED BY <4>5 DEF e, a
    <3> HIDE DEF d, Cut
    <3> QED BY <3>1, <3>4, <3>5, <3>6, Zenon
  <2>2. CASE ~(n <= L)
    <3>1. Cut(n) = SubSeq(c, 1, L + 1) /\ Cut(n - 1) = SubSeq(c, 1, L + 1)
      BY <2>2
    <3>2. SubSeq(c, 1, L + 1) = c /\ Last(c) = Null
      BY <1>4 DEF Last
    <3> HIDE DEF Cut
    <3> QED BY <3>1, <3>2, Zenon
  <2> QED BY <2>1, <2>2
<1> HIDE DEF Cut
<1>8. Up(g)
  <2>1. \A n \in 1 .. C : n - 1 \in 0 .. C /\ n # 0
    BY <1>3
  <2>2. \A n \in 0 .. C : g[n] = IF n = 0 THEN << head >>
                                 ELSE LET t == g[n - 1]
                                      IN  IF Last(t) = Null THEN t ELSE Append(t, link[Last(t)])
    <3> SUFFICES ASSUME NEW n \in 0 .. C
                 PROVE  g[n] = IF n = 0 THEN << head >>
                               ELSE IF Last(g[n - 1]) = Null THEN g[n - 1]
                               ELSE Append(g[n - 1], link[Last(g[n - 1])])
      OBVIOUS
    <3>1. CASE n = 0
      BY <1>6, <3>1
    <3>2. CASE n # 0
      <4>1. n \in 1 .. C
        BY <1>3, <3>2
      <4>2. g[n] = Cut(n) /\ g[n - 1] = Cut(n - 1)
        BY <2>1, <4>1
      <4> HIDE DEF g
      <4> QED BY <1>7, <3>2, <4>1, <4>2, Zenon
    <3> QED BY <3>1, <3>2
  <2>3. g = [n \in 0 .. C |-> g[n]]
    OBVIOUS
  <2> HIDE DEF g
  <2> QED BY <2>2, <2>3, Zenon
<1>9. Up(h)
  <2> HIDE DEF Up, g
  <2> QED BY <1>8, Zenon
<1>10. Chain(link, head) = h[C]
  BY DEF Chain, C
<1>11. \A n \in 0 .. C : h[n] = IF n = 0 THEN << head >>
                                ELSE IF Last(h[n - 1]) = Null THEN h[n - 1]
                                ELSE Append(h[n - 1], link[Last(h[n - 1])])
  <2> HIDE DEF h
  <2> QED BY <1>9, Zenon
<1> HIDE DEF h, g
<1> DEFINE P == {n \in Nat : n \in 0 .. C => h[n] = Cut(n)}
<1>12. 0 \in P
  BY <1>3, <1>6, <1>11
<1>13. ASSUME NEW n \in Nat, n \in P PROVE n + 1 \in P
  <2> SUFFICES ASSUME n + 1 \in 0 .. C PROVE h[n + 1] = Cut(n + 1)
    OBVIOUS
  <2>1. n \in 0 .. C /\ n + 1 \in 1 .. C /\ (n + 1) - 1 = n /\ n + 1 # 0
    BY <1>3
  <2>2. h[n] = Cut(n)
    BY <1>13, <2>1
  <2>3. h[n + 1] = IF Last(h[n]) = Null THEN h[n] ELSE Append(h[n], link[Last(h[n])])
    BY <1>11, <2>1
  <2>4. Cut(n + 1) = IF Last(Cut(n)) = Null THEN Cut(n) ELSE Append(Cut(n), link[Last(Cut(n))])
    BY <1>7, <2>1
  <2> QED BY <2>2, <2>3, <2>4, Zenon
<1>14. h[C] = Cut(C)
  <2>1. C \in P
    <3> HIDE DEF P
    <3> QED BY <1>3, <1>12, <1>13, CountedUp
  <2> QED BY <1>3, <2>1
<1>15. Cut(C) = c
  <2>1. Cut(C) = SubSeq(c, 1, L + 1)
    BY <1>3 DEF Cut
  <2> QED BY <1>4, <2>1
<1>16. Front(c) = s
  <2>1. Front(c) = SubSeq(c, 1, L)
    BY <1>4 DEF Front
  <2>2. SubSeq(c, 1, L) \in Seq(M) /\ Len(SubSeq(c, 1, L)) = L
        /\ \A i \in 1 .. L : SubSeq(c, 1, L)[i] = c[i]
    BY <1>4, SubSeqProperties
  <2>3. s \in Seq(M)
    BY <1>2 DEF M
  <2> QED BY <1>1, <1>4, <2>1, <2>2, <2>3, SeqEqual
<1> QED BY <1>10, <1>14, <1>15, <1>16 DEF c, Nodes

\* What the operations on a list do to its nodes.
Pushed(s, p) == << p >> \o s
Pops(s, p, t) == s # << >> /\ p = Head(s) /\ t = Tail(s)
Relinked(link, next2, S, q, p) ==
    link[q] = p /\ next2[q] = link[p] /\ \A x \in S \ {q} : next2[x] = link[x]
Without(s, N, p) == Chosen(s, N \ {p})

\* Linked nodes are the list.
LEMMA LinkedListed ==
    ASSUME NEW N, NEW link, NEW head, NEW s, Links(N, link), Linked(N, link, head, s)
    PROVE  Nodes(link, head) = s /\ Listed(N, link, head, ToSet(s))
BY LinkedChain DEF Listed

\* What a list consists of.
LEMMA ListedNodes ==
    ASSUME NEW N, NEW link, NEW head, NEW S, Links(N, link), Listed(N, link, head, S)
    PROVE  /\ Nodes(link, head) \in Seq(N) /\ IsInjective(Nodes(link, head))
           /\ ToSet(Nodes(link, head)) = S /\ S \subseteq N
           /\ IsFiniteSet(S) /\ Cardinality(S) = Len(Nodes(link, head))
           /\ (head = Null <=> S = {}) /\ (head # Null => head \in S)
           /\ \A x \in S : link[x] \in S \cup {Null}
<1> DEFINE s == Nodes(link, head)
<1>1. /\ s \in Seq(N) /\ IsInjective(s) /\ ToSet(s) = S
      /\ head = At(s, 1) /\ \A i \in 1 .. Len(s) : link[s[i]] = At(s, i + 1)
  BY DEF Listed, Linked
<1> HIDE DEF s
<1>2. S \subseteq N /\ IsFiniteSet(S) /\ Cardinality(S) = Len(s)
  BY <1>1, InjectiveLength, QueueElements
<1>3. Len(s) \in Nat /\ \A i \in 1 .. Len(s) : s[i] \in S
  BY <1>1 DEF ToSet
<1>4. \A i \in 1 .. Len(s) + 1 : At(s, i) \in S \cup {Null}
  BY <1>3 DEF At
<1>5. (head = Null <=> S = {}) /\ (head # Null => head \in S)
  <2>1. CASE Len(s) = 0
    BY <1>1, <1>3, <2>1 DEF At, ToSet
  <2>2. CASE Len(s) # 0
    <3>1. 1 \in 1 .. Len(s) /\ head = s[1] /\ s[1] \in S
      BY <1>1, <1>3, <2>2 DEF At
    <3> QED BY <1>2, <3>1 DEF Links
  <2> QED BY <2>1, <2>2
<1>6. \A x \in S : link[x] \in S \cup {Null}
  <2> SUFFICES ASSUME NEW x \in S PROVE link[x] \in S \cup {Null}
    OBVIOUS
  <2>1. PICK i \in 1 .. Len(s) : x = s[i]
    BY <1>1, <1>3 DEF ToSet
  <2> QED BY <1>1, <1>3, <1>4, <2>1
<1> QED BY <1>1, <1>2, <1>5, <1>6 DEF s

\* The list without nodes.
LEMMA ListedNone ==
    ASSUME NEW N, NEW link, Links(N, link)
    PROVE  Listed(N, link, Null, {}) /\ Nodes(link, Null) = << >>
<1>1. Linked(N, link, Null, << >>)
  BY EmptyQueue DEF Linked, At
<1> QED BY <1>1, LinkedListed, EmptyQueue

\* Other nodes change.
LEMMA ListedFrame ==
    ASSUME NEW N, NEW link, NEW next2, NEW head, NEW S,
           Listed(N, link, head, S), Links(N, next2), \A x \in S : next2[x] = link[x]
    PROVE  Listed(N, next2, head, S) /\ Nodes(next2, head) = Nodes(link, head)
<1> DEFINE s == Nodes(link, head)
<1>1. Linked(N, link, head, s) /\ ToSet(s) = S
  BY DEF Listed
<1> HIDE DEF s
<1>2. \A i \in 1 .. Len(s) : s[i] \in S
  BY <1>1 DEF Linked, ToSet
<1>3. Linked(N, next2, head, s)
  BY <1>1, <1>2 DEF Linked
<1> QED BY <1>1, <1>3, LinkedListed DEF s

\* A node becomes the first.
LEMMA ListedPush ==
    ASSUME NEW N, NEW link, NEW next2, NEW head, NEW S, NEW p \in N \ S,
           Listed(N, link, head, S), Links(N, next2), next2[p] = head,
           \A x \in S : next2[x] = link[x]
    PROVE  /\ Listed(N, next2, p, S \cup {p})
           /\ Nodes(next2, p) = Pushed(Nodes(link, head), p)
<1> DEFINE s == Nodes(link, head)
           t == << p >> \o s
<1>1. Linked(N, link, head, s) /\ ToSet(s) = S
  BY DEF Listed
<1> HIDE DEF s
<1>2. Len(s) \in Nat /\ s \in Seq(N) /\ \A i \in 1 .. Len(s) : s[i] \in S
  BY <1>1 DEF Linked, ToSet
<1>3. /\ t \in Seq(N) /\ Len(t) = Len(s) + 1 /\ t[1] = p
      /\ \A i \in 1 .. Len(s) : t[i + 1] = s[i]
  <2>1. << p >> \in Seq(N) /\ Len(<< p >>) = 1 /\ << p >>[1] = p
    OBVIOUS
  <2> QED BY <1>2, <2>1, ConcatProperties
<1> HIDE DEF t
<1>4. \A i \in 1 .. Len(t) : i = 1 \/ (i - 1 \in 1 .. Len(s) /\ t[i] = s[i - 1])
  <2> SUFFICES ASSUME NEW i \in 1 .. Len(t), i # 1 PROVE i - 1 \in 1 .. Len(s) /\ t[i] = s[i - 1]
    OBVIOUS
  <2>1. i - 1 \in 1 .. Len(s) /\ (i - 1) + 1 = i
    BY <1>2, <1>3
  <2>2. t[(i - 1) + 1] = s[i - 1]
    BY <1>3, <2>1
  <2> QED BY <2>1, <2>2
<1>5. IsInjective(t) /\ ToSet(t) = S \cup {p}
  <2>1. DOMAIN t = 1 .. Len(t) /\ DOMAIN s = 1 .. Len(s)
    BY <1>2, <1>3
  <2>2. \A i, j \in 1 .. Len(s) : s[i] = s[j] => i = j
    BY <1>1, <2>1 DEF Linked, IsInjective
  <2>3. \A i, j \in 1 .. Len(t) : t[i] = t[j] => i = j
    <3> SUFFICES ASSUME NEW i \in 1 .. Len(t), NEW j \in 1 .. Len(t), t[i] = t[j] PROVE i = j
      OBVIOUS
    <3>1. CASE i = 1 /\ j = 1
      BY <3>1
    <3>2. CASE i = 1 /\ j # 1
      BY <1>2, <1>3, <1>4, <3>2
    <3>3. CASE i # 1 /\ j = 1
      BY <1>2, <1>3, <1>4, <3>3
    <3>4. CASE i # 1 /\ j # 1
      <4>1. i - 1 = j - 1
        BY <1>4, <2>2, <3>4
      <4> QED BY <1>2, <1>3, <4>1
    <3> QED BY <3>1, <3>2, <3>3, <3>4
  <2>4. ToSet(t) \subseteq S \cup {p}
    BY <1>2, <1>3, <1>4, <2>1 DEF ToSet
  <2>5. S \subseteq ToSet(t)
    <3> SUFFICES ASSUME NEW x \in S PROVE x \in ToSet(t)
      OBVIOUS
    <3>1. PICK i \in 1 .. Len(s) : x = s[i]
      BY <1>1, <2>1 DEF ToSet
    <3>2. i + 1 \in 1 .. Len(t) /\ t[i + 1] = x
      BY <1>2, <1>3, <3>1
    <3> QED BY <2>1, <3>2 DEF ToSet
  <2>6. p \in ToSet(t)
    <3>1. 1 \in 1 .. Len(t)
      BY <1>2, <1>3
    <3> QED BY <1>3, <2>1, <3>1 DEF ToSet
  <2> QED BY <2>1, <2>3, <2>4, <2>5, <2>6 DEF IsInjective
<1>6. \A i \in 1 .. Len(s) + 1 : At(t, i + 1) = At(s, i)
  <2> SUFFICES ASSUME NEW i \in 1 .. Len(s) + 1 PROVE At(t, i + 1) = At(s, i)
    OBVIOUS
  <2>1. CASE i <= Len(s)
    BY <1>2, <1>3, <2>1 DEF At
  <2>2. CASE i = Len(s) + 1
    BY <1>2, <1>3, <2>2 DEF At
  <2> QED BY <1>2, <2>1, <2>2
<1>7. Linked(N, next2, p, t)
  <2>1. p = At(t, 1)
    BY <1>2, <1>3 DEF At
  <2>2. ASSUME NEW i \in 1 .. Len(t) PROVE next2[t[i]] = At(t, i + 1)
    <3>1. CASE i = 1
      <4>1. At(t, 2) = At(s, 1)
        BY <1>2, <1>6
      <4> QED BY <1>1, <1>3, <3>1, <4>1 DEF Linked
    <3>2. CASE i # 1
      <4>1. i - 1 \in 1 .. Len(s) /\ t[i] = s[i - 1] /\ s[i - 1] \in S
        BY <1>2, <1>4, <3>2
      <4>2. next2[t[i]] = At(s, (i - 1) + 1) /\ (i - 1) + 1 = i
        BY <1>1, <4>1 DEF Linked
      <4>3. i \in 1 .. Len(s) + 1
        BY <1>2, <1>3
      <4> QED BY <1>6, <4>2, <4>3
    <3> QED BY <3>1, <3>2
  <2> QED BY <1>3, <1>5, <2>1, <2>2 DEF Linked
<1>8. Nodes(next2, p) = t /\ Listed(N, next2, p, ToSet(t))
  BY <1>7, LinkedListed
<1> QED BY <1>5, <1>8 DEF t, s, Pushed

\* The first node is taken off.
LEMMA ListedPop ==
    ASSUME NEW N, NEW link, NEW head, NEW S, Links(N, link), Listed(N, link, head, S),
           head # Null
    PROVE  /\ Listed(N, link, link[head], S \ {head})
           /\ Pops(Nodes(link, head), head, Nodes(link, link[head]))
<1> DEFINE s == Nodes(link, head)
           t == Tail(s)
<1>1. Linked(N, link, head, s) /\ ToSet(s) = S
  BY DEF Listed
<1> HIDE DEF s
<1>2. Len(s) \in Nat /\ s \in Seq(N)
  BY <1>1 DEF Linked
<1>3. Len(s) >= 1 /\ s # << >> /\ Head(s) = head /\ s[1] = head
  BY <1>1, <1>2 DEF Linked, At
<1>4. /\ t \in Seq(N) /\ Len(t) = Len(s) - 1 /\ Len(t) \in Nat
      /\ \A i \in 1 .. Len(s) - 1 : t[i] = s[i + 1]
  BY <1>2, <1>3
<1>5. IsInjective(t) /\ ToSet(t) = S \ {head}
  <2>1. IsInjective(s)
    BY <1>1 DEF Linked
  <2> QED BY <1>1, <1>2, <1>3, <2>1, PopElements, PopOnce
<1> HIDE DEF t
<1>6. \A i \in 1 .. Len(s) : At(t, i) = At(s, i + 1)
  BY <1>2, <1>3, <1>4 DEF At
<1>7. Linked(N, link, link[head], t)
  <2>1. link[head] = At(t, 1)
    <3>1. 1 \in 1 .. Len(s)
      BY <1>2, <1>3
    <3> QED BY <1>1, <1>3, <1>6, <3>1 DEF Linked
  <2>2. ASSUME NEW i \in 1 .. Len(t) PROVE link[t[i]] = At(t, i + 1)
    <3>1. i + 1 \in 1 .. Len(s) /\ t[i] = s[i + 1]
      BY <1>2, <1>4
    <3> QED BY <1>1, <1>6, <3>1 DEF Linked
  <2> QED BY <1>4, <1>5, <2>1, <2>2 DEF Linked
<1>8. Nodes(link, link[head]) = t /\ Listed(N, link, link[head], ToSet(t))
  BY <1>7, LinkedListed
<1> QED BY <1>3, <1>5, <1>8 DEF t, s, Pops

\* The node before another.
LEMMA ListedBefore ==
    ASSUME NEW N, NEW link, NEW head, NEW S, Links(N, link), Listed(N, link, head, S),
           NEW p \in S
    PROVE  /\ head # p => \E q \in S : link[q] = p
           /\ \A q, r \in S : link[q] = p /\ link[r] = p => q = r
           /\ \A q \in S : link[q] = p => head # p /\ q # p
<1> DEFINE s == Nodes(link, head)
<1>1. Linked(N, link, head, s) /\ ToSet(s) = S
  BY DEF Listed
<1> HIDE DEF s
<1>2. Len(s) \in Nat /\ s \in Seq(N) /\ DOMAIN s = 1 .. Len(s)
  BY <1>1 DEF Linked
<1>3. PICK i \in 1 .. Len(s) : p = s[i]
  BY <1>1, <1>2 DEF ToSet
<1>4. p # Null /\ \A j \in 1 .. Len(s) : s[j] # Null
  BY <1>2, <1>3 DEF Links
<1>5. ASSUME NEW q \in S, link[q] = p
      PROVE  i - 1 \in 1 .. Len(s) /\ q = s[i - 1]
  <2>1. PICK j \in 1 .. Len(s) : q = s[j]
    BY <1>1, <1>2 DEF ToSet
  <2>2. p = At(s, j + 1)
    BY <1>1, <1>5, <2>1 DEF Linked
  <2>3. j + 1 \in 1 .. Len(s) /\ s[j + 1] = s[i]
    BY <1>2, <1>3, <1>4, <2>2 DEF At
  <2>4. j + 1 = i
    BY <1>1, <1>2, <2>3 DEF Linked, IsInjective
  <2> QED BY <1>2, <2>1, <2>4
<1>6. ASSUME head # p PROVE \E q \in S : link[q] = p
  <2>1. i # 1
    BY <1>1, <1>2, <1>3, <1>6 DEF Linked, At
  <2>2. i - 1 \in 1 .. Len(s) /\ (i - 1) + 1 = i
    BY <1>2, <2>1
  <2>3. s[i - 1] \in S
    BY <1>1, <1>2, <2>2 DEF ToSet
  <2>4. link[s[i - 1]] = p
    BY <1>1, <1>2, <1>3, <2>2 DEF Linked, At
  <2> QED BY <2>3, <2>4
<1>7. ASSUME NEW q \in S, link[q] = p PROVE head # p /\ q # p
  <2>1. i - 1 \in 1 .. Len(s) /\ q = s[i - 1]
    BY <1>5, <1>7
  <2>2. q # p
    BY <1>1, <1>2, <1>3, <2>1 DEF Linked, IsInjective
  <2>3. 1 \in 1 .. Len(s) /\ head = s[1]
    BY <1>1, <1>2, <2>1 DEF Linked, At
  <2>4. head # p
    BY <1>1, <1>2, <1>3, <2>1, <2>3 DEF Linked, IsInjective
  <2> QED BY <2>2, <2>4
<1> QED BY <1>5, <1>6, <1>7

\* A node that is not the first is taken out.
LEMMA ListedUnlink ==
    ASSUME NEW N, NEW link, NEW next2, NEW head, NEW S, NEW p \in S, NEW q \in S,
           Links(N, link), Listed(N, link, head, S), Links(N, next2),
           Relinked(link, next2, S, q, p)
    PROVE  /\ Listed(N, next2, head, S \ {p})
           /\ Nodes(next2, head) = Without(Nodes(link, head), N, p)
<1> DEFINE s == Nodes(link, head)
           t == Chosen(s, N \ {p})
<1>0. link[q] = p /\ next2[q] = link[p] /\ \A x \in S \ {q} : next2[x] = link[x]
  BY DEF Relinked
<1>1. Linked(N, link, head, s) /\ ToSet(s) = S
  BY DEF Listed
<1> HIDE DEF s
<1>2. Len(s) \in Nat /\ s \in Seq(N) /\ DOMAIN s = 1 .. Len(s) /\ IsInjective(s)
  BY <1>1 DEF Linked
<1>3. PICK n \in 1 .. Len(s) : p = s[n]
  BY <1>1, <1>2 DEF ToSet
<1>4. /\ \A i, j \in 1 .. Len(s) : s[i] = s[j] => i = j
      /\ \A j \in 1 .. Len(s) : s[j] # Null /\ s[j] \in S
  BY <1>1, <1>2 DEF Links, IsInjective, ToSet
<1>5. n - 1 \in 1 .. Len(s) /\ q = s[n - 1]
  <2>1. PICK j \in 1 .. Len(s) : q = s[j]
    BY <1>1, <1>2 DEF ToSet
  <2>2. p = At(s, j + 1)
    BY <1>0, <1>1, <2>1 DEF Linked
  <2>3. j + 1 \in 1 .. Len(s) /\ s[j + 1] = s[n]
    <3>1. p # Null
      BY <1>3, <1>4
    <3>2. j + 1 <= Len(s)
      BY <2>2, <3>1 DEF At
    <3>3. At(s, j + 1) = s[j + 1]
      BY <3>2 DEF At
    <3> QED BY <1>2, <1>3, <2>2, <3>2, <3>3
  <2>4. j + 1 = n
    BY <1>4, <2>3
  <2> QED BY <1>2, <2>1, <2>4
<1>6. /\ Len(t) = Len(s) - 1
      /\ \A j \in 1 .. Len(s) - 1 : t[j] = IF j < n THEN s[j] ELSE s[j + 1]
  <2>1. ASSUME NEW m \in 1 .. Len(s)
        PROVE  /\ Len(Chosen(s, N \ {s[m]})) = Len(s) - 1
               /\ \A j \in 1 .. Len(s) - 1 :
                    Chosen(s, N \ {s[m]})[j] = IF j < m THEN s[j] ELSE s[j + 1]
    BY <1>2, ChosenWithout
  <2> QED BY <1>3, <2>1, Zenon
<1>7. t \in Seq(N) /\ ToSet(t) = S \ {p}
  <2>1. t \in Seq(N) /\ ToSet(t) = ToSet(s) \cap (N \ {p})
    BY <1>2, ChosenElements
  <2>2. S \subseteq N
    BY <1>1, <1>2, QueueElements
  <2> QED BY <1>1, <2>1, <2>2
<1> HIDE DEF t
<1>8. IsInjective(t)
  <2>1. DOMAIN t = 1 .. Len(s) - 1
    BY <1>2, <1>6, <1>7
  <2>2. ASSUME NEW i \in 1 .. Len(s) - 1, NEW j \in 1 .. Len(s) - 1, t[i] = t[j] PROVE i = j
    <3> DEFINE a == IF i < n THEN i ELSE i + 1
               b == IF j < n THEN j ELSE j + 1
    <3>1. a \in 1 .. Len(s) /\ b \in 1 .. Len(s) /\ t[i] = s[a] /\ t[j] = s[b]
      BY <1>2, <1>6
    <3>2. a = b
      <4> HIDE DEF a, b
      <4> QED BY <1>4, <2>2, <3>1
    <3> QED BY <1>2, <3>2
  <2> QED BY <2>1, <2>2 DEF IsInjective
<1>9. \A i \in 1 .. Len(s) : At(t, i) = IF i < n THEN s[i] ELSE At(s, i + 1)
  BY <1>2, <1>3, <1>6 DEF At
<1>10. \A i \in 1 .. Len(s) : link[s[i]] = At(s, i + 1)
  BY <1>1 DEF Linked
<1>11. Linked(N, next2, head, t)
  <2>1. head = At(t, 1)
    BY <1>1, <1>2, <1>3, <1>5, <1>9 DEF Linked, At
  <2>2. ASSUME NEW i \in 1 .. Len(t) PROVE next2[t[i]] = At(t, i + 1)
    <3>1. i \in 1 .. Len(s) /\ i + 1 \in 1 .. Len(s) /\ i \in 1 .. Len(s) - 1
      BY <1>2, <1>6
    <3>2. CASE i < n /\ i # n - 1
      <4>1. t[i] = s[i] /\ s[i] # q /\ s[i] \in S
        BY <1>4, <1>5, <1>6, <3>1, <3>2
      <4>2. next2[t[i]] = At(s, i + 1)
        BY <1>0, <1>10, <3>1, <4>1
      <4>3. i + 1 < n /\ At(s, i + 1) = s[i + 1]
        BY <1>2, <1>3, <3>1, <3>2 DEF At
      <4> QED BY <1>9, <3>1, <4>2, <4>3
    <3>3. CASE i = n - 1
      <4>1. t[i] = q /\ next2[t[i]] = link[p]
        BY <1>0, <1>5, <1>6, <3>1, <3>3
      <4>2. link[p] = At(s, n + 1)
        BY <1>3, <1>10
      <4>3. i + 1 = n /\ At(t, i + 1) = At(s, n + 1)
        BY <1>9, <3>1, <3>3
      <4> QED BY <4>1, <4>2, <4>3
    <3>4. CASE ~(i < n)
      <4>1. t[i] = s[i + 1]
        BY <1>6, <3>1, <3>4
      <4>2. s[i + 1] # q /\ s[i + 1] \in S
        BY <1>2, <1>4, <1>5, <3>1, <3>4
      <4>3. next2[t[i]] = At(s, i + 1 + 1)
        BY <1>0, <1>10, <3>1, <4>1, <4>2
      <4>4. At(t, i + 1) = At(s, i + 1 + 1)
        BY <1>2, <1>3, <1>9, <3>1, <3>4
      <4> QED BY <4>3, <4>4
    <3> QED BY <1>2, <1>3, <3>2, <3>3, <3>4
  <2> QED BY <1>7, <1>8, <2>1, <2>2 DEF Linked
<1>12. Nodes(next2, head) = t /\ Listed(N, next2, head, ToSet(t))
  BY <1>11, LinkedListed
<1> QED BY <1>7, <1>12 DEF t, s, Without

\* The chain of a list: its nodes and NULL.
LEMMA ListedChain ==
    ASSUME NEW N, NEW link, NEW head, NEW S, Links(N, link), Listed(N, link, head, S)
    PROVE  /\ Ends(Chain(link, head)) /\ IsInjective(Chain(link, head))
           /\ ToSet(Chain(link, head)) = S \cup {Null}
           /\ Len(Chain(link, head)) = Len(Nodes(link, head)) + 1
           /\ \A i \in 1 .. Len(Nodes(link, head)) : Chain(link, head)[i] = Nodes(link, head)[i]
           /\ Chain(link, head)[Len(Nodes(link, head)) + 1] = Null
<1> DEFINE s == Nodes(link, head)
           c == Chain(link, head)
           M == N \cup {Null}
<1>1. s \in Seq(N) /\ IsInjective(s) /\ ToSet(s) = S /\ Null \notin S
  BY ListedNodes DEF Links
<1>2. c = Append(s, Null)
  BY DEF Listed
<1> HIDE DEF s, c
<1>3. s \in Seq(M) /\ Null \in M
  BY <1>1
<1>4. c \in Seq(M) /\ Len(c) = Len(s) + 1 /\ ToSet(c) = S \cup {Null}
  BY <1>1, <1>2, <1>3, AppendElements
<1>5. IsInjective(c)
  BY <1>1, <1>2, <1>3, AppendNew
<1> HIDE DEF M
<1>6. Len(s) \in Nat /\ c[Len(s) + 1] = Null /\ \A i \in 1 .. Len(s) : c[i] = s[i]
  BY <1>2, <1>3
<1>7. Ends(c)
  BY <1>4, <1>6 DEF Ends, Last
<1> QED BY <1>4, <1>5, <1>6, <1>7 DEF s, c

\* hashtable_remove finds the node before the one it takes out.
LEMMA BeforeListed ==
    ASSUME NEW N, NEW link, NEW head, NEW S, Links(N, link), Listed(N, link, head, S),
           NEW p \in S
    PROVE  /\ head = p => Table!Before(Chain(link, head), p) = Null
           /\ head # p => /\ Table!Before(Chain(link, head), p) \in S
                          /\ link[Table!Before(Chain(link, head), p)] = p
<1> DEFINE s == Nodes(link, head)
           c == Chain(link, head)
<1>1. /\ Linked(N, link, head, s) /\ ToSet(s) = S
      /\ Len(c) = Len(s) + 1 /\ \A i \in 1 .. Len(s) : c[i] = s[i]
      /\ c[Len(s) + 1] = Null
  BY ListedChain DEF Listed
<1> HIDE DEF s, c
<1>2. Len(s) \in Nat /\ s \in Seq(N) /\ DOMAIN s = 1 .. Len(s) /\ IsInjective(s)
  BY <1>1 DEF Linked
<1>3. PICK n \in 1 .. Len(s) : p = s[n]
  BY <1>1, <1>2 DEF ToSet
<1>4. /\ \A i, j \in 1 .. Len(s) : s[i] = s[j] => i = j
      /\ \A j \in 1 .. Len(s) : s[j] # Null /\ s[j] \in S
  BY <1>1, <1>2 DEF Links, IsInjective, ToSet
<1>5. n \in 1 .. Len(c) /\ c[n] = p
  BY <1>1, <1>2, <1>3
<1>6. \A j \in 1 .. Len(c) : c[j] = p => j = n
  <2> SUFFICES ASSUME NEW j \in 1 .. Len(c), c[j] = p PROVE j = n
    OBVIOUS
  <2>1. p # Null
    BY <1>3, <1>4
  <2>2. j \in 1 .. Len(s)
    BY <1>1, <1>2, <2>1
  <2> QED BY <1>1, <1>3, <1>4, <2>2
<1>7. (CHOOSE j \in 1 .. Len(c) : c[j] = p) = n
  BY <1>5, <1>6
<1>8. Table!Before(c, p) = IF n = 1 THEN Null ELSE c[n - 1]
  <2> DEFINE m == CHOOSE j \in 1 .. Len(c) : c[j] = p
  <2>1. Table!Before(c, p) = IF m = 1 THEN Null ELSE c[m - 1]
    BY DEF Table!Before
  <2> QED BY <1>7, <2>1
<1>9. 1 \in 1 .. Len(s) /\ head = s[1]
  BY <1>1, <1>2, <1>3 DEF Linked, At
<1>10. head = p <=> n = 1
  BY <1>3, <1>4, <1>9
<1>11. ASSUME n # 1 PROVE c[n - 1] \in S /\ link[c[n - 1]] = p
  <2>1. n - 1 \in 1 .. Len(s) /\ (n - 1) + 1 = n /\ c[n - 1] = s[n - 1]
    BY <1>1, <1>2, <1>11
  <2>2. link[s[n - 1]] = At(s, n)
    BY <1>1, <2>1 DEF Linked
  <2> QED BY <1>3, <1>4, <2>1, <2>2 DEF At
<1> QED BY <1>8, <1>10, <1>11 DEF c

\* hashtable_get finds the first node with the key.
LEMMA FirstListed ==
    ASSUME NEW N, NEW link, NEW head, NEW S, Links(N, link), Listed(N, link, head, S),
           NEW keys, NEW k, NEW K, \A x \in S : keys[x] = k <=> x \in K
    PROVE  Table!FirstOf(Chain(link, head), keys, k)
             = IF Chosen(Nodes(link, head), K) = << >> THEN Null
               ELSE Head(Chosen(Nodes(link, head), K))
<1> DEFINE s == Nodes(link, head)
           c == Chain(link, head)
           hits == {i \in 1 .. Len(c) - 1 : keys[c[i]] = k}
<1>1. /\ s \in Seq(N) /\ ToSet(s) = S
      /\ Len(c) = Len(s) + 1 /\ \A i \in 1 .. Len(s) : c[i] = s[i]
  BY ListedChain, ListedNodes
<1> HIDE DEF s, c
<1>2. Len(s) \in Nat /\ \A i \in 1 .. Len(s) : s[i] \in S
  BY <1>1 DEF ToSet
<1>3. hits = {i \in 1 .. Len(s) : s[i] \in K}
  BY <1>1, <1>2
<1>4. Table!FirstOf(c, keys, k)
        = IF hits = {} THEN Null ELSE c[CHOOSE i \in hits : \A j \in hits : i <= j]
  BY Zenon DEF Table!FirstOf
<1> HIDE DEF hits
<1>5. CASE hits = {}
  <2>1. ToSet(s) \cap K = {}
    BY <1>1, <1>3, <1>5 DEF ToSet
  <2>2. Chosen(s, K) = << >>
    BY <1>1, <2>1, ChosenElements, QueueElements
  <2> QED BY <1>4, <1>5, <2>2 DEF s, c
<1>6. CASE hits # {}
  <2>1. hits \in SUBSET Nat
    BY <1>3
  <2>2. \E i \in hits : \A j \in hits : i <= j
    BY <1>6, <2>1, LeastNatural
  <2>3. PICK m \in hits : /\ \A j \in hits : m <= j
                          /\ (CHOOSE i \in hits : \A j \in hits : i <= j) = m
    BY <2>2, Zenon
  <2>4. m \in 1 .. Len(s) /\ s[m] \in K /\ \A j \in 1 .. m - 1 : s[j] \notin K
    <3>1. m \in 1 .. Len(s) /\ s[m] \in K
      BY <1>3, <2>3
    <3>2. ASSUME NEW j \in 1 .. m - 1, s[j] \in K PROVE FALSE
      <4>1. j \in hits
        BY <1>2, <1>3, <3>1, <3>2
      <4> QED BY <2>3, <3>1, <3>2, <4>1
    <3> QED BY <3>1, <3>2
  <2>5. Chosen(s, K) # << >> /\ Head(Chosen(s, K)) = s[m]
    BY <1>1, <2>4, ChosenFirst
  <2>6. c[m] = s[m]
    BY <1>1, <2>4
  <2> QED BY <1>4, <1>6, <2>3, <2>5, <2>6 DEF s, c
<1> QED BY <1>5, <1>6

\* The first of the chosen is taken off.
LEMMA ChosenTail ==
    ASSUME NEW T, NEW s \in Seq(T), NEW K, IsInjective(s), Chosen(s, K) # << >>,
           NEW o, o = Head(Chosen(s, K))
    PROVE  Chosen(Chosen(s, T \ {o}), K) = Tail(Chosen(s, K))
<1> DEFINE c == Chosen(s, K)
           R == {x \in T \X T : x[1] # x[2]}
<1>1. c \in Seq(T) /\ ToSet(c) \subseteq K
  BY ChosenElements
<1>2. \A i, j \in 1 .. Len(c) : i < j => << c[i], c[j] >> \in R
  <2>1. \A i, j \in 1 .. Len(s) : i < j => << s[i], s[j] >> \in R
    BY DEF IsInjective
  <2> HIDE DEF R
  <2> QED BY <2>1, ChosenPairs
<1>3. PICK h, t : h = Head(c) /\ t = Tail(c)
  OBVIOUS
<1> HIDE DEF c
<1>4. /\ h \in T /\ h \in ToSet(c) /\ t \in Seq(T) /\ c = << h >> \o t
      /\ Len(t) = Len(c) - 1 /\ \A i \in 1 .. Len(t) : t[i] = c[i + 1]
  BY <1>1, <1>3, PopElements DEF c
<1>5. ToSet(t) \subseteq T \ {h}
  <2> SUFFICES ASSUME NEW i \in 1 .. Len(t) PROVE t[i] \in T /\ t[i] # h
    BY <1>4 DEF ToSet
  <2>1. 1 \in 1 .. Len(c) /\ i + 1 \in 1 .. Len(c) /\ c[1] = h /\ 1 < i + 1
    BY <1>1, <1>3, <1>4 DEF c
  <2>2. << c[1], c[i + 1] >> \in R
    BY <1>2, <2>1
  <2> QED BY <1>4, <2>1, <2>2
<1>6. Chosen(t, T \ {h}) = t
  BY <1>4, <1>5, ChosenAll
<1>7. Chosen(c, T \ {h}) = t
  <2>1. Chosen(<< h >> \o t, T \ {h})
          = IF h \in T \ {h} THEN << h >> \o Chosen(t, T \ {h}) ELSE Chosen(t, T \ {h})
    BY <1>4, ChosenPush
  <2> QED BY <1>4, <1>6, <2>1
<1>8. Chosen(Chosen(s, T \ {h}), K) = Chosen(s, (T \ {h}) \cap K)
  BY ChosenTwice
<1>9. Chosen(Chosen(s, K), T \ {h}) = Chosen(s, K \cap (T \ {h}))
  BY ChosenTwice
<1>10. K \cap (T \ {h}) = (T \ {h}) \cap K
  OBVIOUS
<1> QED BY <1>3, <1>7, <1>8, <1>9, <1>10 DEF c

-----------------------------------------------------------------------------
(* Slab and Objects: the invariant. *)

\* TypeOK without the bound on the additions, which is the model's alone.
Types ==
    /\ SlabTypeOK
    /\ heads \in [Cache -> [Table!Bucket -> Obj \cup {Null}]]
    /\ place \in [Obj -> {"free", "private", "table"}]
    /\ key \in [Obj -> Key \cup {Null}]

\* The objects of a page, the slabs of a cache that should be in each of its lists,
\* the free objects of a slab and the objects of a bucket.
ObjectsOf(p) == {o \in Obj : o[1] = p}

FullOf(c) == {p \in Page \ pages : slab[p].cache = c /\ slab[p].freeCount = 0}
PartialOf(c) == {p \in Page \ pages : slab[p].cache = c /\ slab[p].freeCount > 0}
FreeOf(p) == {o \in ObjectsOf(p) : place[o] = "free"}
Tabled(c, b) == {o \in Obj : /\ place[o] = "table"
                             /\ slab[o[1]].cache = c
                             /\ Table!IndexOf(key[o]) = b}

\* The lists of slabs of every cache, the free list of every slab and the buckets
\* of every table hold what they should, each once.
ListsInv ==
    \A c \in Cache :
      /\ Listed(Page, SlabLink, full[c], FullOf(c))
      /\ Listed(Page, SlabLink, partial[c], PartialOf(c))

SlabInv(p) ==
    /\ slab[p].cache \in Cache
    /\ returns => slab[p].freeCount < PerSlab
    /\ Listed(Obj, word, slab[p].freeList, FreeOf(p))
    /\ slab[p].freeCount = Cardinality(FreeOf(p))

BucketsInv ==
    \A c \in Cache, b \in Table!Bucket : Listed(Obj, word, heads[c][b], Tabled(c, b))

\* Objects in use lie in slabs, and those in a table have a key.
PlacesInv ==
    \A o \in Obj : /\ place[o] # "free" => o[1] \notin pages
                   /\ place[o] = "table" => key[o] \in Key

\* The inductive invariant.
IInv ==
    /\ Types
    /\ ListsInv
    /\ \A p \in Page \ pages : SlabInv(p)
    /\ BucketsInv
    /\ PlacesInv

\* What the assumptions say of objects and NULL.
LEMMA ObjFacts ==
    /\ IsFiniteSet(Obj) /\ Null \notin Obj /\ Null \notin Page /\ Null \notin Cache
    /\ PerSlab \in Nat \ {0}
    /\ \A o \in Obj : o[1] \in Page /\ o[2] \in 1 .. PerSlab /\ o = << o[1], o[2] >>
    /\ \A p \in Page, i \in 1 .. PerSlab : << p, i >> \in Obj
<1>1. PerSlab \in Nat \ {0} /\ IsFiniteSet(Page) /\ Null \notin Page \cup Cache \cup Obj
  BY SlabAssumption DEF Obj
<1>2. IsFiniteSet(1 .. PerSlab)
  BY <1>1, FS_Interval
<1>3. IsFiniteSet(Obj)
  BY <1>1, <1>2, FS_Product DEF Obj
<1> QED BY <1>1, <1>3 DEF Obj

\* Every key has a bucket.
LEMMA IndexInRange ==
    ASSUME NEW k \in Key
    PROVE  Table!IndexOf(k) \in Table!Bucket
BY TableAssumption DEF Table!IndexOf, Table!Bucket

\* A slab holds obj_per_slab objects.
LEMMA ObjectsOfPage ==
    ASSUME NEW p \in Page
    PROVE  /\ IsFiniteSet(ObjectsOf(p)) /\ Cardinality(ObjectsOf(p)) = PerSlab
           /\ ObjectsOf(p) \subseteq Obj
<1> DEFINE f == [i \in 1 .. PerSlab |-> << p, i >>]
<1>1. f \in Bijection(1 .. PerSlab, ObjectsOf(p))
  <2>1. f \in [1 .. PerSlab -> ObjectsOf(p)]
    BY ObjFacts DEF ObjectsOf
  <2>2. \A a, b \in 1 .. PerSlab : f[a] = f[b] => a = b
    OBVIOUS
  <2>3. \A t \in ObjectsOf(p) : \E a \in 1 .. PerSlab : f[a] = t
    BY ObjFacts DEF ObjectsOf
  <2> HIDE DEF f
  <2> QED BY <2>1, <2>2, <2>3, Zenon DEF Bijection, Injection, Surjection, IsInjective
<1>2. ExistsBijection(1 .. PerSlab, ObjectsOf(p))
  BY <1>1, Zenon DEF ExistsBijection
<1>3. IsFiniteSet(1 .. PerSlab) /\ Cardinality(1 .. PerSlab) = PerSlab
  <2>1. PerSlab \in Nat /\ 1 <= PerSlab
    BY ObjFacts
  <2>2. IsFiniteSet(1 .. PerSlab)
        /\ Cardinality(1 .. PerSlab) = IF 1 > PerSlab THEN 0 ELSE PerSlab - 1 + 1
    BY <2>1, FS_Interval
  <2> QED BY <2>1, <2>2
<1> QED BY <1>2, <1>3, FS_Bijection DEF ObjectsOf

\* The words link the objects, the headers link the slabs.
LEMMA TypedLinks ==
    ASSUME Types
    PROVE  Links(Page, SlabLink) /\ Links(Obj, word)
BY ObjFacts, SlabAssumption DEF Types, SlabTypeOK, SlabHeader, SlabLink, Links

\* slab_create links all the objects of the page.
LEMMA CreatedListed ==
    ASSUME Types, NEW p \in Page
    PROVE  /\ Links(Obj, Created(p))
           /\ Listed(Obj, Created(p), << p, PerSlab >>, ObjectsOf(p))
<1> DEFINE s == [i \in 1 .. PerSlab |-> << p, PerSlab + 1 - i >>]
           w == Created(p)
<1>1. PerSlab \in Nat \ {0}
  BY ObjFacts
<1>2. Links(Obj, w)
  BY ObjFacts DEF Created, Links, Types, SlabTypeOK
<1>3. s \in Seq(Obj) /\ Len(s) = PerSlab /\ DOMAIN s = 1 .. PerSlab
  <2>1. s \in [1 .. PerSlab -> Obj]
    BY <1>1, ObjFacts
  <2> QED BY <1>1, <2>1
<1>4. IsInjective(s)
  BY <1>1, <1>3 DEF IsInjective
<1>5. ToSet(s) = ObjectsOf(p)
  <2>1. ToSet(s) \subseteq ObjectsOf(p)
    BY <1>1, <1>3, ObjFacts DEF ToSet, ObjectsOf
  <2>2. ASSUME NEW o \in ObjectsOf(p) PROVE o \in ToSet(s)
    <3>1. o[2] \in 1 .. PerSlab /\ o = << p, o[2] >>
      BY ObjFacts DEF ObjectsOf
    <3>2. PerSlab + 1 - o[2] \in 1 .. PerSlab /\ PerSlab + 1 - (PerSlab + 1 - o[2]) = o[2]
      BY <1>1, <3>1
    <3>3. s[PerSlab + 1 - o[2]] = o
      BY <3>1, <3>2
    <3> QED BY <1>3, <3>2, <3>3 DEF ToSet
  <2> QED BY <2>1, <2>2
<1>6. Linked(Obj, w, << p, PerSlab >>, s)
  <2>1. << p, PerSlab >> = At(s, 1)
    BY <1>1, <1>3 DEF At
  <2>2. ASSUME NEW n, << p, n >> \in Obj, n # 1 PROVE w[<< p, n >>] = << p, n - 1 >>
    BY <2>2 DEF Created
  <2>4. ASSUME NEW i \in 1 .. PerSlab PROVE w[s[i]] = At(s, i + 1)
    <3>1. s[i] = << p, PerSlab + 1 - i >> /\ s[i] \in Obj
      BY <1>1, ObjFacts
    <3>2. CASE i = PerSlab
      <4>1. s[i] = << p, 1 >>
        BY <1>1, <3>1, <3>2
      <4>2. w[s[i]] = Null
        BY <3>1, <4>1 DEF Created
      <4> QED BY <1>1, <1>3, <3>2, <4>2 DEF At
    <3>3. CASE i # PerSlab
      <4>1. PerSlab + 1 - i # 1 /\ PerSlab + 1 - i - 1 = PerSlab + 1 - (i + 1) /\ i + 1 \in 1 .. PerSlab
        BY <1>1, <3>3
      <4>2. w[s[i]] = << p, PerSlab + 1 - i - 1 >>
        <5>1. PICK n : n = PerSlab + 1 - i
          OBVIOUS
        <5>2. << p, n >> \in Obj /\ n # 1 /\ s[i] = << p, n >>
          BY <3>1, <4>1, <5>1
        <5>3. w[<< p, n >>] = << p, n - 1 >>
          BY <2>2, <5>2
        <5>4. n - 1 = PerSlab + 1 - i - 1
          BY <1>1, <5>1
        <5>5. w[s[i]] = << p, n - 1 >>
          BY <5>2, <5>3, Zenon
        <5> QED BY <5>4, <5>5, Zenon
      <4>3. s[i + 1] = << p, PerSlab + 1 - (i + 1) >>
        BY <4>1
      <4>4. At(s, i + 1) = s[i + 1]
        <5> HIDE DEF s
        <5> QED BY <1>3, <4>1 DEF At
      <4> QED BY <4>1, <4>2, <4>3, <4>4
    <3> QED BY <3>2, <3>3
  <2> QED BY <1>3, <1>4, <2>1, <2>4 DEF Linked
<1> HIDE DEF s, w
<1>7. Listed(Obj, w, << p, PerSlab >>, ToSet(s))
  BY <1>2, <1>6, LinkedListed
<1> QED BY <1>2, <1>5, <1>7 DEF w

\* slab_list_remove: p is no longer in the list that held the slabs of S.
IsUnlinked(out, S, p) ==
    /\ out.slab \in [Page -> SlabHeader] /\ out.head \in Page \cup {Null}
    /\ \A x \in Page : /\ out.slab[x].cache = slab[x].cache
                       /\ out.slab[x].freeList = slab[x].freeList
                       /\ out.slab[x].freeCount = slab[x].freeCount
                       /\ (x \notin S \ {p} => out.slab[x] = slab[x])
    /\ Listed(Page, [x \in Page |-> out.slab[x].next], out.head, S \ {p})

\* slab_list_remove takes a slab of the list out of it.
LEMMA UnlinkedListed ==
    ASSUME Types, NEW head, NEW S, Listed(Page, SlabLink, head, S), NEW p \in S,
           NEW out, out = Unlinked(head, p)
    PROVE  IsUnlinked(out, S, p)
<1>1. /\ Links(Page, SlabLink) /\ S \subseteq Page /\ slab \in [Page -> SlabHeader]
      /\ \A x \in Page : SlabLink[x] = slab[x].next /\ SlabLink[x] \in Page \cup {Null}
      /\ head \in Page \cup {Null}
  <2>1. Links(Page, SlabLink) /\ slab \in [Page -> SlabHeader]
    BY TypedLinks DEF Types, SlabTypeOK
  <2>2. S \subseteq Page /\ (head # Null => head \in S)
    BY <2>1, ListedNodes
  <2> QED BY <2>1, <2>2 DEF SlabLink, SlabHeader
<1>2. CASE head = p
  <2>1. out.head = slab[p].next /\ out.slab = slab
    BY <1>2 DEF Unlinked
  <2>2. head # Null
    BY <1>1, <1>2, ObjFacts
  <2>3. Listed(Page, SlabLink, SlabLink[p], S \ {p})
    BY <1>1, <1>2, <2>2, ListedPop
  <2>4. [x \in Page |-> out.slab[x].next] = SlabLink
    BY <2>1 DEF SlabLink
  <2> QED BY <1>1, <2>1, <2>3, <2>4 DEF IsUnlinked
<1>3. CASE head # p
  <2> DEFINE q == CHOOSE r \in ToSet(Slabs(head)) \ {Null} : slab[r].next = p
  <2>1. out.head = head /\ out.slab = [slab EXCEPT ![q].next = slab[p].next]
    BY <1>3 DEF Unlinked
  <2>2. ToSet(Slabs(head)) = S \cup {Null} /\ Null \notin S
    BY <1>1, ListedChain, ObjFacts DEF Slabs
  <2>3. \E r \in S : SlabLink[r] = p
    BY <1>1, <1>3, ListedBefore
  <2>4. \E r \in ToSet(Slabs(head)) \ {Null} : slab[r].next = p
    BY <1>1, <2>2, <2>3
  <2>5. q \in S /\ slab[q].next = p
    BY <2>2, <2>4
  <2> HIDE DEF q
  <2>6. q # p
    BY <1>1, <2>5, ListedBefore
  <2>7. /\ out.slab \in [Page -> SlabHeader]
        /\ \A x \in Page : out.slab[x] = IF x = q THEN [slab[q] EXCEPT !.next = slab[p].next]
                                         ELSE slab[x]
    <3>1. slab[q] \in SlabHeader /\ slab[p].next \in Page \cup {Null}
      BY <1>1, <2>5
    <3>2. [slab[q] EXCEPT !.next = slab[p].next] \in SlabHeader
      BY <3>1 DEF SlabHeader
    <3> QED BY <1>1, <2>1, <2>5, <3>2
  <2>8. \A x \in Page : /\ out.slab[x].cache = slab[x].cache
                        /\ out.slab[x].freeList = slab[x].freeList
                        /\ out.slab[x].freeCount = slab[x].freeCount
                        /\ out.slab[x].next = IF x = q THEN slab[p].next ELSE slab[x].next
    BY <1>1, <2>7 DEF SlabHeader
  <2> DEFINE L == [x \in Page |-> out.slab[x].next]
  <2>9. Links(Page, L)
    BY <1>1, <2>8 DEF Links
  <2>10. Relinked(SlabLink, L, S, q, p)
    BY <1>1, <2>5, <2>8 DEF Relinked
  <2> HIDE DEF L
  <2>11. Listed(Page, L, head, S \ {p})
    BY <1>1, <2>5, <2>9, <2>10, ListedUnlink
  <2> QED BY <1>1, <2>1, <2>5, <2>6, <2>7, <2>8, <2>11 DEF L, IsUnlinked
<1> QED BY <1>2, <1>3

-----------------------------------------------------------------------------
(* The tables. *)

\* The objects of a bucket, in the order of its links.
InBucket(c, b) == Nodes(word, heads[c][b])

\* The objects with key k.
With(k) == {o \in Obj : key[o] = k}

\* o, the first object with key k in its bucket, leaves the bucket.
TakenOut(c, k, o) ==
    /\ o \in Tabled(c, Table!IndexOf(k)) /\ key[o] = k
    /\ Chosen(InBucket(c, Table!IndexOf(k)), With(k)) # << >>
    /\ o = Head(Chosen(InBucket(c, Table!IndexOf(k)), With(k)))
    /\ \A d \in Cache, b \in Table!Bucket :
         InBucket(d, b)' = IF d = c /\ b = Table!IndexOf(k)
                           THEN Chosen(InBucket(d, b), Obj \ {o}) ELSE InBucket(d, b)

\* hashtable_add puts a private object, which no list holds, before its bucket.
LEMMA EnterKeeps ==
    ASSUME IInv, NEW c \in Cache, NEW o \in Obj, NEW k \in Key, Enter(c, o, k)
    PROVE  /\ IInv'
           /\ \A d \in Cache, b \in Table!Bucket :
                InBucket(d, b)' = IF d = c /\ b = Table!IndexOf(k)
                                  THEN << o >> \o InBucket(d, b) ELSE InBucket(d, b)
<1> DEFINE b0 == Table!IndexOf(k)
<1>1. b0 \in Table!Bucket
  BY IndexInRange
<1>2. Types /\ Links(Obj, word)
  BY TypedLinks DEF IInv
<1>3. /\ place[o] = "private" /\ slab[o[1]].cache = c
      /\ key' = [key EXCEPT ![o] = k]
      /\ word' = [word EXCEPT ![o] = heads[c][b0]]
      /\ heads' = [heads EXCEPT ![c] = [@ EXCEPT ![b0] = o]]
      /\ place' = [place EXCEPT ![o] = "table"]
      /\ UNCHANGED <<slab, full, partial, pages, returns>>
  BY DEF Enter, Table!AddWord, Table!AddHead
<1>4. /\ word \in [Obj -> Obj \cup {Null}] /\ place \in [Obj -> {"free", "private", "table"}]
      /\ key \in [Obj -> Key \cup {Null}]
      /\ heads \in [Cache -> [Table!Bucket -> Obj \cup {Null}]]
  BY <1>2 DEF Types, SlabTypeOK
<1> HIDE DEF b0
<1>5. /\ \A x \in Obj : /\ word'[x] = IF x = o THEN heads[c][b0] ELSE word[x]
                        /\ place'[x] = IF x = o THEN "table" ELSE place[x]
                        /\ key'[x] = IF x = o THEN k ELSE key[x]
      /\ \A d \in Cache, b \in Table!Bucket :
           heads'[d][b] = IF d = c /\ b = b0 THEN o ELSE heads[d][b]
  BY <1>1, <1>3, <1>4
<1>6. Types'
  <2>1. /\ word' \in [Obj -> Obj \cup {Null}] /\ place' \in [Obj -> {"free", "private", "table"}]
        /\ key' \in [Obj -> Key \cup {Null}]
    BY <1>1, <1>3, <1>4
  <2>2. heads' \in [Cache -> [Table!Bucket -> Obj \cup {Null}]]
    <3>1. heads[c] \in [Table!Bucket -> Obj \cup {Null}]
      BY <1>4
    <3>2. [heads[c] EXCEPT ![b0] = o] \in [Table!Bucket -> Obj \cup {Null}]
      BY <1>1, <3>1
    <3> QED BY <1>3, <1>4, <3>2
  <2>3. SlabTypeOK'
    BY <1>2, <1>3, <2>1 DEF Types, SlabTypeOK
  <2> QED BY <2>1, <2>2, <2>3, Zenon DEF Types, Table!Bucket
<1>7. Links(Obj, word)'
  <2>1. Links(Obj, word') <=> Links(Obj, word)'
    OBVIOUS
  <2> QED BY <1>4, <1>6, ObjFacts DEF Links, Types, SlabTypeOK
<1>8. ListsInv'
  BY <1>3 DEF IInv, ListsInv, FullOf, PartialOf, SlabLink
<1>9. ASSUME NEW p \in Page \ pages PROVE SlabInv(p)'
  <2>1. SlabInv(p)
    BY DEF IInv
  <2>2. FreeOf(p)' = FreeOf(p) /\ o \notin FreeOf(p)
    BY <1>3, <1>5 DEF FreeOf, ObjectsOf
  <2>3. Listed(Obj, word, slab[p].freeList, FreeOf(p))
    BY <2>1 DEF SlabInv
  <2>4. \A x \in FreeOf(p) : word'[x] = word[x]
    BY <1>5, <2>2 DEF FreeOf, ObjectsOf
  <2>5. Listed(Obj, word', slab[p].freeList, FreeOf(p))
    BY <1>7, <2>3, <2>4, ListedFrame
  <2> QED BY <1>3, <2>1, <2>2, <2>5 DEF SlabInv
<1>10. ASSUME NEW d \in Cache, NEW b \in Table!Bucket
       PROVE  Tabled(d, b)' = IF d = c /\ b = b0 THEN Tabled(d, b) \cup {o} ELSE Tabled(d, b)
  BY <1>3, <1>5 DEF Tabled, b0
<1>11. ASSUME NEW d \in Cache, NEW b \in Table!Bucket
       PROVE  /\ Listed(Obj, word', heads'[d][b], Tabled(d, b)')
              /\ Nodes(word', heads'[d][b]) = IF d = c /\ b = b0 THEN << o >> \o InBucket(d, b)
                                              ELSE InBucket(d, b)
  <2>1. Listed(Obj, word, heads[d][b], Tabled(d, b))
    BY DEF IInv, BucketsInv
  <2>2. o \notin Tabled(d, b) /\ \A x \in Tabled(d, b) : word'[x] = word[x]
    BY <1>3, <1>5 DEF Tabled
  <2>3. CASE d = c /\ b = b0
    <3>1. heads'[d][b] = o /\ word'[o] = heads[d][b] /\ o \in Obj \ Tabled(d, b)
      BY <1>5, <2>2, <2>3
    <3>2. Listed(Obj, word', o, Tabled(d, b) \cup {o})
          /\ Nodes(word', o) = Pushed(Nodes(word, heads[d][b]), o)
      BY <1>7, <2>1, <2>2, <3>1, ListedPush
    <3> QED BY <1>10, <2>3, <3>1, <3>2 DEF InBucket, Pushed
  <2>4. CASE ~(d = c /\ b = b0)
    <3>1. Listed(Obj, word', heads[d][b], Tabled(d, b))
          /\ Nodes(word', heads[d][b]) = Nodes(word, heads[d][b])
      BY <1>7, <2>1, <2>2, ListedFrame
    <3> QED BY <1>5, <1>10, <2>4, <3>1 DEF InBucket
  <2> QED BY <2>3, <2>4
<1>12. BucketsInv'
  BY <1>11 DEF BucketsInv, Table!Bucket
<1>13. PlacesInv'
  <2>1. PlacesInv
    BY DEF IInv
  <2> QED BY <1>3, <1>5, <2>1 DEF PlacesInv
<1>14. ASSUME NEW p \in (Page \ pages)' PROVE SlabInv(p)'
  BY <1>3, <1>9
<1> QED BY <1>6, <1>8, <1>11, <1>12, <1>13, <1>14 DEF IInv, InBucket, b0

\* hashtable_remove takes the first object with the key out of its bucket: the links
\* of the free lists and of the other buckets stay.
LEMMA TakeOutKeeps ==
    ASSUME IInv, NEW c \in Cache, NEW k \in Key, TakeOut(c, k)
    PROVE  IInv' /\ TakenOut(c, k, Get(c, k))
<1> DEFINE o == Get(c, k)
           K == With(k)
<1> DEFINE b0 == Table!IndexOf(k)
           S == Tabled(c, b0)
<1>0. o = Get(c, k) /\ K = {x \in Obj : key[x] = k}
  BY DEF With
<1>1. b0 \in Table!Bucket
  BY IndexInRange
<1> HIDE DEF o, K
<1>2. Types /\ Links(Obj, word)
  BY TypedLinks DEF IInv
<1>3. Listed(Obj, word, heads[c][b0], S)
  BY <1>1 DEF IInv, BucketsInv
<1>4. /\ o # Null
      /\ word' = Table!RemoveWord(word, Chain(word, heads[c][b0]), o)
      /\ heads' = [heads EXCEPT ![c] =
                     Table!RemoveHead(word, @, Chain(word, heads[c][b0]), o, k)]
      /\ place' = [place EXCEPT ![o] = "private"]
      /\ key' = [key EXCEPT ![o] = Null]
      /\ UNCHANGED <<slab, full, partial, pages, returns>>
  BY <1>0 DEF TakeOut, ChainOf, BucketChain
<1>5. /\ word \in [Obj -> Obj \cup {Null}] /\ place \in [Obj -> {"free", "private", "table"}]
      /\ key \in [Obj -> Key \cup {Null}]
      /\ heads \in [Cache -> [Table!Bucket -> Obj \cup {Null}]]
      /\ S \subseteq Obj
  BY <1>2 DEF Types, SlabTypeOK, Tabled
<1>6. /\ Chosen(InBucket(c, b0), K) # << >>
      /\ o = Head(Chosen(InBucket(c, b0), K))
  <2>1. \A x \in S : key[x] = k <=> x \in K
    BY <1>0, <1>5
  <2>2. o = Table!FirstOf(Chain(word, heads[c][b0]), key, k)
    BY <1>0 DEF Get, ChainOf, BucketChain
  <2> HIDE DEF b0, S
  <2> QED BY <1>2, <1>3, <1>4, <2>1, <2>2, FirstListed DEF InBucket
<1>7. o \in S /\ key[o] = k /\ o \in Obj
  <2>1. InBucket(c, b0) \in Seq(Obj) /\ ToSet(InBucket(c, b0)) = S
    <3> HIDE DEF b0, S
    <3> QED BY <1>2, <1>3, ListedNodes DEF InBucket
  <2> DEFINE s == InBucket(c, b0)
  <2> HIDE DEF s, S
  <2>2. Chosen(s, K) \in Seq(Obj) /\ ToSet(Chosen(s, K)) = ToSet(s) \cap K
    BY <2>1, ChosenElements DEF s
  <2>3. Head(Chosen(s, K)) \in ToSet(Chosen(s, K))
    BY <1>6, <2>2, PopElements DEF s
  <2>4. o \in S /\ o \in K
    BY <1>6, <2>1, <2>2, <2>3 DEF s
  <2> QED BY <1>0, <1>5, <2>4
<1>8. /\ place[o] = "table" /\ slab[o[1]].cache = c
      /\ o[1] \in Page /\ o[1] \notin pages
  BY <1>7, ObjFacts DEF Tabled, IInv, PlacesInv
<1> DEFINE q == Table!Before(Chain(word, heads[c][b0]), o)
<1>9. /\ heads[c][b0] = o => q = Null
      /\ heads[c][b0] # o => q \in S /\ word[q] = o
  <2> HIDE DEF S, b0
  <2> QED BY <1>2, <1>3, <1>7, BeforeListed
<1>10. /\ word' = IF q = Null THEN word ELSE [word EXCEPT ![q] = word[o]]
       /\ heads' = [heads EXCEPT ![c] = IF q = Null THEN [@ EXCEPT ![b0] = word[o]] ELSE @]
  BY <1>4, Zenon DEF Table!RemoveWord, Table!RemoveHead
<1> HIDE DEF q, b0, S
<1>11. q # Null => q \in S /\ q \in Obj
  BY <1>5, <1>9
<1>12. /\ \A x \in Obj : /\ word'[x] = IF x = q THEN word[o] ELSE word[x]
                         /\ place'[x] = IF x = o THEN "private" ELSE place[x]
                         /\ key'[x] = IF x = o THEN Null ELSE key[x]
       /\ \A d \in Cache, b \in Table!Bucket :
            heads'[d][b] = IF d = c /\ b = b0 /\ q = Null THEN word[o] ELSE heads[d][b]
  <2>1. Null \notin Obj
    BY ObjFacts
  <2>2. \A x \in Obj : word'[x] = IF x = q THEN word[o] ELSE word[x]
    BY <1>5, <1>10, <1>11, <2>1
  <2>3. \A d \in Cache, b \in Table!Bucket :
            heads'[d][b] = IF d = c /\ b = b0 /\ q = Null THEN word[o] ELSE heads[d][b]
    BY <1>1, <1>5, <1>10
  <2> QED BY <1>4, <1>5, <2>2, <2>3
<1>13. Types'
  <2>1. word[o] \in Obj \cup {Null}
    BY <1>5, <1>7
  <2>2. word' \in [Obj -> Obj \cup {Null}]
    BY <1>5, <1>10, <2>1
  <2>3. place' \in [Obj -> {"free", "private", "table"}] /\ key' \in [Obj -> Key \cup {Null}]
    BY <1>4, <1>5
  <2>4. heads' \in [Cache -> [Table!Bucket -> Obj \cup {Null}]]
    <3>1. heads[c] \in [Table!Bucket -> Obj \cup {Null}]
      BY <1>5
    <3>2. [heads[c] EXCEPT ![b0] = word[o]] \in [Table!Bucket -> Obj \cup {Null}]
      BY <1>1, <2>1, <3>1
    <3> QED BY <1>5, <1>10, <3>1, <3>2
  <2>5. SlabTypeOK'
    BY <1>2, <1>4, <2>2 DEF Types, SlabTypeOK
  <2> QED BY <2>3, <2>4, <2>5, Zenon DEF Types, Table!Bucket
<1>14. Links(Obj, word)'
  BY <1>13, ObjFacts DEF Links, Types, SlabTypeOK
<1>15. ListsInv'
  BY <1>4 DEF IInv, ListsInv, FullOf, PartialOf, SlabLink
<1>16. ASSUME NEW p \in Page \ pages PROVE SlabInv(p)'
  <2>1. SlabInv(p)
    BY DEF IInv
  <2>2. FreeOf(p)' = FreeOf(p) /\ q \notin FreeOf(p)
    <3>1. q \notin FreeOf(p)
      BY <1>11, ObjFacts DEF FreeOf, ObjectsOf, Tabled, S
    <3> QED BY <1>8, <1>12, <3>1 DEF FreeOf, ObjectsOf
  <2>3. Listed(Obj, word, slab[p].freeList, FreeOf(p))
    BY <2>1 DEF SlabInv
  <2>4. \A x \in FreeOf(p) : word'[x] = word[x]
    BY <1>12, <2>2 DEF FreeOf, ObjectsOf
  <2>5. Listed(Obj, word', slab[p].freeList, FreeOf(p))
    BY <1>14, <2>3, <2>4, ListedFrame
  <2> QED BY <1>4, <2>1, <2>2, <2>5 DEF SlabInv
<1>17. ASSUME NEW d \in Cache, NEW b \in Table!Bucket
       PROVE  Tabled(d, b)' = IF d = c /\ b = b0 THEN Tabled(d, b) \ {o} ELSE Tabled(d, b)
  <2>1. Tabled(d, b)' = Tabled(d, b) \ {o}
    BY <1>4, <1>12 DEF Tabled
  <2>2. ~(d = c /\ b = b0) => o \notin Tabled(d, b)
    BY <1>7, <1>8 DEF Tabled, b0
  <2> QED BY <2>1, <2>2
<1>18. ASSUME NEW d \in Cache, NEW b \in Table!Bucket
       PROVE  /\ Listed(Obj, word', heads'[d][b], Tabled(d, b)')
              /\ Nodes(word', heads'[d][b])
                   = IF d = c /\ b = b0 THEN Chosen(InBucket(d, b), Obj \ {o}) ELSE InBucket(d, b)
  <2>1. Listed(Obj, word, heads[d][b], Tabled(d, b))
    BY DEF IInv, BucketsInv
  <2>2. CASE d = c /\ b = b0 /\ q = Null
    <3>1. heads[c][b0] = o /\ word' = word /\ heads'[d][b] = word[o]
      <4>1. Null \notin Obj
        BY ObjFacts
      <4>2. heads[c][b0] = o
        BY <1>5, <1>9, <2>2, <4>1
      <4>3. word' = word
        BY <1>10, <2>2
      <4> QED BY <1>12, <2>2, <4>2, <4>3
    <3>2. /\ Listed(Obj, word, word[o], S \ {o})
          /\ InBucket(c, b0) # << >> /\ Head(InBucket(c, b0)) = o
          /\ Nodes(word, word[o]) = Tail(InBucket(c, b0))
      <4>1. heads[c][b0] # Null
        BY <1>4, <3>1
      <4>2. /\ Listed(Obj, word, word[heads[c][b0]], S \ {heads[c][b0]})
            /\ Pops(Nodes(word, heads[c][b0]), heads[c][b0], Nodes(word, word[heads[c][b0]]))
        BY <1>2, <1>3, <4>1, ListedPop
      <4> QED BY <3>1, <4>2 DEF InBucket, Pops
    <3>3. InBucket(c, b0) \in Seq(Obj) /\ IsInjective(InBucket(c, b0))
      BY <1>2, <1>3, ListedNodes DEF InBucket
    <3> DEFINE s == InBucket(c, b0)
    <3>4. Chosen(s, Obj \ {o}) = Tail(s)
      <4> HIDE DEF s
      <4>1. /\ Tail(s) \in Seq(Obj) /\ o \notin ToSet(Tail(s)) /\ s = << o >> \o Tail(s)
        BY <3>2, <3>3, PopElements, PopOnce DEF s
      <4>2. ToSet(Tail(s)) \subseteq Obj \ {o}
        BY <4>1, QueueElements
      <4>3. Chosen(Tail(s), Obj \ {o}) = Tail(s)
        BY <4>1, <4>2, ChosenAll
      <4>4. Chosen(<< o >> \o Tail(s), Obj \ {o})
              = IF o \in Obj \ {o} THEN << o >> \o Chosen(Tail(s), Obj \ {o})
                ELSE Chosen(Tail(s), Obj \ {o})
        <5>1. ASSUME NEW t \in Seq(Obj)
              PROVE  Chosen(<< o >> \o t, Obj \ {o})
                       = IF o \in Obj \ {o} THEN << o >> \o Chosen(t, Obj \ {o})
                         ELSE Chosen(t, Obj \ {o})
          BY <1>7, ChosenPush
        <5> QED BY <4>1, <5>1, Zenon
      <4> QED BY <4>1, <4>3, <4>4
    <3> QED BY <1>17, <2>2, <3>1, <3>2, <3>4 DEF S
  <2>3. CASE d = c /\ b = b0 /\ q # Null
    <3>1. heads[c][b0] # o /\ q \in S /\ word[q] = o /\ heads'[d][b] = heads[d][b]
      BY <1>9, <1>12, <2>3
    <3>2. Relinked(word, word', S, q, o)
      BY <1>5, <1>11, <1>12, <2>3, <3>1 DEF Relinked
    <3>3. /\ Listed(Obj, word', heads[c][b0], S \ {o})
          /\ Nodes(word', heads[c][b0]) = Chosen(Nodes(word, heads[c][b0]), Obj \ {o})
      <4>1. /\ Listed(Obj, word', heads[c][b0], S \ {o})
            /\ Nodes(word', heads[c][b0]) = Without(Nodes(word, heads[c][b0]), Obj, o)
        BY <1>2, <1>3, <1>7, <1>14, <3>1, <3>2, ListedUnlink
      <4> QED BY <4>1 DEF Without
    <3> QED BY <1>17, <2>3, <3>1, <3>3 DEF S, InBucket
  <2>4. CASE ~(d = c /\ b = b0)
    <3>1. q \notin Tabled(d, b)
      BY <1>11, <2>4, ObjFacts DEF Tabled, S
    <3>2. \A x \in Tabled(d, b) : word'[x] = word[x]
      BY <1>12, <3>1 DEF Tabled
    <3>3. Listed(Obj, word', heads[d][b], Tabled(d, b))
          /\ Nodes(word', heads[d][b]) = Nodes(word, heads[d][b])
      BY <1>14, <2>1, <3>2, ListedFrame
    <3> QED BY <1>12, <1>17, <2>4, <3>3 DEF InBucket
  <2> QED BY <2>2, <2>3, <2>4
<1>19. BucketsInv'
  BY <1>18 DEF BucketsInv, Table!Bucket
<1>20. PlacesInv'
  <2>1. PlacesInv
    BY DEF IInv
  <2> QED BY <1>4, <1>8, <1>12, <2>1 DEF PlacesInv
<1>21. ASSUME NEW p \in (Page \ pages)' PROVE SlabInv(p)'
  BY <1>4, <1>16
<1>22. IInv'
  BY <1>13, <1>15, <1>19, <1>20, <1>21 DEF IInv
<1> QED BY <1>0, <1>6, <1>7, <1>18, <1>22 DEF TakenOut, InBucket, b0, S, K

-----------------------------------------------------------------------------
(* The slabs. *)

\* slab_cache_alloc takes the first free object of a slab with free objects,
\* which is the first partial slab or a new one.
LEMMA TakeFirstKeeps ==
    ASSUME IInv, NEW c \in Cache, NEW p \in Page, NEW h \in SlabHeader, NEW w, NEW o,
           Links(Obj, w), h.cache = c,
           Listed(Obj, w, h.freeList, FreeOf(p)), h.freeCount = Cardinality(FreeOf(p)),
           h.freeCount > 0, \A x \in Obj \ FreeOf(p) : w[x] = word[x],
           Listed(Page, SlabLink, h.next, PartialOf(c) \ {p}),
           p \in pages \/ (slab[p].cache = c /\ slab[p].freeCount > 0),
           TakeFirst(c, p, h, w, o), pages' = pages \ {p},
           place' = [place EXCEPT ![o] = "private"], UNCHANGED <<heads, items, key>>
    PROVE  /\ IInv'
           /\ o \in FreeOf(p)
           /\ \A q \in Page : slab'[q].cache = IF q = p THEN c ELSE slab[q].cache
           /\ \A d \in Cache, b \in Table!Bucket : InBucket(d, b)' = InBucket(d, b)
<1>1. /\ Types /\ Links(Page, SlabLink) /\ ListsInv /\ BucketsInv /\ PlacesInv
      /\ slab \in [Page -> SlabHeader] /\ full \in [Cache -> Page \cup {Null}]
      /\ partial \in [Cache -> Page \cup {Null}] /\ pages \subseteq Page /\ returns \in BOOLEAN
      /\ place \in [Obj -> {"free", "private", "table"}]
  BY TypedLinks DEF IInv, Types, SlabTypeOK
<1>2. /\ h.next \in Page \cup {Null} /\ h.freeCount \in Nat /\ h.freeCount <= PerSlab
      /\ PerSlab \in Nat \ {0}
  BY ObjFacts DEF SlabHeader
<1>3. o = h.freeList /\ word' = w /\ UNCHANGED returns
  BY DEF TakeFirst
<1>4. /\ o \in FreeOf(p) /\ o \in Obj /\ o[1] = p /\ place[o] = "free"
      /\ IsFiniteSet(FreeOf(p))
  <2>1. IsFiniteSet(FreeOf(p)) /\ (o = Null <=> FreeOf(p) = {}) /\ (o # Null => o \in FreeOf(p))
    BY <1>3, ListedNodes
  <2>2. FreeOf(p) # {}
    BY <1>2, FS_EmptySet
  <2> QED BY <2>1, <2>2 DEF FreeOf, ObjectsOf
<1>5. Listed(Obj, w, w[o], FreeOf(p) \ {o}) /\ w[o] \in Obj \cup {Null}
  <2>1. o # Null
    BY <1>4, ObjFacts
  <2>2. Listed(Obj, w, w[o], FreeOf(p) \ {o})
    BY <1>3, <2>1, ListedPop
  <2> QED BY <1>4, <2>2 DEF Links
<1>6. /\ IsFiniteSet(FreeOf(p) \ {o})
      /\ Cardinality(FreeOf(p) \ {o}) = h.freeCount - 1
      /\ h.freeCount - 1 \in 0 .. PerSlab
  BY <1>2, <1>4, FS_RemoveElement
<1>7. w[o] = Null <=> h.freeCount - 1 = 0
  <2>1. w[o] = Null <=> FreeOf(p) \ {o} = {}
    BY <1>5, ListedNodes
  <2>2. FreeOf(p) \ {o} = {} <=> Cardinality(FreeOf(p) \ {o}) = 0
    BY <1>6, FS_EmptySet
  <2> QED BY <1>6, <2>1, <2>2
<1> DEFINE left == [h EXCEPT !.freeList = w[o], !.freeCount = @ - 1]
           hp == IF w[o] = Null THEN [left EXCEPT !.next = full[c]] ELSE left
<1>8. /\ hp \in SlabHeader /\ hp.cache = c /\ hp.freeList = w[o]
      /\ hp.freeCount = h.freeCount - 1
      /\ hp.next = IF w[o] = Null THEN full[c] ELSE h.next
      /\ left.freeList = w[o]
  BY <1>1, <1>5, <1>6 DEF SlabHeader
<1>9. /\ slab' = [slab EXCEPT ![p] = hp]
      /\ full' = IF w[o] = Null THEN [full EXCEPT ![c] = p] ELSE full
      /\ partial' = [partial EXCEPT ![c] = IF w[o] = Null THEN h.next ELSE p]
  BY <1>8 DEF TakeFirst
<1> HIDE DEF left, hp
<1>10. /\ \A q \in Page : slab'[q] = IF q = p THEN hp ELSE slab[q]
       /\ \A q \in Page : SlabLink'[q] = IF q = p THEN hp.next ELSE SlabLink[q]
       /\ \A x \in Obj : place'[x] = IF x = o THEN "private" ELSE place[x]
  <2>1. \A q \in Page : slab'[q] = IF q = p THEN hp ELSE slab[q]
    BY <1>1, <1>9
  <2>2. \A x \in Obj : place'[x] = IF x = o THEN "private" ELSE place[x]
    BY <1>1
  <2> QED BY <2>1, <2>2 DEF SlabLink
<1>11. Types'
  <2>1. slab' \in [Page -> SlabHeader]
    BY <1>1, <1>8, <1>9
  <2>2. /\ full' \in [Cache -> Page \cup {Null}] /\ partial' \in [Cache -> Page \cup {Null}]
        /\ pages' \subseteq Page /\ returns' \in BOOLEAN
        /\ place' \in [Obj -> {"free", "private", "table"}]
    BY <1>1, <1>2, <1>3, <1>9
  <2>3. word' \in [Obj -> Obj \cup {Null}]
    BY <1>3 DEF Links
  <2>4. SlabTypeOK'
    BY <2>1, <2>2, <2>3 DEF SlabTypeOK
  <2> QED BY <1>1, <2>2, <2>4 DEF Types, Table!Bucket
<1>12. Links(Page, SlabLink') /\ Links(Obj, word')
  <2>1. Links(Page, SlabLink)' /\ Links(Obj, word)'
    BY <1>11, ObjFacts, SlabAssumption DEF Types, SlabTypeOK, SlabHeader, SlabLink, Links
  <2> QED BY <2>1
<1>13. ASSUME NEW d \in Cache
       PROVE  /\ p \notin FullOf(d) /\ (d # c => p \notin PartialOf(d))
              /\ FullOf(d)' = IF d = c /\ w[o] = Null THEN FullOf(d) \cup {p} ELSE FullOf(d)
              /\ PartialOf(d)' = IF d # c THEN PartialOf(d)
                                 ELSE IF w[o] = Null THEN PartialOf(d) \ {p}
                                 ELSE (PartialOf(d) \ {p}) \cup {p}
  <2>1. p \notin FullOf(d) /\ (d # c => p \notin PartialOf(d))
    BY DEF FullOf, PartialOf
  <2>2. \A q \in Page : q \notin pages' <=> q = p \/ q \notin pages
    OBVIOUS
  <2>3. \A q \in Page : q # p => (q \in FullOf(d)' <=> q \in FullOf(d))
                                 /\ (q \in PartialOf(d)' <=> q \in PartialOf(d))
    BY <1>10, <2>2 DEF FullOf, PartialOf
  <2>4. p \in FullOf(d)' <=> d = c /\ w[o] = Null
    BY <1>7, <1>8, <1>10, <2>2 DEF FullOf
  <2>5. p \in PartialOf(d)' <=> d = c /\ w[o] # Null
    BY <1>2, <1>7, <1>8, <1>10, <2>2 DEF PartialOf
  <2>6. /\ FullOf(d) \subseteq Page /\ FullOf(d)' \subseteq Page
        /\ PartialOf(d) \subseteq Page /\ PartialOf(d)' \subseteq Page
    BY DEF FullOf, PartialOf
  <2> HIDE DEF FullOf, PartialOf
  <2> QED BY <2>1, <2>3, <2>4, <2>5, <2>6
<1>14. ASSUME NEW d \in Cache
       PROVE  /\ Listed(Page, SlabLink', full'[d], FullOf(d)')
              /\ Listed(Page, SlabLink', partial'[d], PartialOf(d)')
  <2>1. Listed(Page, SlabLink, full[d], FullOf(d)) /\ Listed(Page, SlabLink, partial[d], PartialOf(d))
    BY <1>1 DEF ListsInv
  <2>2. FullOf(d) \subseteq Page /\ PartialOf(d) \subseteq Page
    BY DEF FullOf, PartialOf
  <2>3. \A x \in FullOf(d) : SlabLink'[x] = SlabLink[x]
    BY <1>10, <1>13, <2>2
  <2>4. Listed(Page, SlabLink', full[d], FullOf(d))
    BY <1>12, <2>1, <2>3, ListedFrame
  <2>5. CASE d # c
    <3>1. \A x \in PartialOf(d) : SlabLink'[x] = SlabLink[x]
      BY <1>10, <1>13, <2>2, <2>5
    <3>2. Listed(Page, SlabLink', partial[d], PartialOf(d))
      BY <1>12, <2>1, <3>1, ListedFrame
    <3>3. full'[d] = full[d] /\ partial'[d] = partial[d]
      BY <1>1, <1>9, <2>5
    <3> QED BY <1>13, <2>4, <2>5, <3>2, <3>3
  <2>6. CASE d = c
    <3>1. \A x \in PartialOf(d) \ {p} : SlabLink'[x] = SlabLink[x]
      BY <1>10, <2>2
    <3>2. Listed(Page, SlabLink', h.next, PartialOf(d) \ {p})
      BY <1>12, <2>6, <3>1, ListedFrame
    <3>3. CASE w[o] = Null
      <4>1. full'[d] = p /\ partial'[d] = h.next /\ SlabLink'[p] = full[d]
        BY <1>1, <1>8, <1>9, <1>10, <2>6, <3>3
      <4>2. p \in Page \ FullOf(d)
        BY <1>13
      <4>3. Listed(Page, SlabLink', p, FullOf(d) \cup {p})
        BY <1>12, <2>1, <2>3, <4>1, <4>2, ListedPush
      <4> QED BY <1>13, <2>6, <3>2, <3>3, <4>1, <4>3
    <3>4. CASE w[o] # Null
      <4>1. full'[d] = full[d] /\ partial'[d] = p /\ SlabLink'[p] = h.next
        BY <1>1, <1>8, <1>9, <1>10, <2>6, <3>4
      <4>2. p \in Page \ (PartialOf(d) \ {p})
        OBVIOUS
      <4>3. Listed(Page, SlabLink', p, (PartialOf(d) \ {p}) \cup {p})
        BY <1>12, <3>2, <4>1, <4>2, ListedPush
      <4> QED BY <1>13, <2>4, <2>6, <3>4, <4>1, <4>3
    <3> QED BY <3>3, <3>4
  <2> QED BY <2>5, <2>6
<1>15. ListsInv'
  BY <1>14 DEF ListsInv
<1>16. ASSUME NEW q \in Page, q \notin pages' PROVE SlabInv(q)'
  <2>1. CASE q = p
    <3>1. FreeOf(q)' = FreeOf(p) \ {o}
      BY <1>4, <1>10, <2>1 DEF FreeOf, ObjectsOf
    <3>2. slab'[q] = hp
      BY <1>10, <2>1
    <3> QED BY <1>2, <1>3, <1>5, <1>6, <1>8, <3>1, <3>2 DEF SlabInv
  <2>2. CASE q # p
    <3>1. SlabInv(q)
      BY <1>16, <2>2 DEF IInv
    <3>2. FreeOf(q)' = FreeOf(q)
      BY <1>4, <1>10, <2>2 DEF FreeOf, ObjectsOf
    <3>3. \A x \in FreeOf(q) : word'[x] = word[x]
      BY <1>3, <2>2 DEF FreeOf, ObjectsOf
    <3>4. Listed(Obj, word', slab[q].freeList, FreeOf(q))
      BY <1>12, <3>1, <3>3, ListedFrame DEF SlabInv
    <3>5. slab'[q] = slab[q]
      BY <1>10, <2>2
    <3> QED BY <1>3, <3>1, <3>2, <3>4, <3>5 DEF SlabInv
  <2> QED BY <2>1, <2>2
<1>17. \A q \in Page : slab'[q].cache = IF q = p THEN c ELSE slab[q].cache
  BY <1>8, <1>10
<1>18. ASSUME NEW d \in Cache, NEW b \in Table!Bucket
       PROVE  /\ Listed(Obj, word', heads'[d][b], Tabled(d, b)')
              /\ Nodes(word', heads'[d][b]) = Nodes(word, heads[d][b])
  <2>1. Tabled(d, b)' = Tabled(d, b)
    <3>1. ASSUME NEW x \in Obj, place[x] = "table" PROVE slab'[x[1]].cache = slab[x[1]].cache
      <4>1. x[1] \in Page /\ x[1] \notin pages
        BY <1>1, <3>1, ObjFacts DEF PlacesInv
      <4> QED BY <1>17, <4>1
    <3>2. \A x \in Obj : place'[x] = "table" <=> place[x] = "table"
      BY <1>4, <1>10
    <3> QED BY <3>1, <3>2 DEF Tabled
  <2>2. \A x \in Tabled(d, b) : word'[x] = word[x]
    BY <1>3 DEF Tabled, FreeOf
  <2>3. Listed(Obj, word, heads[d][b], Tabled(d, b))
    BY <1>1 DEF BucketsInv
  <2>4. Listed(Obj, word', heads[d][b], Tabled(d, b))
        /\ Nodes(word', heads[d][b]) = Nodes(word, heads[d][b])
    BY <1>12, <2>2, <2>3, ListedFrame
  <2> QED BY <2>1, <2>4
<1>19. BucketsInv'
  BY <1>18 DEF BucketsInv, Table!Bucket
<1>20. PlacesInv'
  BY <1>1, <1>4, <1>10 DEF PlacesInv
<1>21. ASSUME NEW q \in (Page \ pages)' PROVE SlabInv(q)'
  BY <1>16
<1> QED BY <1>4, <1>11, <1>15, <1>17, <1>18, <1>19, <1>20, <1>21 DEF IInv, InBucket

\* slab_cache_alloc hands out an object nobody has, of a partial slab or of a new
\* one.
LEMMA AllocateKeeps ==
    ASSUME IInv, NEW c \in Cache, NEW o \in Obj, SlabAlloc(c, o),
           place' = [place EXCEPT ![o] = "private"], UNCHANGED <<heads, items, key>>
    PROVE  /\ IInv'
           /\ place[o] = "free" /\ slab'[o[1]].cache = c
           /\ \A q \in Page \ pages : slab'[q].cache = slab[q].cache
           /\ \A d \in Cache, b \in Table!Bucket : InBucket(d, b)' = InBucket(d, b)
<1>1. /\ Types /\ Links(Page, SlabLink) /\ Links(Obj, word) /\ PlacesInv
      /\ slab \in [Page -> SlabHeader] /\ partial \in [Cache -> Page \cup {Null}]
      /\ pages \subseteq Page
      /\ Listed(Page, SlabLink, partial[c], PartialOf(c))
  BY TypedLinks DEF IInv, Types, SlabTypeOK, ListsInv
<1>2. CASE partial[c] # Null
  <2> DEFINE p == partial[c]
             h == slab[p]
  <2>1. TakeFirst(c, p, h, word, o) /\ UNCHANGED pages
    BY <1>2 DEF SlabAlloc
  <2>2. p \in PartialOf(c)
    BY <1>1, <1>2, ListedNodes
  <2>3. p \in Page \ pages /\ h.cache = c /\ h.freeCount > 0 /\ h \in SlabHeader
    BY <1>1, <2>2 DEF PartialOf
  <2>4. Listed(Obj, word, h.freeList, FreeOf(p)) /\ h.freeCount = Cardinality(FreeOf(p))
    BY <2>3 DEF IInv, SlabInv
  <2>5. Listed(Page, SlabLink, h.next, PartialOf(c) \ {p})
    <3>1. Listed(Page, SlabLink, SlabLink[partial[c]], PartialOf(c) \ {partial[c]})
      BY <1>1, <1>2, ListedPop
    <3> QED BY <2>3, <3>1 DEF SlabLink
  <2>6. pages' = pages \ {p}
    BY <2>1, <2>3
  <2> DEFINE w == word
  <2>12. /\ Links(Obj, w) /\ Listed(Obj, w, h.freeList, FreeOf(p)) /\ h \in SlabHeader
         /\ h.cache = c /\ h.freeCount = Cardinality(FreeOf(p)) /\ h.freeCount > 0
         /\ \A x \in Obj \ FreeOf(p) : w[x] = word[x]
         /\ Listed(Page, SlabLink, h.next, PartialOf(c) \ {p})
         /\ TakeFirst(c, p, h, w, o)
         /\ slab[p].cache = c /\ slab[p].freeCount > 0 /\ p \in Page
    BY <1>1, <2>1, <2>3, <2>4, <2>5
  <2> HIDE DEF p, h, w
  <2>7. /\ IInv' /\ o \in FreeOf(p)
        /\ \A q \in Page : slab'[q].cache = IF q = p THEN c ELSE slab[q].cache
        /\ \A d \in Cache, b \in Table!Bucket : InBucket(d, b)' = InBucket(d, b)
    BY <2>6, <2>12, TakeFirstKeeps
  <2>8. place[o] = "free" /\ o[1] = p
    BY <2>7 DEF FreeOf, ObjectsOf
  <2>9. slab[p].cache = c
    BY <2>3 DEF h
  <2> QED BY <2>3, <2>7, <2>8, <2>9
<1>3. CASE partial[c] = Null
  <2>1. PICK p \in pages : /\ TakeFirst(c, p, Header(c, p), Created(p), o)
                           /\ pages' = pages \ {p}
    BY <1>3 DEF SlabAlloc
  <2>2. p \in Page /\ PerSlab \in Nat \ {0}
    BY <1>1, ObjFacts
  <2>3. /\ Links(Obj, Created(p))
        /\ Listed(Obj, Created(p), << p, PerSlab >>, ObjectsOf(p))
    BY <1>1, <2>2, CreatedListed
  <2>4. FreeOf(p) = ObjectsOf(p)
    BY <1>1 DEF FreeOf, ObjectsOf, PlacesInv
  <2>5. /\ Header(c, p) \in SlabHeader /\ Header(c, p).cache = c
        /\ Header(c, p).freeList = << p, PerSlab >> /\ Header(c, p).freeCount = PerSlab
        /\ Header(c, p).next = Null
    BY <2>2, ObjFacts DEF Header, SlabHeader
  <2>6. Header(c, p).freeCount = Cardinality(FreeOf(p)) /\ Header(c, p).freeCount > 0
    BY <2>2, <2>4, <2>5, ObjectsOfPage
  <2>7. \A x \in Obj \ FreeOf(p) : Created(p)[x] = word[x]
    BY <2>4 DEF Created, ObjectsOf
  <2>8. Listed(Page, SlabLink, Null, PartialOf(c) \ {p})
    <3>1. PartialOf(c) = {}
      BY <1>1, <1>3, ListedNodes
    <3>2. PartialOf(c) \ {p} = {}
      BY <3>1
    <3> QED BY <1>1, <3>2, ListedNone
  <2> DEFINE h == Header(c, p)
             w == Created(p)
  <2>9. /\ Links(Obj, w) /\ Listed(Obj, w, h.freeList, FreeOf(p)) /\ h \in SlabHeader
        /\ h.cache = c /\ h.freeCount = Cardinality(FreeOf(p)) /\ h.freeCount > 0
        /\ \A x \in Obj \ FreeOf(p) : w[x] = word[x]
        /\ Listed(Page, SlabLink, h.next, PartialOf(c) \ {p})
        /\ TakeFirst(c, p, h, w, o)
    BY <2>1, <2>3, <2>4, <2>5, <2>6, <2>7, <2>8
  <2> HIDE DEF h, w
  <2>10. /\ IInv' /\ o \in FreeOf(p)
         /\ \A q \in Page : slab'[q].cache = IF q = p THEN c ELSE slab[q].cache
         /\ \A d \in Cache, b \in Table!Bucket : InBucket(d, b)' = InBucket(d, b)
    BY <2>1, <2>2, <2>9, TakeFirstKeeps
  <2>11. place[o] = "free" /\ o[1] = p
    BY <2>10 DEF FreeOf, ObjectsOf
  <2> QED BY <2>1, <2>2, <2>10, <2>11
<1> QED BY <1>2, <1>3

\* slab_cache_free of a private object: it joins the free list of its slab, which
\* stays in its list, moves from the full to the partial ones, or is given back.
LEMMA ReleaseKeeps ==
    ASSUME IInv, NEW c \in Cache, NEW o \in Obj, Release(c, o)
    PROVE  /\ IInv'
           /\ \A q \in Page : slab'[q].cache = slab[q].cache
           /\ \A d \in Cache, b \in Table!Bucket : InBucket(d, b)' = InBucket(d, b)
<1>1. /\ Types /\ Links(Page, SlabLink) /\ Links(Obj, word) /\ ListsInv /\ BucketsInv /\ PlacesInv
      /\ slab \in [Page -> SlabHeader] /\ full \in [Cache -> Page \cup {Null}]
      /\ partial \in [Cache -> Page \cup {Null}] /\ pages \subseteq Page /\ returns \in BOOLEAN
      /\ place \in [Obj -> {"free", "private", "table"}] /\ word \in [Obj -> Obj \cup {Null}]
  BY TypedLinks DEF IInv, Types, SlabTypeOK
<1> DEFINE p == o[1]
           n == slab[p].freeCount
           F == FreeOf(p)
<1>2. /\ place[o] = "private" /\ slab[p].cache = c /\ SlabFree(c, o)
      /\ place' = [place EXCEPT ![o] = "free"] /\ UNCHANGED <<heads, items, key>>
  BY DEF Release
<1>3. /\ p \in Page /\ p \notin pages /\ o \notin F /\ o \in ObjectsOf(p)
      /\ SlabInv(p) /\ slab[p] \in SlabHeader /\ PerSlab \in Nat \ {0}
  BY <1>1, <1>2, ObjFacts DEF PlacesInv, FreeOf, ObjectsOf, IInv
<1>4. n \in 0 .. PerSlab /\ slab[p].freeList \in Obj \cup {Null} /\ slab[p].next \in Page \cup {Null}
  BY <1>3 DEF SlabHeader
<1>5. /\ Listed(Obj, word, slab[p].freeList, F) /\ n = Cardinality(F)
      /\ (returns => n < PerSlab) /\ IsFiniteSet(F)
  BY <1>1, <1>3, ListedNodes DEF SlabInv
<1>6. n + 1 <= PerSlab /\ (n + 1 = PerSlab => F \cup {o} = ObjectsOf(p))
  <2>1. Cardinality(F \cup {o}) = n + 1
    BY <1>3, <1>5, FS_AddElement
  <2>2. F \cup {o} \in SUBSET ObjectsOf(p)
    BY <1>3 DEF FreeOf
  <2>3. IsFiniteSet(ObjectsOf(p)) /\ Cardinality(ObjectsOf(p)) = PerSlab
    BY <1>3, ObjectsOfPage
  <2>4. /\ Cardinality(F \cup {o}) <= Cardinality(ObjectsOf(p))
        /\ Cardinality(ObjectsOf(p)) = Cardinality(F \cup {o}) => ObjectsOf(p) = F \cup {o}
    BY <2>2, <2>3, FS_Subset
  <2> QED BY <2>1, <2>3, <2>4
<1> DEFINE wasFull == n = 0
           away == returns /\ n + 1 = PerSlab
           list == IF wasFull THEN full[c] ELSE partial[c]
           S == IF wasFull THEN FullOf(c) ELSE PartialOf(c)
           cut == wasFull \/ away
           out == IF cut THEN Unlinked(list, p) ELSE [head |-> list, slab |-> slab]
           OL == [x \in Page |-> out.slab[x].next]
<1>7. /\ Listed(Page, SlabLink, full[c], FullOf(c)) /\ Listed(Page, SlabLink, partial[c], PartialOf(c))
      /\ Listed(Page, SlabLink, list, S) /\ p \in S
      /\ FullOf(c) \cap PartialOf(c) = {}
      /\ S \subseteq Page /\ S \subseteq FullOf(c) \cup PartialOf(c)
  <2>1. Listed(Page, SlabLink, full[c], FullOf(c)) /\ Listed(Page, SlabLink, partial[c], PartialOf(c))
    BY <1>1 DEF ListsInv
  <2>2. p \in S
    BY <1>2, <1>3, <1>4 DEF FullOf, PartialOf
  <2>3. FullOf(c) \cap PartialOf(c) = {} /\ FullOf(c) \subseteq Page /\ PartialOf(c) \subseteq Page
    BY DEF FullOf, PartialOf
  <2> HIDE DEF n
  <2> QED BY <2>1, <2>2, <2>3
<1> HIDE DEF p, n, F, list, S
<1>8. /\ out.slab \in [Page -> SlabHeader] /\ out.head \in Page \cup {Null}
      /\ \A x \in Page : /\ out.slab[x].cache = slab[x].cache
                         /\ out.slab[x].freeList = slab[x].freeList
                         /\ out.slab[x].freeCount = slab[x].freeCount
                         /\ (x \notin S \ {p} => out.slab[x] = slab[x])
      /\ cut => Listed(Page, OL, out.head, S \ {p})
      /\ ~cut => out.head = list /\ out.slab = slab
  <2>1. CASE cut
    <3>1. out = Unlinked(list, p)
      BY <2>1
    <3> HIDE DEF out, cut
    <3>2. IsUnlinked(out, S, p)
      BY <1>1, <1>7, <3>1, UnlinkedListed
    <3> QED BY <2>1, <3>2 DEF IsUnlinked
  <2>2. CASE ~cut
    <3>1. out = [head |-> list, slab |-> slab]
      BY <2>2
    <3>2. list \in Page \cup {Null}
      BY <1>1 DEF list
    <3> HIDE DEF out, cut
    <3> QED BY <1>1, <2>2, <3>1, <3>2
  <2> QED BY <2>1, <2>2
<1> DEFINE freed == [out.slab[p] EXCEPT !.freeList = o, !.freeCount = @ + 1]
           hp == IF wasFull /\ ~away THEN [freed EXCEPT !.next = partial[c]] ELSE freed
<1>9. /\ word' = [word EXCEPT ![o] = slab[p].freeList]
      /\ pages' = IF away THEN pages \cup {p} ELSE pages
      /\ full' = IF wasFull THEN [full EXCEPT ![c] = out.head] ELSE full
      /\ slab' = [out.slab EXCEPT ![p] = hp]
      /\ partial' = [partial EXCEPT ![c] = IF wasFull THEN IF away THEN @ ELSE p ELSE out.head]
      /\ UNCHANGED returns
  BY <1>2, Zenon DEF SlabFree, p, n, list
<1>10. out.slab[p] = slab[p]
  BY <1>3, <1>8
<1> HIDE DEF out
<1>11. /\ hp \in SlabHeader /\ hp.cache = c /\ hp.freeList = o /\ hp.freeCount = n + 1
       /\ hp.next = IF wasFull /\ ~away THEN partial[c] ELSE slab[p].next
  <2>1. freed = [slab[p] EXCEPT !.freeList = o, !.freeCount = n + 1]
    BY <1>10, <1>3 DEF n, SlabHeader
  <2>2. n + 1 \in 0 .. PerSlab /\ partial[c] \in Page \cup {Null}
    BY <1>1, <1>4, <1>6
  <2> HIDE DEF wasFull, away, freed
  <2> QED BY <1>2, <1>3, <2>1, <2>2 DEF SlabHeader, p
<1> HIDE DEF freed, hp
<1>12. /\ \A x \in Page : slab'[x] = IF x = p THEN hp ELSE out.slab[x]
       /\ \A x \in Page : SlabLink'[x] = IF x = p THEN hp.next ELSE OL[x]
       /\ \A x \in Page \ S : x # p => SlabLink'[x] = SlabLink[x] /\ slab'[x] = slab[x]
       /\ \A x \in Obj : /\ place'[x] = IF x = o THEN "free" ELSE place[x]
                         /\ word'[x] = IF x = o THEN slab[p].freeList ELSE word[x]
  <2>1. \A x \in Page : slab'[x] = IF x = p THEN hp ELSE out.slab[x]
    BY <1>3, <1>8, <1>9
  <2>2. \A x \in Obj : /\ place'[x] = IF x = o THEN "free" ELSE place[x]
                       /\ word'[x] = IF x = o THEN slab[p].freeList ELSE word[x]
    BY <1>1, <1>2, <1>9
  <2>3. \A x \in Page \ S : x # p => slab'[x] = slab[x]
    BY <1>8, <2>1
  <2> QED BY <2>1, <2>2, <2>3 DEF SlabLink
<1>13. \A x \in Page : slab'[x].cache = slab[x].cache
  BY <1>2, <1>8, <1>11, <1>12 DEF p
<1>14. Types'
  <2>1. slab' \in [Page -> SlabHeader]
    BY <1>8, <1>9, <1>11
  <2>2. /\ full' \in [Cache -> Page \cup {Null}] /\ partial' \in [Cache -> Page \cup {Null}]
        /\ pages' \subseteq Page /\ returns' \in BOOLEAN
        /\ place' \in [Obj -> {"free", "private", "table"}]
    BY <1>1, <1>2, <1>3, <1>8, <1>9
  <2>3. word' \in [Obj -> Obj \cup {Null}]
    BY <1>1, <1>4, <1>9
  <2>4. SlabTypeOK'
    BY <2>1, <2>2, <2>3 DEF SlabTypeOK
  <2> QED BY <1>1, <1>2, <2>2, <2>4 DEF Types, Table!Bucket
<1>15. Links(Page, SlabLink') /\ Links(Obj, word')
  <2>1. Links(Page, SlabLink)' /\ Links(Obj, word)'
    BY <1>14, ObjFacts, SlabAssumption DEF Types, SlabTypeOK, SlabHeader, SlabLink, Links
  <2> QED BY <2>1
<1>16. ASSUME NEW d \in Cache
       PROVE  /\ FullOf(d)' = FullOf(d) \ {p}
              /\ PartialOf(d)' = IF d = c /\ ~away THEN PartialOf(d) \cup {p} ELSE PartialOf(d) \ {p}
              /\ d # c => /\ p \notin FullOf(d) /\ p \notin PartialOf(d)
                          /\ S \cap FullOf(d) = {} /\ S \cap PartialOf(d) = {}
  <2>1. d # c => /\ p \notin FullOf(d) /\ p \notin PartialOf(d)
                 /\ S \cap FullOf(d) = {} /\ S \cap PartialOf(d) = {}
    BY <1>2 DEF FullOf, PartialOf, S, p
  <2>2. \A q \in Page : slab'[q].freeCount = IF q = p THEN n + 1 ELSE slab[q].freeCount
    BY <1>8, <1>11, <1>12
  <2>3. \A q \in Page : q \notin pages' <=> q \notin pages /\ ~(away /\ q = p)
    BY <1>9
  <2>4. \A q \in Page : q # p => (q \in FullOf(d)' <=> q \in FullOf(d))
                                 /\ (q \in PartialOf(d)' <=> q \in PartialOf(d))
    BY <1>13, <2>2, <2>3 DEF FullOf, PartialOf
  <2>5. p \notin FullOf(d)'
    BY <1>3, <1>4, <2>2 DEF FullOf
  <2>6. p \in PartialOf(d)' <=> d = c /\ ~away
    <3>1. slab'[p].cache = c /\ slab'[p].freeCount > 0
      BY <1>3, <1>4, <1>11, <1>12
    <3> QED BY <1>3, <2>3, <3>1 DEF PartialOf
  <2>7. /\ FullOf(d) \subseteq Page /\ FullOf(d)' \subseteq Page
        /\ PartialOf(d) \subseteq Page /\ PartialOf(d)' \subseteq Page
    BY DEF FullOf, PartialOf
  <2> HIDE DEF FullOf, PartialOf, away
  <2> QED BY <2>1, <2>4, <2>5, <2>6, <2>7
<1>17. ASSUME NEW d \in Cache
       PROVE  /\ Listed(Page, SlabLink', full'[d], FullOf(d)')
              /\ Listed(Page, SlabLink', partial'[d], PartialOf(d)')
  <2>1. Listed(Page, SlabLink, full[d], FullOf(d)) /\ Listed(Page, SlabLink, partial[d], PartialOf(d))
    BY <1>1 DEF ListsInv
  <2>2. FullOf(d) \subseteq Page /\ PartialOf(d) \subseteq Page
    BY DEF FullOf, PartialOf
  <2>3. CASE d # c
    <3>1. \A x \in FullOf(d) : SlabLink'[x] = SlabLink[x]
      BY <1>12, <1>16, <2>2, <2>3
    <3>2. \A x \in PartialOf(d) : SlabLink'[x] = SlabLink[x]
      BY <1>12, <1>16, <2>2, <2>3
    <3>3. Listed(Page, SlabLink', full[d], FullOf(d)) /\ Listed(Page, SlabLink', partial[d], PartialOf(d))
      BY <1>15, <2>1, <3>1, <3>2, ListedFrame
    <3>4. full'[d] = full[d] /\ partial'[d] = partial[d]
      BY <1>1, <1>9, <2>3
    <3>5. FullOf(d)' = FullOf(d) /\ PartialOf(d)' = PartialOf(d)
      BY <1>16, <2>3
    <3> QED BY <3>3, <3>4, <3>5
  <2>4. CASE d = c /\ cut
    <3>1. \A x \in S \ {p} : SlabLink'[x] = OL[x]
      BY <1>7, <1>12
    <3>2. Listed(Page, SlabLink', out.head, S \ {p})
      BY <1>8, <1>15, <2>4, <3>1, ListedFrame
    <3>3. CASE wasFull
      <4>1. S = FullOf(c) /\ full'[c] = out.head
        BY <1>1, <1>9, <3>3 DEF S
      <4>2. p \notin PartialOf(c) /\ \A x \in PartialOf(c) : SlabLink'[x] = SlabLink[x]
        BY <1>7, <1>12, <2>2, <2>4, <4>1
      <4>3. CASE away
        <5>1. partial'[c] = partial[c] /\ PartialOf(c)' = PartialOf(c)
          <6>1. PartialOf(c)' = PartialOf(c) \ {p}
            BY <1>16, <4>3
          <6>2. partial'[c] = partial[c]
            BY <1>1, <1>9, <3>3, <4>3
          <6> QED BY <4>2, <6>1, <6>2
        <5>2. Listed(Page, SlabLink', partial[c], PartialOf(c))
          BY <1>7, <1>15, <4>2, ListedFrame
        <5> QED BY <1>16, <2>4, <3>2, <4>1, <5>1, <5>2
      <4>4. CASE ~away
        <5>1. partial'[c] = p /\ PartialOf(c)' = PartialOf(c) \cup {p} /\ SlabLink'[p] = partial[c]
          BY <1>1, <1>3, <1>9, <1>11, <1>12, <1>16, <3>3, <4>4
        <5>2. p \in Page \ PartialOf(c)
          BY <1>3, <4>2
        <5>3. Listed(Page, SlabLink', p, PartialOf(c) \cup {p})
          BY <1>7, <1>15, <4>2, <5>1, <5>2, ListedPush
        <5> QED BY <1>16, <2>4, <3>2, <4>1, <5>1, <5>3
      <4> QED BY <4>3, <4>4
    <3>4. CASE ~wasFull
      <4>1. S = PartialOf(c) /\ full'[c] = full[c] /\ partial'[c] = out.head
        BY <1>1, <1>9, <3>4 DEF S
      <4>2. p \notin FullOf(c) /\ \A x \in FullOf(c) : SlabLink'[x] = SlabLink[x]
        BY <1>7, <1>12, <2>2, <2>4, <4>1
      <4>3. Listed(Page, SlabLink', full[c], FullOf(c))
        BY <1>7, <1>15, <4>2, ListedFrame
      <4>4. FullOf(c)' = FullOf(c) /\ PartialOf(c)' = PartialOf(c) \ {p}
        BY <1>16, <2>4, <3>4, <4>2
      <4> QED BY <2>4, <3>2, <4>1, <4>3, <4>4
    <3> QED BY <3>3, <3>4
  <2>5. CASE d = c /\ ~cut
    <3>1. /\ S = PartialOf(c) /\ list = partial[c] /\ full'[c] = full[c]
          /\ partial'[c] = partial[c] /\ out.slab = slab
      BY <1>1, <1>8, <1>9, <2>5 DEF S, list
    <3>2. \A x \in Page : SlabLink'[x] = SlabLink[x]
      <4>1. hp.next = slab[p].next
        BY <1>11, <2>5
      <4> QED BY <1>12, <3>1, <4>1 DEF SlabLink
    <3>3. Listed(Page, SlabLink', full[c], FullOf(c)) /\ Listed(Page, SlabLink', partial[c], PartialOf(c))
      BY <1>7, <1>15, <2>2, <2>5, <3>2, ListedFrame
    <3>4. FullOf(c)' = FullOf(c) /\ PartialOf(c)' = PartialOf(c)
      BY <1>7, <1>16, <2>5, <3>1
    <3> QED BY <2>5, <3>1, <3>3, <3>4
  <2> HIDE DEF cut
  <2> QED BY <2>3, <2>4, <2>5
<1>18. ListsInv'
  BY <1>17 DEF ListsInv
<1>19. ASSUME NEW q \in Page, q \notin pages' PROVE SlabInv(q)'
  <2>1. CASE q = p
    <3>1. FreeOf(q)' = F \cup {o}
      BY <1>3, <1>12, <2>1 DEF FreeOf, F, ObjectsOf
    <3>2. slab'[q] = hp /\ ~away
      BY <1>9, <1>12, <1>19, <2>1
    <3>3. o \in Obj \ F /\ word'[o] = slab[p].freeList /\ \A x \in F : word'[x] = word[x]
      BY <1>3, <1>12 DEF F, FreeOf, ObjectsOf
    <3>4. Listed(Obj, word', o, F \cup {o})
      BY <1>5, <1>15, <3>3, ListedPush
    <3>5. Cardinality(F \cup {o}) = n + 1
      BY <1>3, <1>5, FS_AddElement
    <3>6. returns' => n + 1 < PerSlab
      BY <1>3, <1>4, <1>6, <1>9, <3>2
    <3> QED BY <1>11, <3>1, <3>2, <3>4, <3>5, <3>6 DEF SlabInv
  <2>2. CASE q # p
    <3>1. SlabInv(q)
      BY <1>9, <1>19, <2>2 DEF IInv
    <3>2. FreeOf(q)' = FreeOf(q) /\ o \notin FreeOf(q)
      BY <1>12, <2>2 DEF FreeOf, ObjectsOf, p
    <3>3. \A x \in FreeOf(q) : word'[x] = word[x]
      BY <1>12, <3>2 DEF FreeOf, ObjectsOf
    <3>4. Listed(Obj, word', slab[q].freeList, FreeOf(q))
      BY <1>15, <3>1, <3>3, ListedFrame DEF SlabInv
    <3>5. /\ slab'[q].cache = slab[q].cache /\ slab'[q].freeList = slab[q].freeList
          /\ slab'[q].freeCount = slab[q].freeCount
      BY <1>8, <1>12, <2>2
    <3> QED BY <1>9, <3>1, <3>2, <3>4, <3>5 DEF SlabInv
  <2> QED BY <2>1, <2>2
<1>20. ASSUME NEW d \in Cache, NEW b \in Table!Bucket
       PROVE  /\ Listed(Obj, word', heads'[d][b], Tabled(d, b)')
              /\ Nodes(word', heads'[d][b]) = Nodes(word, heads[d][b])
  <2>1. Tabled(d, b)' = Tabled(d, b)
    <3>1. \A x \in Obj : place'[x] = "table" <=> place[x] = "table"
      BY <1>2, <1>12
    <3>2. \A x \in Obj : slab'[x[1]].cache = slab[x[1]].cache
      BY <1>13, ObjFacts
    <3> QED BY <1>2, <3>1, <3>2 DEF Tabled
  <2>2. \A x \in Tabled(d, b) : word'[x] = word[x]
    BY <1>2, <1>12 DEF Tabled
  <2>3. Listed(Obj, word, heads[d][b], Tabled(d, b))
    BY <1>1 DEF BucketsInv
  <2>4. Listed(Obj, word', heads[d][b], Tabled(d, b))
        /\ Nodes(word', heads[d][b]) = Nodes(word, heads[d][b])
    BY <1>15, <2>2, <2>3, ListedFrame
  <2> QED BY <1>2, <2>1, <2>4
<1>21. BucketsInv'
  BY <1>20 DEF BucketsInv, Table!Bucket
<1>22. PlacesInv'
  <2> SUFFICES ASSUME NEW x \in Obj
               PROVE  /\ place'[x] # "free" => x[1] \notin pages'
                      /\ place'[x] = "table" => key'[x] \in Key
    BY DEF PlacesInv
  <2>1. place'[x] = "table" => key'[x] \in Key
    BY <1>1, <1>2, <1>12 DEF PlacesInv
  <2>2. ASSUME place'[x] # "free", x[1] \in pages' PROVE FALSE
    <3>1. x # o /\ place[x] # "free" /\ x[1] \notin pages
      BY <1>1, <1>12, <2>2 DEF PlacesInv
    <3>2. away /\ x[1] = p
      BY <1>9, <2>2, <3>1
    <3>3. x \in ObjectsOf(p) /\ x \notin F
      BY <3>1, <3>2 DEF ObjectsOf, FreeOf, F
    <3> QED BY <1>6, <3>1, <3>2, <3>3
  <2> QED BY <2>1, <2>2
<1>23. ASSUME NEW q \in (Page \ pages)' PROVE SlabInv(q)'
  BY <1>19
<1> QED BY <1>13, <1>14, <1>18, <1>20, <1>21, <1>22, <1>23 DEF IInv, InBucket

-----------------------------------------------------------------------------
(* Every step keeps the invariant, which gives the properties. *)

\* Every list is empty at first.
LEMMA ObjectsInit == Init => IInv
<1> SUFFICES ASSUME Init PROVE IInv
  OBVIOUS
<1>1. /\ word = [o \in Obj |-> Null]
      /\ slab = [p \in Page |-> [next |-> Null, cache |-> Null,
                                 freeList |-> Null, freeCount |-> 0]]
      /\ full = [c \in Cache |-> Null] /\ partial = [c \in Cache |-> Null]
      /\ pages = Page /\ returns \in BOOLEAN
      /\ heads = [c \in Cache |-> [b \in Table!Bucket |-> Null]]
      /\ place = [o \in Obj |-> "free"] /\ key = [o \in Obj |-> Null]
  BY DEF Init, SlabInit
<1>2. Types
  <2>1. slab \in [Page -> SlabHeader]
    BY <1>1, ObjFacts DEF SlabHeader
  <2> QED BY <1>1, <2>1 DEF Types, SlabTypeOK
<1>3. Links(Page, SlabLink) /\ Links(Obj, word)
  BY <1>2, TypedLinks
<1>4. ListsInv
  <2> SUFFICES ASSUME NEW c \in Cache
               PROVE  /\ Listed(Page, SlabLink, full[c], FullOf(c))
                      /\ Listed(Page, SlabLink, partial[c], PartialOf(c))
    BY DEF ListsInv
  <2>1. FullOf(c) = {} /\ PartialOf(c) = {} /\ full[c] = Null /\ partial[c] = Null
    BY <1>1 DEF FullOf, PartialOf
  <2> QED BY <1>3, <2>1, ListedNone
<1>5. BucketsInv
  <2> SUFFICES ASSUME NEW c \in Cache, NEW b \in Table!Bucket
               PROVE  Listed(Obj, word, heads[c][b], Tabled(c, b))
    BY DEF BucketsInv
  <2>1. Tabled(c, b) = {} /\ heads[c][b] = Null
    BY <1>1 DEF Tabled
  <2> QED BY <1>3, <2>1, ListedNone
<1>6. PlacesInv
  BY <1>1 DEF PlacesInv
<1> QED BY <1>1, <1>2, <1>4, <1>5, <1>6 DEF IInv

\* A step that changes nothing, the buckets among it.
LEMMA ObjectsStutter ==
    ASSUME IInv, UNCHANGED vars
    PROVE  /\ IInv'
           /\ \A d \in Cache, b \in Table!Bucket : InBucket(d, b)' = InBucket(d, b)
<1>1. UNCHANGED <<word, slab, full, partial, pages, returns, heads, place, key>>
  BY DEF vars, slabVars, objectVars
<1>2. Types'
  BY <1>1 DEF IInv, Types, SlabTypeOK
<1>3. SlabLink' = SlabLink
  BY <1>1 DEF SlabLink
<1>4. ListsInv'
  <2>1. \A c \in Cache : FullOf(c)' = FullOf(c) /\ PartialOf(c)' = PartialOf(c)
    BY <1>1 DEF FullOf, PartialOf
  <2> QED BY <1>1, <1>3, <2>1 DEF IInv, ListsInv
<1>5. \A p \in Page \ pages : SlabInv(p)'
  <2>1. \A p \in Page : FreeOf(p)' = FreeOf(p)
    BY <1>1 DEF FreeOf, ObjectsOf
  <2> QED BY <1>1, <2>1 DEF IInv, SlabInv
<1>6. BucketsInv'
  <2>1. \A c \in Cache, b \in Table!Bucket : Tabled(c, b)' = Tabled(c, b)
    BY <1>1 DEF Tabled
  <2> QED BY <1>1, <2>1 DEF IInv, BucketsInv
<1>7. PlacesInv'
  BY <1>1 DEF IInv, PlacesInv
<1>8. IInv'
  BY <1>1, <1>2, <1>4, <1>5, <1>6, <1>7 DEF IInv
<1> QED BY <1>1, <1>8 DEF InBucket

\* The invariant is inductive.
LEMMA ObjectsStep == IInv /\ [Next]_vars => IInv'
<1> SUFFICES ASSUME IInv, [Next]_vars PROVE IInv'
  OBVIOUS
<1>1. ASSUME NEW c \in Cache, Allocate(c) PROVE IInv'
  BY <1>1, AllocateKeeps DEF Allocate
<1>2. ASSUME NEW c \in Cache, NEW o \in Obj, NEW k \in Key, Enter(c, o, k) PROVE IInv'
  BY <1>2, EnterKeeps
<1>3. ASSUME NEW c \in Cache, NEW k \in Key, TakeOut(c, k) PROVE IInv'
  BY <1>3, TakeOutKeeps
<1>4. ASSUME NEW c \in Cache, NEW o \in Obj, Release(c, o) PROVE IInv'
  BY <1>4, ReleaseKeeps
<1>5. CASE UNCHANGED vars
  BY <1>5, ObjectsStutter
<1> QED BY <1>1, <1>2, <1>3, <1>4, <1>5 DEF Next

LEMMA ObjectsInvariant == Spec => []IInv
BY ObjectsInit, ObjectsStep, PTL DEF Spec

-----------------------------------------------------------------------------
\* The elements of two sequences in one.
LEMMA ConcatElements ==
    ASSUME NEW T, NEW s \in Seq(T), NEW t \in Seq(T)
    PROVE  ToSet(s \o t) = ToSet(s) \cup ToSet(t)
<1>1. PICK m \in Nat, n \in Nat : m = Len(s) /\ n = Len(t)
  BY LenProperties
<1> DEFINE u == s \o t
<1>2. /\ u \in Seq(T) /\ Len(u) = m + n
      /\ \A i \in 1 .. m + n : u[i] = IF i <= m THEN s[i] ELSE t[i - m]
  BY <1>1, ConcatProperties
<1> HIDE DEF u
<1>3. DOMAIN u = 1 .. m + n /\ DOMAIN s = 1 .. m /\ DOMAIN t = 1 .. n
  BY <1>1, <1>2
<1>4. ASSUME NEW x \in ToSet(u) PROVE x \in ToSet(s) \cup ToSet(t)
  <2>1. PICK i \in 1 .. m + n : x = u[i]
    BY <1>3 DEF ToSet
  <2>2. CASE i <= m
    BY <1>1, <1>2, <1>3, <2>1, <2>2 DEF ToSet
  <2>3. CASE i > m
    <3>1. i - m \in 1 .. n /\ x = t[i - m]
      BY <1>1, <1>2, <2>1, <2>3
    <3> QED BY <1>3, <3>1 DEF ToSet
  <2> QED BY <2>2, <2>3
<1>5. ASSUME NEW x \in ToSet(s) PROVE x \in ToSet(u)
  <2>1. PICK i \in 1 .. m : x = s[i]
    BY <1>3 DEF ToSet
  <2>2. i \in 1 .. m + n /\ u[i] = s[i]
    BY <1>2
  <2> QED BY <1>3, <2>1, <2>2 DEF ToSet
<1>6. ASSUME NEW x \in ToSet(t) PROVE x \in ToSet(u)
  <2>1. PICK i \in 1 .. n : x = t[i]
    BY <1>3 DEF ToSet
  <2>2. i + m \in 1 .. m + n /\ u[i + m] = t[i]
    BY <1>2
  <2> QED BY <1>3, <2>1, <2>2 DEF ToSet
<1> QED BY <1>4, <1>5, <1>6 DEF u

\* The walk over the free objects of a slab.
LEMMA FreeChain ==
    ASSUME IInv, NEW p \in Page \ pages
    PROVE  /\ Ends(FreeObjects(p)) /\ ToSet(FreeObjects(p)) = FreeOf(p) \cup {Null}
           /\ IsInjective(Front(FreeObjects(p)))
           /\ Len(Front(FreeObjects(p))) = slab[p].freeCount
           /\ ToSet(Front(FreeObjects(p))) = FreeOf(p)
<1>1. Links(Obj, word) /\ SlabInv(p)
  BY TypedLinks DEF IInv
<1>2. Listed(Obj, word, slab[p].freeList, FreeOf(p)) /\ slab[p].freeCount = Cardinality(FreeOf(p))
  BY <1>1 DEF SlabInv
<1>3. /\ Ends(Chain(word, slab[p].freeList))
      /\ ToSet(Chain(word, slab[p].freeList)) = FreeOf(p) \cup {Null}
  BY <1>1, <1>2, ListedChain
<1>4. /\ IsInjective(Nodes(word, slab[p].freeList))
      /\ ToSet(Nodes(word, slab[p].freeList)) = FreeOf(p)
      /\ Cardinality(FreeOf(p)) = Len(Nodes(word, slab[p].freeList))
  BY <1>1, <1>2, ListedNodes
<1> QED BY <1>2, <1>3, <1>4 DEF FreeObjects, Nodes

\* The walks over the slabs of a cache.
LEMMA SlabChains ==
    ASSUME IInv, NEW c \in Cache
    PROVE  /\ Ends(Slabs(full[c])) /\ ToSet(Slabs(full[c])) = FullOf(c) \cup {Null}
           /\ Ends(Slabs(partial[c])) /\ ToSet(Slabs(partial[c])) = PartialOf(c) \cup {Null}
           /\ ToSet(Slabs(full[c]) \o Slabs(partial[c])) = FullOf(c) \cup PartialOf(c) \cup {Null}
<1>1. /\ Links(Page, SlabLink)
      /\ Listed(Page, SlabLink, full[c], FullOf(c)) /\ Listed(Page, SlabLink, partial[c], PartialOf(c))
  BY TypedLinks DEF IInv, ListsInv
<1> DEFINE f == Slabs(full[c])
           q == Slabs(partial[c])
           T == Page \cup {Null}
<1>2. Ends(f) /\ ToSet(f) = FullOf(c) \cup {Null} /\ Ends(q) /\ ToSet(q) = PartialOf(c) \cup {Null}
  BY <1>1, ListedChain DEF Slabs
<1>3. f \in Seq(T) /\ q \in Seq(T)
  <2>1. /\ f = Append(Nodes(SlabLink, full[c]), Null)
        /\ q = Append(Nodes(SlabLink, partial[c]), Null)
    BY <1>1 DEF Slabs, Listed
  <2>2. Nodes(SlabLink, full[c]) \in Seq(Page) /\ Nodes(SlabLink, partial[c]) \in Seq(Page)
    BY <1>1, ListedNodes
  <2> HIDE DEF f, q
  <2>3. Nodes(SlabLink, full[c]) \in Seq(T) /\ Nodes(SlabLink, partial[c]) \in Seq(T)
    BY <2>2
  <2> QED BY <2>1, <2>3, AppendElements
<1>4. ToSet(f \o q) = ToSet(f) \cup ToSet(q)
  <2> HIDE DEF f, q, T
  <2> QED BY <1>3, ConcatElements
<1> QED BY <1>2, <1>4

\* Every slab is in the one list of its cache that its counter calls for, and its
\* free objects are chained once each and counted, whatever the sequence of
\* slab_cache_alloc and slab_cache_free.
THEOREM SlabsExactAlways == Spec => []SlabsExact
<1>1. IInv => SlabsExact
  <2> SUFFICES ASSUME IInv PROVE SlabsExact
    OBVIOUS
  <2>1. ASSUME NEW c \in Cache
        PROVE  /\ Ends(Slabs(full[c])) /\ Ends(Slabs(partial[c]))
               /\ \A p \in ToSet(Slabs(full[c])) \ {Null} :
                    slab[p].cache = c /\ p \notin pages /\ slab[p].freeCount = 0
               /\ \A p \in ToSet(Slabs(partial[c])) \ {Null} :
                    /\ slab[p].cache = c /\ p \notin pages
                    /\ slab[p].freeCount > 0
                    /\ returns => slab[p].freeCount < PerSlab
    <3>1. ToSet(Slabs(full[c])) \ {Null} = FullOf(c) /\ ToSet(Slabs(partial[c])) \ {Null} = PartialOf(c)
      BY SlabChains, ObjFacts DEF FullOf, PartialOf
    <3>2. \A p \in PartialOf(c) : returns => slab[p].freeCount < PerSlab
      BY DEF PartialOf, IInv, SlabInv
    <3> QED BY <3>1, <3>2, SlabChains DEF FullOf, PartialOf
  <2>2. ASSUME NEW p \in Page \ pages
        PROVE  LET c == slab[p].cache
                   free == Front(FreeObjects(p))
               IN  /\ c \in Cache /\ p \in ToSet(Slabs(full[c]) \o Slabs(partial[c]))
                   /\ Ends(FreeObjects(p)) /\ IsInjective(free)
                   /\ Len(free) = slab[p].freeCount
                   /\ \A o \in ToSet(free) : o[1] = p
    <3> DEFINE c == slab[p].cache
    <3>1. c \in Cache /\ slab[p].freeCount \in Nat
      BY DEF IInv, SlabInv, Types, SlabTypeOK, SlabHeader
    <3>2. p \in FullOf(c) \cup PartialOf(c)
      BY <3>1 DEF FullOf, PartialOf
    <3>3. p \in ToSet(Slabs(full[c]) \o Slabs(partial[c]))
      BY <3>1, <3>2, SlabChains
    <3>4. \A o \in ToSet(Front(FreeObjects(p))) : o[1] = p
      BY FreeChain DEF FreeOf, ObjectsOf
    <3> QED BY <3>1, <3>3, <3>4, FreeChain
  <2> QED BY <2>1, <2>2 DEF SlabsExact
<1> QED BY <1>1, ObjectsInvariant, PTL

\* An object's first word serves one list at a time: every bucket holds, once each,
\* the objects hashtable_add put there and hashtable_remove left, and the rest are
\* free or in use.
THEOREM BucketsExactAlways == Spec => []BucketsExact
<1>1. IInv => BucketsExact
  <2> SUFFICES ASSUME IInv PROVE BucketsExact
    OBVIOUS
  <2>1. Links(Obj, word) /\ PlacesInv /\ Types
    BY TypedLinks DEF IInv
  <2>2. ASSUME NEW c \in Cache, NEW b \in Table!Bucket
        PROVE  /\ Ends(BucketChain(c, b)) /\ IsInjective(BucketChain(c, b))
               /\ ToSet(Front(BucketChain(c, b))) = Tabled(c, b)
               /\ ToSet(BucketChain(c, b)) = Tabled(c, b) \cup {Null}
    <3>1. Listed(Obj, word, heads[c][b], Tabled(c, b))
      BY DEF IInv, BucketsInv
    <3>2. ToSet(Nodes(word, heads[c][b])) = Tabled(c, b)
      BY <2>1, <3>1, ListedNodes
    <3> QED BY <2>1, <3>1, <3>2, ListedChain DEF BucketChain, Nodes
  <2>3. ASSUME NEW c \in Cache, NEW b \in Table!Bucket
        PROVE  /\ Ends(BucketChain(c, b)) /\ IsInjective(BucketChain(c, b))
               /\ \A o \in ToSet(Front(BucketChain(c, b))) :
                    /\ place[o] = "table" /\ slab[o[1]].cache = c
                    /\ Table!IndexOf(key[o]) = b
    BY <2>2 DEF Tabled
  <2>4. ASSUME NEW o \in Obj, place[o] = "table"
        PROVE  o \in ToSet(ChainOf(slab[o[1]].cache, key[o]))
    <3>1. key[o] \in Key /\ o[1] \in Page \ pages
      BY <2>1, <2>4, ObjFacts DEF PlacesInv
    <3>2. slab[o[1]].cache \in Cache /\ Table!IndexOf(key[o]) \in Table!Bucket
      BY <3>1, IndexInRange DEF IInv, SlabInv
    <3>3. o \in Tabled(slab[o[1]].cache, Table!IndexOf(key[o]))
      BY <2>4 DEF Tabled
    <3> QED BY <2>2, <3>2, <3>3 DEF ChainOf
  <2> DEFINE free == UNION {ToSet(FreeObjects(p)) : p \in Page \ pages}
  <2>5. ASSUME NEW o \in Obj
        PROVE  place[o] = "free" <=> o[1] \in pages \/ o \in free
    <3>1. o \in free <=> \E p \in Page \ pages : o \in FreeOf(p)
      <4>1. \A p \in Page \ pages : o \in ToSet(FreeObjects(p)) <=> o \in FreeOf(p)
        BY FreeChain, ObjFacts
      <4> QED BY <4>1, ObjFacts
    <3> HIDE DEF free
    <3>2. (\E p \in Page \ pages : o \in FreeOf(p)) <=> o[1] \notin pages /\ place[o] = "free"
      BY ObjFacts DEF FreeOf, ObjectsOf
    <3>3. o[1] \in pages => place[o] = "free"
      BY <2>1 DEF PlacesInv
    <3> QED BY <3>1, <3>2, <3>3
  <2> HIDE DEF free
  <2> QED BY <2>3, <2>4, <2>5, Zenon DEF BucketsExact, free
<1> QED BY <1>1, ObjectsInvariant, PTL

-----------------------------------------------------------------------------
(* The links implement the store. *)

\* The objects entered under a key, as the bucket of the key holds them.
LEMMA EntriesListed ==
    ASSUME IInv, NEW c \in Cache, NEW k \in Key
    PROVE  /\ InBucket(c, Table!IndexOf(k)) \in Seq(Obj)
           /\ IsInjective(InBucket(c, Table!IndexOf(k)))
           /\ ToSet(InBucket(c, Table!IndexOf(k))) = Tabled(c, Table!IndexOf(k))
           /\ EntriesOf(c, k) = Chosen(InBucket(c, Table!IndexOf(k)), With(k))
           /\ EntriesOf(c, k) \in Seq(Obj)
           /\ \A i \in DOMAIN EntriesOf(c, k) : place[EntriesOf(c, k)[i]] = "table"
<1> DEFINE b == Table!IndexOf(k)
           s == InBucket(c, b)
           e == EntriesOf(c, k)
<1>1. s \in Seq(Obj) /\ IsInjective(s) /\ ToSet(s) = Tabled(c, b)
  <2>1. Links(Obj, word) /\ Listed(Obj, word, heads[c][b], Tabled(c, b))
    BY TypedLinks, IndexInRange DEF IInv, BucketsInv
  <2> HIDE DEF b
  <2> QED BY <2>1, ListedNodes DEF InBucket
<1>2. e = Chosen(s, With(k))
  BY DEF EntriesOf, ChainOf, BucketChain, InBucket, Nodes, With
<1> HIDE DEF s, e
<1>3. e \in Seq(Obj) /\ ToSet(e) = ToSet(s) \cap With(k)
  BY <1>1, <1>2, ChosenElements
<1>4. \A i \in DOMAIN e : e[i] \in ToSet(e)
  BY DEF ToSet
<1> QED BY <1>1, <1>2, <1>3, <1>4 DEF s, e, Tabled

\* ... and after a step.
LEMMA EntriesNext ==
    ASSUME NEW c \in Cache, NEW k \in Key
    PROVE  EntriesOf(c, k)' = Chosen(InBucket(c, Table!IndexOf(k))', With(k)')
BY DEF EntriesOf, ChainOf, BucketChain, InBucket, Nodes, With

-----------------------------------------------------------------------------
\* The steps of the store, cache by cache and key by key.
SameEntries == \A d \in Cache, j \in Key : EntriesOf(d, j)' = EntriesOf(d, j)

LEMMA StoreAllocates ==
    ASSUME NEW c \in Cache, NEW o \in Obj,
           \A d \in Cache : o \notin PrivateOf(d),
           \A d \in Cache, j \in Key : \A i \in DOMAIN EntriesOf(d, j) : EntriesOf(d, j)[i] # o,
           \A d \in Cache : PrivateOf(d)' = IF d = c THEN PrivateOf(d) \cup {o} ELSE PrivateOf(d),
           SameEntries
    PROVE  Promise!Next
<1>1. o \notin Promise!InUse
  BY DEF Promise!InUse, Promise!Entered
<1>2. Promise!Allocate(c)
  BY <1>1 DEF Promise!Allocate, SameEntries
<1> QED BY <1>2 DEF Promise!Next

LEMMA StoreReleases ==
    ASSUME NEW c \in Cache, NEW o \in PrivateOf(c),
           \A d \in Cache : PrivateOf(d)' = IF d = c THEN PrivateOf(d) \ {o} ELSE PrivateOf(d),
           SameEntries
    PROVE  Promise!Next
<1>1. Promise!Release(c)
  BY DEF Promise!Release, SameEntries
<1> QED BY <1>1 DEF Promise!Next

LEMMA StoreEnters ==
    ASSUME NEW c \in Cache, NEW k \in Key, NEW o \in PrivateOf(c),
           \A d \in Cache : PrivateOf(d)' = IF d = c THEN PrivateOf(d) \ {o} ELSE PrivateOf(d),
           \A d \in Cache, j \in Key :
             EntriesOf(d, j)' = IF d = c /\ j = k THEN << o >> \o EntriesOf(d, j) ELSE EntriesOf(d, j)
    PROVE  Promise!Next
<1> DEFINE P == [d \in Cache |-> PrivateOf(d)]
           E == [d \in Cache |-> [j \in Key |-> EntriesOf(d, j)]]
<1>1. P' = [P EXCEPT ![c] = @ \ {o}] /\ o \in P[c]
  OBVIOUS
<1>2. E' = [E EXCEPT ![c][k] = << o >> \o @]
  OBVIOUS
<1>3. Promise!Enter(c, k)
  BY <1>1, <1>2, Zenon DEF Promise!Enter
<1> QED BY <1>3 DEF Promise!Next

LEMMA StoreTakesOut ==
    ASSUME NEW c \in Cache, NEW k \in Key, NEW o, EntriesOf(c, k) # << >>, o = Head(EntriesOf(c, k)),
           \A d \in Cache : PrivateOf(d)' = IF d = c THEN PrivateOf(d) \cup {o} ELSE PrivateOf(d),
           \A d \in Cache, j \in Key :
             EntriesOf(d, j)' = IF d = c /\ j = k THEN Tail(EntriesOf(d, j)) ELSE EntriesOf(d, j)
    PROVE  Promise!Next
<1>1. Promise!TakeOut(c, k)
  BY DEF Promise!TakeOut
<1> QED BY <1>1 DEF Promise!Next

-----------------------------------------------------------------------------
\* The tables are empty at first, and nobody has an object.
LEMMA StoreInit == Init => Promise!Init
<1> SUFFICES ASSUME Init PROVE Promise!Init
  OBVIOUS
<1>1. IInv
  BY ObjectsInit
<1>2. \A c \in Cache : PrivateOf(c) = {}
  BY DEF Init, PrivateOf
<1>3. ASSUME NEW c \in Cache, NEW k \in Key PROVE EntriesOf(c, k) = << >>
  <2>1. EntriesOf(c, k) \in Seq(Obj) /\ \A i \in DOMAIN EntriesOf(c, k) : place[EntriesOf(c, k)[i]] = "table"
    BY <1>1, EntriesListed
  <2>2. \A i \in DOMAIN EntriesOf(c, k) : FALSE
    <3>1. \A i \in DOMAIN EntriesOf(c, k) : EntriesOf(c, k)[i] \in Obj
      BY <2>1
    <3> QED BY <2>1, <3>1 DEF Init
  <2> DEFINE e == EntriesOf(c, k)
  <2> HIDE DEF e
  <2>3. e \in Seq(Obj) /\ \A i \in DOMAIN e : FALSE
    BY <2>1, <2>2 DEF e
  <2>4. ToSet(e) = {}
    BY <2>3 DEF ToSet
  <2>5. e = << >>
    BY <2>3, <2>4, QueueElements
  <2> QED BY <2>5 DEF e
<1> QED BY <1>2, <1>3 DEF Promise!Init

\* What a look-up finds depends on the buckets and the keys only.
LEMMA SameKeys ==
    ASSUME UNCHANGED key,
           \A d \in Cache, b \in Table!Bucket : InBucket(d, b)' = InBucket(d, b),
           IInv
    PROVE  SameEntries
<1> SUFFICES ASSUME NEW d \in Cache, NEW j \in Key PROVE EntriesOf(d, j)' = EntriesOf(d, j)
  BY DEF SameEntries
<1>1. Table!IndexOf(j) \in Table!Bucket
  BY IndexInRange
<1>2. With(j)' = With(j)
  BY DEF With
<1>3. InBucket(d, Table!IndexOf(j))' = InBucket(d, Table!IndexOf(j))
  BY <1>1
<1> QED BY <1>2, <1>3, EntriesListed, EntriesNext

\* Every step of the links is the step of the store with its name.
LEMMA StoreStep == IInv /\ [Next]_vars => [Promise!Next]_(Promise!vars)
<1> SUFFICES ASSUME IInv, [Next]_vars PROVE [Promise!Next]_(Promise!vars)
  OBVIOUS
<1>t. /\ place \in [Obj -> {"free", "private", "table"}] /\ key \in [Obj -> Key \cup {Null}]
      /\ \A o \in Obj : o[1] \in Page /\ (place[o] # "free" => o[1] \notin pages)
  BY ObjFacts DEF IInv, Types, PlacesInv
<1>1. ASSUME NEW c \in Cache, Allocate(c) PROVE Promise!Next
  <2>1. PICK o \in Obj : SlabAlloc(c, o) /\ place' = [place EXCEPT ![o] = "private"]
                         /\ UNCHANGED <<heads, items, key>>
    BY <1>1 DEF Allocate
  <2>2. /\ place[o] = "free" /\ slab'[o[1]].cache = c
        /\ \A q \in Page \ pages : slab'[q].cache = slab[q].cache
        /\ \A d \in Cache, b \in Table!Bucket : InBucket(d, b)' = InBucket(d, b)
    BY <2>1, AllocateKeeps
  <2>3. SameEntries
    BY <2>1, <2>2, SameKeys
  <2>4. \A d \in Cache : o \notin PrivateOf(d)
    BY <2>2 DEF PrivateOf
  <2>5. \A d \in Cache, j \in Key : \A i \in DOMAIN EntriesOf(d, j) : EntriesOf(d, j)[i] # o
    BY <2>2, EntriesListed
  <2>6. ASSUME NEW d \in Cache
        PROVE  PrivateOf(d)' = IF d = c THEN PrivateOf(d) \cup {o} ELSE PrivateOf(d)
    <3>1. \A x \in Obj : place'[x] = IF x = o THEN "private" ELSE place[x]
      BY <1>t, <2>1
    <3>2. \A x \in Obj : place[x] = "private" => slab'[x[1]].cache = slab[x[1]].cache
      BY <1>t, <2>2
    <3> QED BY <2>2, <3>1, <3>2 DEF PrivateOf
  <2> QED BY <2>3, <2>4, <2>5, <2>6, StoreAllocates
<1>2. ASSUME NEW c \in Cache, NEW o \in Obj, NEW k \in Key, Enter(c, o, k) PROVE Promise!Next
  <2> DEFINE b0 == Table!IndexOf(k)
  <2>1. \A d \in Cache, b \in Table!Bucket :
          InBucket(d, b)' = IF d = c /\ b = b0 THEN << o >> \o InBucket(d, b) ELSE InBucket(d, b)
    BY <1>2, EnterKeeps
  <2>2. /\ place[o] = "private" /\ slab[o[1]].cache = c /\ UNCHANGED slab
        /\ \A x \in Obj : /\ place'[x] = IF x = o THEN "table" ELSE place[x]
                          /\ key'[x] = IF x = o THEN k ELSE key[x]
    BY <1>2, <1>t DEF Enter
  <2>3. o \in PrivateOf(c)
    BY <2>2 DEF PrivateOf
  <2>4. ASSUME NEW d \in Cache
        PROVE  PrivateOf(d)' = IF d = c THEN PrivateOf(d) \ {o} ELSE PrivateOf(d)
    BY <2>2 DEF PrivateOf
  <2>5. ASSUME NEW d \in Cache, NEW j \in Key
        PROVE  EntriesOf(d, j)' = IF d = c /\ j = k THEN << o >> \o EntriesOf(d, j) ELSE EntriesOf(d, j)
    <3> DEFINE b == Table!IndexOf(j)
               s == InBucket(d, b)
               K == With(j)
               L == With(j)'
    <3>1. /\ s \in Seq(Obj) /\ ToSet(s) = Tabled(d, b) /\ EntriesOf(d, j) = Chosen(s, K)
          /\ EntriesOf(d, j)' = Chosen(InBucket(d, b)', L) /\ b \in Table!Bucket
      BY EntriesListed, EntriesNext, IndexInRange
    <3>2. \A x \in ToSet(s) : x \in K <=> x \in L
      <4>1. \A x \in ToSet(s) : x \in Obj /\ x # o
        BY <2>2, <3>1 DEF Tabled
      <4>2. \A x \in Obj : x # o => (x \in K <=> x \in L)
        BY <2>2 DEF With
      <4> QED BY <4>1, <4>2
    <3>3. o \in L <=> j = k
      BY <2>2 DEF With
    <3>4. InBucket(d, b)' = IF d = c /\ b = b0 THEN << o >> \o s ELSE s
      BY <2>1, <3>1
    <3>5. j = k => b = b0
      OBVIOUS
    <3> HIDE DEF s, K, L, b, b0
    <3>6. Chosen(s, L) = Chosen(s, K)
      BY <3>1, <3>2, ChosenSame
    <3>7. Chosen(<< o >> \o s, L) = IF o \in L THEN << o >> \o Chosen(s, L) ELSE Chosen(s, L)
      BY <3>1, ChosenPush
    <3> QED BY <3>1, <3>3, <3>4, <3>5, <3>6, <3>7
  <2> QED BY <2>3, <2>4, <2>5, StoreEnters
<1>3. ASSUME NEW c \in Cache, NEW k \in Key, TakeOut(c, k) PROVE Promise!Next
  <2> DEFINE b0 == Table!IndexOf(k)
             o == Get(c, k)
             K0 == With(k)
  <2>1. /\ o \in Tabled(c, b0) /\ key[o] = k
        /\ Chosen(InBucket(c, b0), K0) # << >>
        /\ o = Head(Chosen(InBucket(c, b0), K0))
        /\ \A d \in Cache, b \in Table!Bucket :
             InBucket(d, b)' = IF d = c /\ b = b0 THEN Chosen(InBucket(d, b), Obj \ {o})
                               ELSE InBucket(d, b)
    <3>1. TakenOut(c, k, o)
      BY <1>3, TakeOutKeeps
    <3> HIDE DEF o
    <3> QED BY <3>1, Zenon DEF TakenOut
  <2>2. /\ UNCHANGED slab /\ place' = [place EXCEPT ![o] = "private"]
        /\ key' = [key EXCEPT ![o] = Null]
    BY <1>3 DEF TakeOut
  <2> HIDE DEF o
  <2>3. /\ o \in Obj /\ place[o] = "table" /\ slab[o[1]].cache = c
        /\ \A x \in Obj : /\ place'[x] = IF x = o THEN "private" ELSE place[x]
                          /\ key'[x] = IF x = o THEN Null ELSE key[x]
    BY <1>t, <2>1, <2>2 DEF Tabled
  <2>4. ASSUME NEW d \in Cache
        PROVE  PrivateOf(d)' = IF d = c THEN PrivateOf(d) \cup {o} ELSE PrivateOf(d)
    BY <2>2, <2>3 DEF PrivateOf
  <2>5. EntriesOf(c, k) # << >> /\ o = Head(EntriesOf(c, k))
    BY <2>1, EntriesListed
  <2>6. ASSUME NEW d \in Cache, NEW j \in Key
        PROVE  EntriesOf(d, j)' = IF d = c /\ j = k THEN Tail(EntriesOf(d, j)) ELSE EntriesOf(d, j)
    <3> DEFINE b == Table!IndexOf(j)
               s == InBucket(d, b)
               r == InBucket(d, b)'
               K == With(j)
               L == With(j)'
    <3>1. /\ s \in Seq(Obj) /\ IsInjective(s) /\ ToSet(s) = Tabled(d, b)
          /\ EntriesOf(d, j) = Chosen(s, K)
          /\ EntriesOf(d, j)' = Chosen(r, L) /\ b \in Table!Bucket
      BY EntriesListed, EntriesNext, IndexInRange
    <3>2. \A x \in Obj : x # o => (x \in K <=> x \in L)
      BY <2>3 DEF With
    <3>3. r = IF d = c /\ b = b0 THEN Chosen(s, Obj \ {o}) ELSE s
      BY <2>1, <3>1
    <3>4. j = k => b = b0 /\ K = K0
      OBVIOUS
    <3>5. (d = c /\ b = b0) \/ o \notin ToSet(s)
      BY <2>1, <3>1 DEF Tabled
    <3>6. o \in K => j = k
      BY <2>1 DEF With
    <3>0. d = c /\ j = k => s = InBucket(c, b0)
      OBVIOUS
    <3> HIDE DEF s, r, K, L, b, b0, K0
    <3>7. r \in Seq(Obj) /\ \A x \in ToSet(r) : x \in Obj /\ x # o
      <4>1. CASE d = c /\ b = b0
        BY <3>1, <3>3, <4>1, ChosenElements
      <4>2. CASE ~(d = c /\ b = b0)
        <5>1. ToSet(s) \subseteq Obj
          BY <3>1, QueueElements
        <5> QED BY <3>1, <3>3, <3>5, <4>2, <5>1
      <4> QED BY <4>1, <4>2
    <3>8. Chosen(r, L) = Chosen(r, K)
      <4>1. \A x \in ToSet(r) : x \in L <=> x \in K
        BY <3>2, <3>7
      <4> QED BY <3>7, <4>1, ChosenSame
    <3>9. CASE d = c /\ j = k
      <4>0. Chosen(s, K) # << >> /\ o = Head(Chosen(s, K))
        BY <2>1, <3>0, <3>4, <3>9, Zenon
      <4>1. Chosen(Chosen(s, Obj \ {o}), K) = Tail(Chosen(s, K))
        <5>1. s \in Seq(Obj) /\ IsInjective(s)
          BY <3>1
        <5>2. ASSUME NEW t \in Seq(Obj), IsInjective(t), NEW M, NEW x,
                     Chosen(t, M) # << >>, x = Head(Chosen(t, M))
              PROVE  Chosen(Chosen(t, Obj \ {x}), M) = Tail(Chosen(t, M))
          BY <5>2, ChosenTail
        <5> QED BY <4>0, <5>1, <5>2, Zenon
      <4> QED BY <3>1, <3>3, <3>4, <3>8, <3>9, <4>1
    <3>10. CASE ~(d = c /\ j = k) /\ d = c /\ b = b0
      <4>1. o \notin K
        BY <3>6, <3>10
      <4> DEFINE R == Obj \ {o}
                 M == R \cap K
      <4>2. \A x \in ToSet(s) : x \in M <=> x \in K
        BY <3>1, <4>1, QueueElements
      <4> HIDE DEF R, M
      <4>3. Chosen(Chosen(s, R), K) = Chosen(s, M)
        BY <3>1, ChosenTwice DEF M
      <4>4. Chosen(s, M) = Chosen(s, K)
        BY <3>1, <4>2, ChosenSame
      <4> QED BY <3>1, <3>3, <3>8, <3>10, <4>3, <4>4 DEF R
    <3>11. CASE ~(d = c /\ b = b0)
      BY <3>1, <3>3, <3>4, <3>8, <3>11
    <3> QED BY <3>9, <3>10, <3>11
  <2> QED BY <2>4, <2>5, <2>6, StoreTakesOut
<1>4. ASSUME NEW c \in Cache, NEW o \in Obj, Release(c, o) PROVE Promise!Next
  <2>1. /\ \A q \in Page : slab'[q].cache = slab[q].cache
        /\ \A d \in Cache, b \in Table!Bucket : InBucket(d, b)' = InBucket(d, b)
    BY <1>4, ReleaseKeeps
  <2>2. /\ place[o] = "private" /\ slab[o[1]].cache = c /\ UNCHANGED key
        /\ \A x \in Obj : place'[x] = IF x = o THEN "free" ELSE place[x]
    BY <1>4, <1>t DEF Release
  <2>3. o \in PrivateOf(c) /\ SameEntries
    BY <2>1, <2>2, SameKeys DEF PrivateOf
  <2>4. ASSUME NEW d \in Cache
        PROVE  PrivateOf(d)' = IF d = c THEN PrivateOf(d) \ {o} ELSE PrivateOf(d)
    <3>1. \A x \in Obj : slab'[x[1]].cache = slab[x[1]].cache
      BY <1>t, <2>1
    <3> QED BY <2>2, <3>1 DEF PrivateOf
  <2> QED BY <2>3, <2>4, StoreReleases
<1>5. CASE UNCHANGED vars
  <2>1. UNCHANGED <<slab, place, key>>
    BY <1>5 DEF vars, slabVars, objectVars
  <2>2. SameEntries
    BY <1>5, <2>1, ObjectsStutter, SameKeys
  <2>3. \A d \in Cache : PrivateOf(d)' = PrivateOf(d)
    BY <2>1 DEF PrivateOf
  <2> QED BY <2>2, <2>3 DEF Promise!vars, SameEntries
<1> QED BY <1>1, <1>2, <1>3, <1>4, <1>5 DEF Next

\* A slab cache and a hash table together are a store: no object is handed out that
\* somebody has, and hashtable_get and hashtable_remove meet the newest object of
\* their key, whatever else shares its bucket and whatever was taken out before.
THEOREM ObjectsAreStored == Spec => ImplementsStore
<1>1. Spec => Promise!Spec
  BY ObjectsInvariant, StoreInit, StoreStep, PTL DEF Spec, Promise!Spec
<1> QED BY <1>1 DEF ImplementsStore
==============================================================================
