------------------------------ MODULE ListProofs -----------------------------
(***************************************************************************)
(* What is true of lists whatever module keeps them.                       *)
(*                                                                         *)
(* Queues of threads or messages: what appending to and removing from a    *)
(* queue without duplicates does to its elements.                          *)
(*                                                                         *)
(* FlattenSeq, which joins lists: an induction along the lists it joins.   *)
(*                                                                         *)
(* Chosen, the elements a walk takes: which they are, in which order, and  *)
(* what an element more or less changes.                                   *)
(*                                                                         *)
(* The memory map (MemoryMap): the four comparisons of                     *)
(* check_entry_collision find every overlap; adding, excluding and         *)
(* allocating keep a list ordered and change its pages by exactly those    *)
(* asked for.                                                              *)
(***************************************************************************)
EXTENDS MemoryMap, Lists, FiniteSets, FiniteSetTheorems, SequenceTheorems,
        WellFoundedInduction, TLAPS

\* A set of numbers that is not empty has a least one: what takes the place of an
\* induction.
LEMMA LeastNatural ==
    ASSUME NEW S \in SUBSET Nat, S # {}
    PROVE  \E m \in S : \A k \in S : m <= k
<1> DEFINE R == {x \in Nat \X Nat : x[1] < x[2]}
<1>1. IsWellFoundedOn(R, Nat)
  BY NatLessThanWellFounded, Zenon DEF OpToRel
<1>2. \E x \in S : \A y \in S : ~(<< y, x >> \in R)
  <2> HIDE DEF R
  <2> QED BY <1>1, WFMin, Zenon
<1>3. PICK x \in S : \A y \in S : ~(<< y, x >> \in R)
  BY <1>2, Zenon
<1>4. ASSUME NEW y \in S, y < x PROVE FALSE
  <2>1. << y, x >> \in R
    BY <1>4
  <2> QED BY <1>3, <2>1, Zenon
<1>5. \A y \in S : x <= y
  <2> HIDE DEF R
  <2> QED BY <1>4
<1> HIDE DEF R
<1> QED BY <1>5

\* What holds at zero and is kept by every step holds of every number.  P is a set
\* and not a predicate.
LEMMA CountedUp ==
    ASSUME NEW P, 0 \in P, \A n \in Nat : n \in P => n + 1 \in P
    PROVE  \A n \in Nat : n \in P
<1> DEFINE D == {n \in Nat : n \notin P}
<1>1. D = {}
  <2> SUFFICES ASSUME D # {} PROVE FALSE
    OBVIOUS
  <2>1. D \in SUBSET Nat
    OBVIOUS
  <2>2. PICK m \in D : \A k \in D : m <= k
    <3> HIDE DEF D
    <3> QED BY <2>1, LeastNatural
  <2>3. m # 0
    OBVIOUS
  <2>4. m - 1 \in Nat /\ m - 1 \notin D
    <3>1. m \in Nat /\ m - 1 < m
      OBVIOUS
    <3>2. m - 1 \in Nat
      BY <2>3, <3>1
    <3> HIDE DEF D
    <3> QED BY <2>2, <3>1, <3>2
  <2>5. m - 1 \in P /\ (m - 1) + 1 = m
    BY <2>4
  <2> QED BY <2>4, <2>5
<1> QED BY <1>1

\* f starts at v and goes on by g, which takes a number and the value before it to
\* the value there.
Iterates(f, V, v, g, N) ==
    f \in [0 .. N -> V] /\ f[0] = v /\ \A n \in 1 .. N : f[n] = g[n][f[n - 1]]

\* Such a function exists.
LEMMA RecursionUnfolds ==
    ASSUME NEW V, NEW v \in V, NEW g \in [Nat -> [V -> V]], NEW N \in Nat
    PROVE  \E f : Iterates(f, V, v, g, N)
<1> DEFINE P == {m \in Nat : \E f : Iterates(f, V, v, g, m)}
<1>1. 0 \in P
  <2>1. Iterates([i \in 0 .. 0 |-> v], V, v, g, 0)
    BY DEF Iterates
  <2>2. \E f : Iterates(f, V, v, g, 0)
    BY <2>1, Zenon
  <2> QED BY <2>2
<1>2. ASSUME NEW m \in Nat, m \in P PROVE m + 1 \in P
  <2>1. PICK f : Iterates(f, V, v, g, m)
    BY <1>2
  <2> DEFINE h == [i \in 0 .. m + 1 |-> IF i <= m THEN f[i] ELSE g[m + 1][f[m]]]
  <2>2. Iterates(h, V, v, g, m + 1)
    <3>1. f[m] \in V /\ g[m + 1][f[m]] \in V
      BY <2>1 DEF Iterates
    <3>2. h \in [0 .. m + 1 -> V] /\ h[0] = v
      BY <2>1, <3>1 DEF Iterates
    <3>3. ASSUME NEW n \in 1 .. m + 1 PROVE h[n] = g[n][h[n - 1]]
      <4>1. h[n - 1] = f[n - 1]
        OBVIOUS
      <4>2. CASE n <= m
        BY <2>1, <4>1, <4>2 DEF Iterates
      <4>3. CASE n = m + 1
        BY <4>1, <4>3
      <4> QED BY <4>2, <4>3
    <3> HIDE DEF h
    <3> QED BY <3>2, <3>3 DEF Iterates
  <2>3. \E e : Iterates(e, V, v, g, m + 1)
    BY <2>2, Zenon
  <2> QED BY <2>3
<1>3. N \in P
  <2> HIDE DEF P
  <2> QED BY <1>1, <1>2, CountedUp
<1> QED BY <1>3

\* FlattenSeq, unfolded one sequence at a time.
LEMMA FlattenUnfolds ==
    ASSUME NEW segs, NEW n \in Nat \ {0}, Len(segs) = n
    PROVE  \E f : /\ f = [i \in 1 .. n |-> IF i = 1 THEN segs[i] ELSE f[i - 1] \o segs[i]]
                  /\ FlattenSeq(segs) = f[n]
<1> DEFINE Unfolds(f, m) == f = [i \in 1 .. m |-> IF i = 1 THEN segs[i] ELSE f[i - 1] \o segs[i]]
           D == {m \in Nat : ~ \E f : Unfolds(f, m)}
<1>1. D = {}
  <2> SUFFICES ASSUME D # {} PROVE FALSE
    OBVIOUS
  <2>1. PICK m \in D : \A k \in D : m <= k
    BY LeastNatural
  <2>2. m # 0
    <3>1. Unfolds([i \in 1 .. 0 |-> 0], 0)
      OBVIOUS
    <3>2. \E f : Unfolds(f, 0)
      BY <3>1, Zenon
    <3>3. 0 \notin D
      BY <3>2
    <3> HIDE DEF D
    <3> QED BY <2>1, <3>3, Zenon
  <2>3. m - 1 \in Nat /\ m - 1 \notin D
    <3>1. m \in Nat
      OBVIOUS
    <3> HIDE DEF D
    <3> QED BY <2>1, <2>2, <3>1
  <2>4. PICK g : Unfolds(g, m - 1)
    BY <2>3
  <2>5. \A i \in 1 .. m - 1 : g[i] = IF i = 1 THEN segs[i] ELSE g[i - 1] \o segs[i]
    BY <2>4, Zenon
  <2> DEFINE f == [i \in 1 .. m |-> IF i = 1 THEN segs[i] ELSE g[i - 1] \o segs[i]]
  <2>6. ASSUME NEW i \in 1 .. m - 1 PROVE f[i] = g[i]
    <3>1. i \in 1 .. m
      BY <2>3
    <3> QED BY <2>5, <3>1
  <2>7. Unfolds(f, m)
    <3>1. ASSUME NEW i \in 1 .. m, i # 1 PROVE f[i - 1] = g[i - 1]
      <4>1. i - 1 \in 1 .. m - 1
        BY <3>1, <2>3
      <4> QED BY <4>1, <2>6
    <3>2. ASSUME NEW i \in 1 .. m
          PROVE  (IF i = 1 THEN segs[i] ELSE g[i - 1] \o segs[i])
                   = (IF i = 1 THEN segs[i] ELSE f[i - 1] \o segs[i])
      <4> HIDE DEF f
      <4> QED BY <3>1
    <3> QED BY <3>2, Zenon
  <2>8. \E h : Unfolds(h, m)
    BY <2>7, Zenon
  <2> QED BY <2>1, <2>8
<1>2. \E f : Unfolds(f, n)
  <2>1. n \in Nat /\ n \notin D
    BY <1>1
  <2> HIDE DEF Unfolds
  <2> QED BY <2>1
<1> DEFINE f == CHOOSE g : Unfolds(g, n)
<1>3. Unfolds(f, n)
  BY <1>2, Zenon
<1>4. FlattenSeq(segs) = f[n]
  BY DEF FlattenSeq
<1> HIDE DEF f
<1> QED BY <1>3, <1>4, Zenon

\* An induction along the sequences that FlattenSeq joins.  P is a set and not a
\* predicate: the pairs of a position and of what is joined up to there.
LEMMA FlattenInduction ==
    ASSUME NEW S, NEW segs \in Seq(Seq(S)), segs # << >>, NEW P,
           << 1, segs[1] >> \in P,
           \A i \in 2 .. Len(segs) : \A s \in Seq(S) :
               << i - 1, s >> \in P => << i, s \o segs[i] >> \in P
    PROVE  FlattenSeq(segs) \in Seq(S) /\ << Len(segs), FlattenSeq(segs) >> \in P
<1>1. PICK n \in Nat \ {0} : n = Len(segs)
  BY LenProperties, EmptySeq
<1>2. \A i \in 1 .. n : segs[i] \in Seq(S)
  BY <1>1
<1>3. PICK f : /\ f = [i \in 1 .. n |-> IF i = 1 THEN segs[i] ELSE f[i - 1] \o segs[i]]
               /\ FlattenSeq(segs) = f[n]
  BY <1>1, FlattenUnfolds
<1>x. \A i \in 1 .. n : f[i] = IF i = 1 THEN segs[i] ELSE f[i - 1] \o segs[i]
  BY <1>3, Zenon
<1> DEFINE D == {i \in 1 .. n : ~ (f[i] \in Seq(S) /\ << i, f[i] >> \in P)}
<1>4. D = {}
  <2> SUFFICES ASSUME D # {} PROVE FALSE
    OBVIOUS
  <2>1. PICK i \in D : \A k \in D : i <= k
    <3>1. D \in SUBSET Nat
      OBVIOUS
    <3> HIDE DEF D
    <3> QED BY <3>1, LeastNatural
  <2>2. i # 1
    BY <1>2, <1>x, <2>1
  <2>3. i - 1 \in 1 .. n /\ i - 1 \notin D /\ i \in 2 .. n
    BY <2>1, <2>2
  <2>4. f[i - 1] \in Seq(S) /\ << i - 1, f[i - 1] >> \in P
    BY <2>3
  <2>5. f[i] = f[i - 1] \o segs[i]
    <3>1. i \in 1 .. n /\ i # 1
      BY <2>3
    <3> QED BY <1>x, <3>1, Zenon
  <2>6. f[i] \in Seq(S)
    <3>1. segs[i] \in Seq(S)
      BY <1>2, <2>3
    <3> HIDE DEF D
    <3> QED BY <2>4, <2>5, <3>1, ConcatProperties
  <2>7. << i, f[i] >> \in P
    BY <1>1, <2>3, <2>4, <2>5
  <2> QED BY <2>1, <2>6, <2>7
<1>5. n \in 1 .. n
  OBVIOUS
<1>6. n \notin D
  BY <1>4, Zenon
<1> QED BY <1>1, <1>3, <1>5, <1>6

\* Lists joined in either order.
LEMMA JoinsAssociate ==
    ASSUME NEW S
    PROVE  \A a, b, c \in Seq(S) : (a \o b) \o c = a \o (b \o c)
<1> SUFFICES ASSUME NEW a \in Seq(S), NEW b \in Seq(S), NEW c \in Seq(S)
             PROVE  (a \o b) \o c = a \o (b \o c)
  OBVIOUS
<1> QED BY ConcatAssociative

\* The same with a name for joining, which the provers do not look behind.
Joined(a, b) == a \o b

LEMMA JoinedAssociate ==
    ASSUME NEW S, NEW a \in Seq(S), NEW b \in Seq(S), NEW c \in Seq(S)
    PROVE  Joined(Joined(a, b), c) = Joined(a, Joined(b, c))
<1>1. (a \o b) \o c = a \o (b \o c)
  BY ConcatAssociative
<1> QED BY <1>1 DEF Joined

\* FlattenSeq of no list and of one list more in front.
LEMMA FlattenHead ==
    ASSUME NEW S, NEW segs \in Seq(Seq(S)), segs # << >>
    PROVE  FlattenSeq(segs) = Head(segs) \o FlattenSeq(Tail(segs))
           /\ FlattenSeq(Tail(segs)) \in Seq(S)
<1> DEFINE rest == Tail(segs)
           n == Len(segs)
<1>1. /\ n \in Nat \ {0} /\ rest \in Seq(Seq(S)) /\ Len(rest) = n - 1
      /\ Head(segs) = segs[1] /\ segs[1] \in Seq(S)
      /\ \A i \in 1 .. n - 1 : rest[i] = segs[i + 1] /\ rest[i] \in Seq(S)
  BY EmptySeq, HeadTailProperties
<1>2. PICK f : /\ f = [i \in 1 .. n |-> IF i = 1 THEN segs[i] ELSE f[i - 1] \o segs[i]]
               /\ FlattenSeq(segs) = f[n]
  BY <1>1, FlattenUnfolds
<1>3. \A i \in 1 .. n : f[i] = IF i = 1 THEN segs[i] ELSE f[i - 1] \o segs[i]
  BY <1>2, Zenon
<1>4. f[1] = segs[1]
  BY <1>1, <1>3
<1> HIDE DEF n, rest
<1>a. \A a, b, c \in Seq(S) : (a \o b) \o c = a \o (b \o c)
  <2> SUFFICES ASSUME NEW a \in Seq(S), NEW b \in Seq(S), NEW c \in Seq(S)
               PROVE  (a \o b) \o c = a \o (b \o c)
    BY Zenon
  <2>1. Joined(Joined(a, b), c) = Joined(a, Joined(b, c))
    BY JoinedAssociate
  <2> QED BY <2>1, Zenon DEF Joined
<1>5. CASE rest = << >>
  <2>1. n = 1
    <3>1. Len(rest) = 0
      BY <1>5
    <3> QED BY <1>1, <3>1
  <2>2. FlattenSeq(rest) = << >>
    BY <1>5 DEF FlattenSeq
  <2>3. << >> \in Seq(S) /\ segs[1] \o << >> = segs[1]
    BY <1>1, EmptySeq, ConcatEmptySeq
  <2>4. FlattenSeq(segs) = segs[1]
    BY <1>2, <1>4, <2>1, Zenon
  <2> QED BY <1>1, <2>2, <2>3, <2>4, Zenon DEF rest
<1>6. CASE rest # << >>
  <2> DEFINE P == {x \in Nat \X Seq(S) : f[x[1] + 1] = segs[1] \o x[2]}
  <2>1. n >= 2
    <3>1. Len(rest) # 0
      BY <1>1, <1>6, EmptySeq
    <3> QED BY <1>1, <3>1
  <2>0. \A i \in Nat : \A s \in Seq(S) : << i, s >> \in P <=> f[i + 1] = segs[1] \o s
    OBVIOUS
  <2> HIDE DEF P
  <2>2. << 1, rest[1] >> \in P
    <3>1. rest[1] \in Seq(S) /\ rest[1] = segs[2]
      <4>1. 1 \in 1 .. n - 1 /\ 1 + 1 = 2
        BY <1>1, <2>1
      <4> QED BY <1>1, <4>1, Zenon
    <3>2. f[2] = f[1] \o segs[2]
      <4>1. 2 \in 1 .. n /\ 2 # 1 /\ 2 - 1 = 1
        BY <1>1, <2>1
      <4> QED BY <1>3, <4>1, Zenon
    <3>3. 1 \in Nat /\ 1 + 1 = 2
      OBVIOUS
    <3> QED BY <1>4, <2>0, <3>1, <3>2, <3>3, Zenon
  <2>3. ASSUME NEW i \in 2 .. Len(rest), NEW s \in Seq(S), << i - 1, s >> \in P
        PROVE  << i, s \o rest[i] >> \in P
    <3>1. /\ i \in 1 .. n - 1 /\ i + 1 \in 1 .. n /\ i + 1 # 1 /\ (i + 1) - 1 = i
          /\ i \in Nat /\ i - 1 \in Nat /\ (i - 1) + 1 = i
      BY <1>1
    <3>2. f[i] = segs[1] \o s
      BY <2>0, <2>3, <3>1, Zenon
    <3>3. rest[i] = segs[i + 1] /\ rest[i] \in Seq(S)
      BY <1>1, <3>1, Zenon
    <3>4. f[i + 1] = f[i] \o segs[i + 1]
      BY <1>3, <3>1, Zenon
    <3>5. (segs[1] \o s) \o rest[i] = segs[1] \o (s \o rest[i])
      BY <1>1, <1>a, <3>3, Zenon
    <3>6. s \o rest[i] \in Seq(S)
      BY <3>3, ConcatProperties, Zenon
    <3>7. f[i + 1] = segs[1] \o (s \o rest[i])
      BY <3>2, <3>3, <3>4, <3>5, Zenon
    <3> QED BY <2>0, <3>1, <3>6, <3>7, Zenon
  <2>4. FlattenSeq(rest) \in Seq(S) /\ << Len(rest), FlattenSeq(rest) >> \in P
    BY <1>1, <1>6, <2>2, <2>3, FlattenInduction, Zenon
  <2>5. Len(rest) \in Nat /\ Len(rest) + 1 = n
    BY <1>1
  <2>6. f[n] = segs[1] \o FlattenSeq(rest)
    BY <2>0, <2>4, <2>5, Zenon
  <2> QED BY <1>1, <1>2, <2>4, <2>6, Zenon DEF rest
<1> QED BY <1>5, <1>6

-----------------------------------------------------------------------------
(* Queues. *)

\* threadqueue_add of a thread that is not queued.
LEMMA AppendElements ==
    ASSUME NEW S, NEW q \in Seq(S), NEW e \in S
    PROVE  /\ Append(q, e) \in Seq(S)
           /\ Append(q, e) # <<>>
           /\ Len(Append(q, e)) = Len(q) + 1
           /\ ToSet(Append(q, e)) = ToSet(q) \cup {e}
<1>1. Append(q, e) \in Seq(S) /\ Len(Append(q, e)) = Len(q) + 1
  OBVIOUS
<1>2. Append(q, e) # <<>>
  BY AppendProperties
<1>3. ASSUME NEW x PROVE x \in ToSet(Append(q, e)) <=> x \in ToSet(q) \/ x = e
  <2>1. x \in ToSet(q) => x \in ToSet(Append(q, e))
    BY DEF ToSet
  <2>2. x = e => x \in ToSet(Append(q, e))
    <3>1. Append(q, e)[Len(q) + 1] = e /\ Len(q) + 1 \in DOMAIN Append(q, e)
      OBVIOUS
    <3> QED BY <3>1 DEF ToSet
  <2>3. x \in ToSet(Append(q, e)) => x \in ToSet(q) \/ x = e
    BY DEF ToSet
  <2> QED BY <2>1, <2>2, <2>3
<1> QED BY <1>1, <1>2, <1>3

LEMMA AppendNew ==
    ASSUME NEW S, NEW q \in Seq(S), NEW e \in S, IsInjective(q), e \notin ToSet(q)
    PROVE  IsInjective(Append(q, e))
<1>1. /\ DOMAIN Append(q, e) = 1 .. Len(q) + 1 /\ Len(q) \in Nat
      /\ \A i \in 1 .. Len(q) : Append(q, e)[i] = q[i] /\ q[i] # e
      /\ Append(q, e)[Len(q) + 1] = e
  BY DEF ToSet
<1>2. \A i, j \in 1 .. Len(q) + 1 : Append(q, e)[i] = Append(q, e)[j] => i = j
  BY <1>1 DEF IsInjective
<1> QED BY <1>1, <1>2 DEF IsInjective

\* threadqueue_pop of a queue that is not empty.
LEMMA PopElements ==
    ASSUME NEW S, NEW q \in Seq(S), q # <<>>
    PROVE  /\ Head(q) \in S /\ Head(q) \in ToSet(q)
           /\ Tail(q) \in Seq(S)
           /\ Len(Tail(q)) = Len(q) - 1
           /\ ToSet(q) = ToSet(Tail(q)) \cup {Head(q)}
<1>1. /\ Head(q) \in S /\ Tail(q) \in Seq(S) /\ Len(Tail(q)) = Len(q) - 1
      /\ Len(q) \in Nat /\ Len(q) >= 1 /\ Head(q) = q[1]
      /\ \A i \in 1 .. Len(q) - 1 : Tail(q)[i] = q[i + 1]
  OBVIOUS
<1>2. ASSUME NEW x \in ToSet(q) PROVE x = Head(q) \/ x \in ToSet(Tail(q))
  <2>1. PICK i \in 1 .. Len(q) : x = q[i]
    BY DEF ToSet
  <2>2. CASE i = 1
    BY <1>1, <2>1, <2>2
  <2>3. CASE i # 1
    <3>1. i - 1 \in DOMAIN Tail(q) /\ Tail(q)[i - 1] = x
      BY <1>1, <2>1, <2>3
    <3> QED BY <3>1 DEF ToSet
  <2> QED BY <2>2, <2>3
<1>3. ToSet(Tail(q)) \subseteq ToSet(q)
  BY <1>1 DEF ToSet
<1>4. Head(q) \in ToSet(q)
  BY <1>1 DEF ToSet
<1> QED BY <1>1, <1>2, <1>3, <1>4

LEMMA PopOnce ==
    ASSUME NEW S, NEW q \in Seq(S), q # <<>>, IsInjective(q)
    PROVE  IsInjective(Tail(q)) /\ Head(q) \notin ToSet(Tail(q))
BY DEF ToSet, IsInjective

LEMMA EmptyQueue ==
    /\ ToSet(<<>>) = {}
    /\ IsInjective(<<>>)
    /\ Len(<<>>) = 0
BY DEF ToSet, IsInjective

LEMMA QueueElements ==
    ASSUME NEW S, NEW q \in Seq(S)
    PROVE  /\ ToSet(q) \subseteq S
           /\ Len(q) \in Nat
           /\ q = <<>> <=> Len(q) = 0
           /\ q = <<>> <=> ToSet(q) = {}
<1>1. ToSet(q) \subseteq S /\ Len(q) \in Nat /\ (q = <<>> <=> Len(q) = 0)
  BY DEF ToSet
<1>2. q # <<>> => Head(q) \in ToSet(q)
  BY PopElements
<1> QED BY <1>1, <1>2, EmptyQueue

\* The elements of a queue are finitely many.
LEMMA QueueFinite ==
    ASSUME NEW S, NEW q \in Seq(S)
    PROVE  IsFiniteSet(ToSet(q))
<1>1. /\ q \in Surjection(1 .. Len(q), ToSet(q))
      /\ Len(q) \in Nat
  BY DEF Surjection, ToSet
<1>2. IsFiniteSet(1 .. Len(q))
  BY <1>1, FS_Interval
<1> QED BY <1>1, <1>2, FS_Surjection

\* What a queue of references stands for, when the references are looked up in c.
LEMMA LookedUpQueue ==
    ASSUME NEW S, NEW T, NEW c \in [S -> T], NEW q \in Seq(S)
    PROVE  /\ [k \in DOMAIN q |-> c[q[k]]] \in Seq(T)
           /\ Len([k \in DOMAIN q |-> c[q[k]]]) = Len(q)
<1>1. /\ Len(q) \in Nat /\ DOMAIN q = 1 .. Len(q) /\ \A k \in 1 .. Len(q) : q[k] \in S
  BY LenProperties
<1>2. [k \in DOMAIN q |-> c[q[k]]] \in [1 .. Len(q) -> T]
  BY <1>1
<1>3. [k \in DOMAIN q |-> c[q[k]]] \in Seq(T)
  BY <1>1, <1>2, SeqDef
<1>4. Len([k \in DOMAIN q |-> c[q[k]]]) = Len(q)
  <2> DEFINE f == [k \in DOMAIN q |-> c[q[k]]]
  <2>1. f \in Seq(T) /\ DOMAIN f = 1 .. Len(q)
    BY <1>1, <1>3
  <2> HIDE DEF f
  <2>2. Len(f) \in Nat /\ DOMAIN f = 1 .. Len(f)
    BY <2>1, LenProperties
  <2>3. Len(f) = Len(q)
    BY <1>1, <2>1, <2>2
  <2> QED BY <2>3 DEF f
<1> QED BY <1>3, <1>4

LEMMA LookedUpAppend ==
    ASSUME NEW S, NEW T, NEW c \in [S -> T], NEW q \in Seq(S), NEW e \in S
    PROVE  [k \in DOMAIN Append(q, e) |-> c[Append(q, e)[k]]]
             = Append([k \in DOMAIN q |-> c[q[k]]], c[e])
<1> DEFINE r == Append(q, e)
           f == [k \in DOMAIN q |-> c[q[k]]]
           g == [k \in DOMAIN r |-> c[r[k]]]
<1>1. /\ r \in Seq(S) /\ Len(r) = Len(q) + 1 /\ Len(q) \in Nat
      /\ \A k \in 1 .. Len(q) : r[k] = q[k]
      /\ r[Len(q) + 1] = e
      /\ DOMAIN r = 1 .. Len(r) /\ DOMAIN q = 1 .. Len(q)
  BY AppendElements, LenProperties
<1>2. f \in Seq(T) /\ Len(f) = Len(q)
  BY LookedUpQueue
<1>3. g \in Seq(T) /\ Len(g) = Len(q) + 1
  <2> HIDE DEF r
  <2> QED BY <1>1, LookedUpQueue
<1>4. \A k \in 1 .. Len(q) + 1 : g[k] = IF k <= Len(q) THEN f[k] ELSE c[e]
  <2> HIDE DEF r
  <2> QED BY <1>1
<1> HIDE DEF f, g
<1>5. Append(f, c[e]) \in Seq(T) /\ Len(Append(f, c[e])) = Len(q) + 1
  BY <1>2, AppendElements
<1>6. \A k \in 1 .. Len(q) + 1 : Append(f, c[e])[k] = IF k <= Len(q) THEN f[k] ELSE c[e]
  BY <1>1, <1>2
<1>7. g = Append(f, c[e])
  BY <1>1, <1>3, <1>4, <1>5, <1>6, SeqEqual
<1> QED BY <1>7 DEF f, g

LEMMA LookedUpPop ==
    ASSUME NEW S, NEW T, NEW c \in [S -> T], NEW q \in Seq(S), q # <<>>
    PROVE  /\ [k \in DOMAIN q |-> c[q[k]]] # <<>>
           /\ Head([k \in DOMAIN q |-> c[q[k]]]) = c[Head(q)]
           /\ [k \in DOMAIN Tail(q) |-> c[Tail(q)[k]]] = Tail([k \in DOMAIN q |-> c[q[k]]])
<1> DEFINE r == Tail(q)
           f == [k \in DOMAIN q |-> c[q[k]]]
           g == [k \in DOMAIN r |-> c[r[k]]]
<1>1. /\ r \in Seq(S) /\ Len(r) = Len(q) - 1 /\ Len(q) \in Nat \ {0}
      /\ \A k \in 1 .. Len(r) : r[k] = q[k + 1]
      /\ Head(q) = q[1]
      /\ DOMAIN r = 1 .. Len(r) /\ DOMAIN q = 1 .. Len(q)
  BY HeadTailProperties, LenProperties, EmptySeq
<1>2. f \in Seq(T) /\ Len(f) = Len(q)
  BY LookedUpQueue
<1>3. g \in Seq(T) /\ Len(g) = Len(r)
  <2> HIDE DEF r
  <2> QED BY <1>1, LookedUpQueue
<1>4. \A k \in 1 .. Len(r) : g[k] = f[k + 1]
  <2> HIDE DEF r
  <2> QED BY <1>1
<1>5. f[1] = c[Head(q)]
  BY <1>1
<1> HIDE DEF f, g, r
<1>6. f # <<>>
  BY <1>1, <1>2, EmptySeq
<1>7. Head(f) = f[1]
  BY <1>2, <1>6
<1>8. /\ Tail(f) \in Seq(T) /\ Len(Tail(f)) = Len(r)
      /\ \A k \in 1 .. Len(r) : Tail(f)[k] = f[k + 1]
  BY <1>1, <1>2, <1>6, HeadTailProperties
<1>9. g = Tail(f)
  BY <1>3, <1>4, <1>8, SeqEqual
<1> QED BY <1>5, <1>6, <1>7, <1>9 DEF f, g, r

\* Two queues one behind the other.
LEMMA ConcatNew ==
    ASSUME NEW S, NEW s \in Seq(S), NEW t \in Seq(S), IsInjective(s), IsInjective(t),
           \A x \in ToSet(s), y \in ToSet(t) : x # y
    PROVE  /\ s \o t \in Seq(S)
           /\ IsInjective(s \o t)
           /\ \A x : x \in ToSet(s \o t) <=> x \in ToSet(s) \/ x \in ToSet(t)
<1>1. PICK m, n \in Nat : m = Len(s) /\ n = Len(t)
  BY LenProperties
<1>2. PICK u : u = s \o t
  OBVIOUS
<1>3. /\ u \in Seq(S) /\ DOMAIN u = 1 .. m + n
      /\ DOMAIN s = 1 .. m /\ DOMAIN t = 1 .. n
      /\ \A i \in 1 .. m + n : u[i] = IF i <= m THEN s[i] ELSE t[i - m]
  <2>1. u \in Seq(S) /\ Len(u) = m + n
    BY <1>1, <1>2, ConcatProperties
  <2>2. \A i \in 1 .. m + n : u[i] = IF i <= m THEN s[i] ELSE t[i - m]
    BY <1>1, <1>2, ConcatProperties
  <2> QED BY <1>1, <2>1, <2>2, LenProperties
<1>4. ASSUME NEW i \in 1 .. m + n
      PROVE  \/ i \in 1 .. m /\ u[i] = s[i]
             \/ i - m \in 1 .. n /\ u[i] = t[i - m]
  BY <1>3
<1>5. ASSUME NEW i \in 1 .. m + n, NEW j \in 1 .. m + n, u[i] = u[j] PROVE i = j
  <2>1. CASE i \in 1 .. m /\ j \in 1 .. m
    <3>1. s[i] = s[j]
      BY <1>3, <1>5, <2>1
    <3> QED BY <1>3, <2>1, <3>1 DEF IsInjective
  <2>2. CASE i \notin 1 .. m /\ j \notin 1 .. m
    <3>1. t[i - m] = t[j - m] /\ i - m \in 1 .. n /\ j - m \in 1 .. n
      BY <1>3, <1>5, <2>2
    <3>2. i - m = j - m
      BY <1>3, <3>1 DEF IsInjective
    <3> QED BY <3>2
  <2>3. ASSUME NEW k \in 1 .. m, NEW l \in 1 .. n PROVE s[k] # t[l]
    BY <1>3 DEF ToSet
  <2>4. CASE ~(i \in 1 .. m <=> j \in 1 .. m)
    <3>1. CASE i \in 1 .. m
      <4>1. u[i] = s[i] /\ u[j] = t[j - m] /\ j - m \in 1 .. n
        BY <1>3, <2>4, <3>1
      <4> QED BY <1>5, <2>3, <3>1, <4>1
    <3>2. CASE i \notin 1 .. m
      <4>1. u[j] = s[j] /\ u[i] = t[i - m] /\ i - m \in 1 .. n /\ j \in 1 .. m
        BY <1>3, <2>4, <3>2
      <4> QED BY <1>5, <2>3, <4>1
    <3> QED BY <3>1, <3>2
  <2> QED BY <2>1, <2>2, <2>4
<1>6. IsInjective(u)
  BY <1>3, <1>5 DEF IsInjective
<1>7. ASSUME NEW x PROVE x \in ToSet(u) <=> x \in ToSet(s) \/ x \in ToSet(t)
  <2>1. ASSUME x \in ToSet(u) PROVE x \in ToSet(s) \/ x \in ToSet(t)
    <3>1. PICK i \in 1 .. m + n : x = u[i]
      BY <1>3, <2>1 DEF ToSet
    <3> QED BY <1>3, <1>4, <3>1 DEF ToSet
  <2>2. ASSUME x \in ToSet(s) PROVE x \in ToSet(u)
    <3>1. PICK i \in 1 .. m : x = s[i]
      BY <1>3, <2>2 DEF ToSet
    <3>2. i \in 1 .. m + n /\ u[i] = s[i]
      BY <1>3
    <3> QED BY <1>3, <3>1, <3>2 DEF ToSet
  <2>3. ASSUME x \in ToSet(t) PROVE x \in ToSet(u)
    <3>1. PICK i \in 1 .. n : x = t[i]
      BY <1>3, <2>3 DEF ToSet
    <3>2. i + m \in 1 .. m + n /\ u[i + m] = t[i]
      BY <1>3
    <3> QED BY <1>3, <3>1, <3>2 DEF ToSet
  <2> QED BY <2>1, <2>2, <2>3
<1> QED BY <1>2, <1>3, <1>6, <1>7

-----------------------------------------------------------------------------
(* The elements a walk takes. *)

Walks(f, T, s, S) ==
    /\ f \in [0 .. Len(s) -> Seq(T)] /\ f[0] = << >>
    /\ \A i \in 1 .. Len(s) :
         f[i] = IF s[i] \in S THEN Append(f[i - 1], s[i]) ELSE f[i - 1]

\* Chosen, unfolded along the sequence.
LEMMA ChosenUnfolds ==
    ASSUME NEW T, NEW s \in Seq(T), NEW S
    PROVE  \E f : Walks(f, T, s, S) /\ Chosen(s, S) = f[Len(s)]
<1> DEFINE Up(f) == f = [i \in 0 .. Len(s) |->
                      IF i = 0 THEN << >>
                      ELSE IF s[i] \in S THEN Append(f[i - 1], s[i]) ELSE f[i - 1]]
           step == [n \in Nat |-> [t \in Seq(T) |->
                      IF n \in 1 .. Len(s) /\ s[n] \in S THEN Append(t, s[n]) ELSE t]]
<1>0. PICK N \in Nat : N = Len(s)
  OBVIOUS
<1>1. step \in [Nat -> [Seq(T) -> Seq(T)]] /\ << >> \in Seq(T)
  OBVIOUS
<1>2. PICK f : Iterates(f, Seq(T), << >>, step, N)
  <2> HIDE DEF step
  <2> QED BY <1>1, RecursionUnfolds
<1>3. ASSUME NEW i \in 1 .. N
      PROVE  f[i] = IF s[i] \in S THEN Append(f[i - 1], s[i]) ELSE f[i - 1]
  <2>1. i - 1 \in 0 .. N /\ f[i - 1] \in Seq(T) /\ i \in Nat
    BY <1>2 DEF Iterates
  <2>2. f[i] = step[i][f[i - 1]]
    BY <1>2 DEF Iterates
  <2>3. step[i][f[i - 1]] = IF s[i] \in S THEN Append(f[i - 1], s[i]) ELSE f[i - 1]
    BY <1>0, <2>1
  <2> QED BY <2>2, <2>3
<1> HIDE DEF step
<1>4. Up(f)
  <2>1. \A i \in 0 .. N : f[i] = IF i = 0 THEN << >>
                                 ELSE IF s[i] \in S THEN Append(f[i - 1], s[i]) ELSE f[i - 1]
    <3> SUFFICES ASSUME NEW i \in 0 .. N
                 PROVE  f[i] = IF i = 0 THEN << >>
                               ELSE IF s[i] \in S THEN Append(f[i - 1], s[i]) ELSE f[i - 1]
      OBVIOUS
    <3>1. CASE i = 0
      BY <1>2, <3>1 DEF Iterates
    <3>2. CASE i # 0
      <4>1. i \in 1 .. N
        BY <3>2
      <4> QED BY <1>3, <3>2, <4>1, Zenon
    <3> QED BY <3>1, <3>2
  <2>2. f = [i \in 0 .. N |-> f[i]]
    BY <1>2 DEF Iterates
  <2> QED BY <1>0, <2>1, <2>2, Zenon
<1> DEFINE h == CHOOSE e : Up(e)
<1>5. Up(h)
  BY <1>4, Zenon
<1>6. Chosen(s, S) = h[Len(s)]
  BY DEF Chosen
<1>7. \A i \in 0 .. N : h[i] = IF i = 0 THEN << >>
                               ELSE IF s[i] \in S THEN Append(h[i - 1], s[i]) ELSE h[i - 1]
  BY <1>0, <1>5, Zenon
<1> HIDE DEF h
<1>8. ASSUME NEW i \in 0 .. N PROVE h[i] = f[i]
  <2> DEFINE P == {n \in Nat : n \in 0 .. N => h[n] = f[n]}
  <2>1. 0 \in P
    BY <1>2, <1>7 DEF Iterates
  <2>2. ASSUME NEW n \in Nat, n \in P PROVE n + 1 \in P
    <3> SUFFICES ASSUME n + 1 \in 0 .. N PROVE h[n + 1] = f[n + 1]
      OBVIOUS
    <3>1. n \in 0 .. N /\ n + 1 \in 1 .. N /\ (n + 1) - 1 = n
      OBVIOUS
    <3>2. h[n] = f[n]
      BY <2>2, <3>1
    <3>3. h[n + 1] = IF s[n + 1] \in S THEN Append(h[n], s[n + 1]) ELSE h[n]
      BY <1>7, <3>1
    <3>4. f[n + 1] = IF s[n + 1] \in S THEN Append(f[n], s[n + 1]) ELSE f[n]
      BY <1>3, <3>1
    <3> QED BY <3>2, <3>3, <3>4
  <2>3. i \in P
    <3>1. i \in Nat
      OBVIOUS
    <3> HIDE DEF P
    <3> QED BY <2>1, <2>2, <3>1, CountedUp, Zenon
  <2> QED BY <2>3
<1>9. Walks(f, T, s, S)
  BY <1>0, <1>2, <1>3 DEF Iterates, Walks
<1>10. Chosen(s, S) = f[Len(s)]
  BY <1>0, <1>6, <1>8
<1> QED BY <1>9, <1>10

\* A set of sequences that has the empty one and, with each of its sequences, the
\* one with an element more, has them all.
LEMMA AppendedUp ==
    ASSUME NEW T, NEW P, << >> \in P,
           \A s \in Seq(T), e \in T : s \in P => Append(s, e) \in P
    PROVE  \A s \in Seq(T) : s \in P
<1> DEFINE Q == {n \in Nat : \A s \in Seq(T) : Len(s) = n => s \in P}
<1>1. 0 \in Q
  BY EmptySeq
<1>2. ASSUME NEW n \in Nat, n \in Q PROVE n + 1 \in Q
  <2> SUFFICES ASSUME NEW s \in Seq(T), Len(s) = n + 1 PROVE s \in P
    OBVIOUS
  <2> DEFINE t == SubSeq(s, 1, n)
  <2>1. t \in Seq(T) /\ Len(t) = n /\ s[n + 1] \in T
    BY SubSeqProperties
  <2>2. s = Append(t, s[n + 1])
    <3>1. /\ Append(t, s[n + 1]) \in Seq(T) /\ Len(Append(t, s[n + 1])) = n + 1
          /\ \A i \in 1 .. n : Append(t, s[n + 1])[i] = t[i] /\ t[i] = s[i]
          /\ Append(t, s[n + 1])[n + 1] = s[n + 1]
      BY <2>1
    <3> HIDE DEF t
    <3>2. \A i \in 1 .. n + 1 : s[i] = Append(t, s[n + 1])[i]
      BY <3>1
    <3> QED BY <3>1, <3>2, SeqEqual
  <2>3. t \in P
    BY <1>2, <2>1
  <2> HIDE DEF t
  <2> QED BY <2>1, <2>2, <2>3
<1>3. \A n \in Nat : n \in Q
  <2> HIDE DEF Q
  <2> QED BY <1>1, <1>2, CountedUp
<1>4. ASSUME NEW s \in Seq(T) PROVE s \in P
  <2>1. Len(s) \in Q
    BY <1>3, LenProperties
  <2> QED BY <2>1
<1> QED BY <1>4

LEMMA ChosenOfNone ==
    ASSUME NEW S
    PROVE  Chosen(<< >>, S) = << >>
<1>1. << >> \in Seq({}) /\ Len(<< >>) = 0
  OBVIOUS
<1>2. PICK f : Walks(f, {}, << >>, S) /\ Chosen(<< >>, S) = f[Len(<< >>)]
  BY <1>1, ChosenUnfolds
<1> QED BY <1>1, <1>2 DEF Walks

\* One element more: it is taken if it is in S.
LEMMA ChosenAppend ==
    ASSUME NEW T, NEW s \in Seq(T), NEW e \in T, NEW S
    PROVE  Chosen(Append(s, e), S) = IF e \in S THEN Append(Chosen(s, S), e) ELSE Chosen(s, S)
<1> DEFINE r == Append(s, e)
<1>1. PICK N \in Nat : N = Len(s)
  OBVIOUS
<1>2. r \in Seq(T) /\ Len(r) = N + 1 /\ r[N + 1] = e /\ \A i \in 1 .. N : r[i] = s[i]
  BY <1>1
<1> HIDE DEF r
<1>3. PICK f : Walks(f, T, s, S) /\ Chosen(s, S) = f[Len(s)]
  BY ChosenUnfolds
<1>4. PICK h : Walks(h, T, r, S) /\ Chosen(r, S) = h[Len(r)]
  BY <1>2, ChosenUnfolds
<1>5. \A i \in 1 .. N + 1 : h[i] = IF r[i] \in S THEN Append(h[i - 1], r[i]) ELSE h[i - 1]
  BY <1>2, <1>4 DEF Walks
<1>6. \A i \in 1 .. N : f[i] = IF s[i] \in S THEN Append(f[i - 1], s[i]) ELSE f[i - 1]
  BY <1>1, <1>3 DEF Walks
<1> DEFINE P == {n \in Nat : n \in 0 .. N => h[n] = f[n]}
<1>7. 0 \in P
  BY <1>3, <1>4 DEF Walks
<1>8. ASSUME NEW n \in Nat, n \in P PROVE n + 1 \in P
  <2> SUFFICES ASSUME n + 1 \in 0 .. N PROVE h[n + 1] = f[n + 1]
    OBVIOUS
  <2>1. n \in 0 .. N /\ n + 1 \in 1 .. N /\ n + 1 \in 1 .. N + 1 /\ (n + 1) - 1 = n
    OBVIOUS
  <2>2. h[n] = f[n] /\ r[n + 1] = s[n + 1]
    BY <1>2, <1>8, <2>1
  <2>3. h[n + 1] = IF r[n + 1] \in S THEN Append(h[n], r[n + 1]) ELSE h[n]
    BY <1>5, <2>1
  <2>4. f[n + 1] = IF s[n + 1] \in S THEN Append(f[n], s[n + 1]) ELSE f[n]
    BY <1>6, <2>1
  <2> QED BY <2>2, <2>3, <2>4
<1>9. N \in P
  <2> HIDE DEF P
  <2> QED BY <1>7, <1>8, CountedUp
<1>10. h[N] = f[N]
  BY <1>9
<1>11. h[N + 1] = IF r[N + 1] \in S THEN Append(h[N], r[N + 1]) ELSE h[N]
  <2>1. N + 1 \in 1 .. N + 1 /\ (N + 1) - 1 = N
    OBVIOUS
  <2> QED BY <1>5, <2>1
<1> QED BY <1>1, <1>2, <1>3, <1>4, <1>10, <1>11 DEF r

\* What is chosen is a sequence of the elements that are in S.
LEMMA ChosenElements ==
    ASSUME NEW T, NEW s \in Seq(T), NEW S
    PROVE  /\ Chosen(s, S) \in Seq(T)
           /\ ToSet(Chosen(s, S)) = ToSet(s) \cap S
           /\ Len(Chosen(s, S)) <= Len(s)
<1> DEFINE Good(t) == /\ Chosen(t, S) \in Seq(T)
                      /\ ToSet(Chosen(t, S)) = ToSet(t) \cap S
                      /\ Len(Chosen(t, S)) <= Len(t)
           P == {t \in Seq(T) : Good(t)}
<1>1. << >> \in P
  <2>1. << >> \in Seq(T) /\ Len(<< >>) <= Len(<< >>) /\ Chosen(<< >>, S) = << >>
    BY ChosenOfNone
  <2>2. Good(<< >>)
    BY <2>1, EmptyQueue
  <2> HIDE DEF Good
  <2> QED BY <2>1, <2>2
<1>2. ASSUME NEW t \in Seq(T), NEW e \in T, t \in P PROVE Append(t, e) \in P
  <2>1. Good(t)
    BY <1>2
  <2>2. /\ Append(t, e) \in Seq(T) /\ Len(Append(t, e)) = Len(t) + 1
        /\ ToSet(Append(t, e)) = ToSet(t) \cup {e}
    BY AppendElements
  <2>3. CASE e \in S
    <3>1. Chosen(Append(t, e), S) = Append(Chosen(t, S), e)
      BY <2>3, ChosenAppend
    <3>2. /\ Append(Chosen(t, S), e) \in Seq(T)
          /\ Len(Append(Chosen(t, S), e)) = Len(Chosen(t, S)) + 1
          /\ ToSet(Append(Chosen(t, S), e)) = ToSet(Chosen(t, S)) \cup {e}
      BY <2>1, AppendElements
    <3>3. ToSet(Append(Chosen(t, S), e)) = ToSet(Append(t, e)) \cap S
      BY <2>1, <2>2, <2>3, <3>2
    <3>4. Len(Chosen(t, S)) + 1 <= Len(t) + 1
      BY <2>1, LenProperties
    <3> QED BY <2>2, <3>1, <3>2, <3>3, <3>4
  <2>4. CASE e \notin S
    <3>1. Chosen(Append(t, e), S) = Chosen(t, S)
      BY <2>4, ChosenAppend
    <3>2. ToSet(t) \cap S = ToSet(Append(t, e)) \cap S
      BY <2>2, <2>4
    <3>3. Len(Chosen(t, S)) <= Len(t) + 1
      BY <2>1, LenProperties
    <3> QED BY <2>1, <2>2, <3>1, <3>2, <3>3
  <2> QED BY <2>3, <2>4
<1>3. s \in P
  <2> HIDE DEF P
  <2> QED BY <1>1, <1>2, AppendedUp
<1> QED BY <1>3

\* What is true of any two elements, the first before the second, remains true.
LEMMA ChosenPairs ==
    ASSUME NEW T, NEW s \in Seq(T), NEW S, NEW R,
           \A i, j \in 1 .. Len(s) : i < j => << s[i], s[j] >> \in R
    PROVE  \A i, j \in 1 .. Len(Chosen(s, S)) :
             i < j => << Chosen(s, S)[i], Chosen(s, S)[j] >> \in R
<1> DEFINE Paired(t) == \A i, j \in 1 .. Len(t) : i < j => << t[i], t[j] >> \in R
           P == {t \in Seq(T) : Paired(t) => Paired(Chosen(t, S))}
<1>1. << >> \in P
  BY ChosenOfNone
<1>2. ASSUME NEW t \in Seq(T), NEW e \in T, t \in P PROVE Append(t, e) \in P
  <2> SUFFICES ASSUME Paired(Append(t, e)) PROVE Paired(Chosen(Append(t, e), S))
    BY AppendElements
  <2> DEFINE c == Chosen(t, S)
  <2>1. /\ Append(t, e) \in Seq(T) /\ Len(Append(t, e)) = Len(t) + 1 /\ Len(t) \in Nat
        /\ \A i \in 1 .. Len(t) : Append(t, e)[i] = t[i]
        /\ Append(t, e)[Len(t) + 1] = e
    OBVIOUS
  <2>2. Paired(t) /\ \A i \in 1 .. Len(t) : << t[i], e >> \in R
    <3>1. PICK a : a = Append(t, e)
      OBVIOUS
    <3>2. PICK n \in Nat : n = Len(t)
      BY <2>1
    <3>3. \A i, j \in 1 .. n + 1 : i < j => << a[i], a[j] >> \in R
      BY <2>1, <3>1, <3>2
    <3>4. (\A i \in 1 .. n : a[i] = t[i]) /\ a[n + 1] = e
      BY <2>1, <3>1, <3>2
    <3>5. \A i \in 1 .. n : i \in 1 .. n + 1 /\ n + 1 \in 1 .. n + 1 /\ i < n + 1
      OBVIOUS
    <3>6. \A i \in 1 .. n : << t[i], e >> \in R
      BY <3>3, <3>4, <3>5, Zenon
    <3>7. \A i, j \in 1 .. n : i < j => << t[i], t[j] >> \in R
      BY <3>3, <3>4, <3>5, Zenon
    <3> QED BY <3>2, <3>6, <3>7, Zenon
  <2>3. Paired(c)
    BY <1>2, <2>2
  <2>4. c \in Seq(T) /\ Len(c) \in Nat /\ \A i \in 1 .. Len(c) : c[i] \in ToSet(t)
    <3>1. c \in Seq(T) /\ ToSet(c) = ToSet(t) \cap S
      BY ChosenElements
    <3> HIDE DEF c
    <3>2. Len(c) \in Nat /\ \A i \in 1 .. Len(c) : c[i] \in ToSet(c)
      BY <3>1 DEF ToSet
    <3> QED BY <3>1, <3>2
  <2>5. ASSUME NEW i \in 1 .. Len(c) PROVE << c[i], e >> \in R
    <3>1. PICK k \in 1 .. Len(t) : c[i] = t[k]
      BY <2>4 DEF ToSet
    <3> QED BY <2>2, <3>1
  <2>6. CASE e \in S
    <3>1. Chosen(Append(t, e), S) = Append(c, e)
      BY <2>6, ChosenAppend
    <3> HIDE DEF c
    <3>2. /\ Len(Append(c, e)) = Len(c) + 1
          /\ \A i \in 1 .. Len(c) : Append(c, e)[i] = c[i]
          /\ Append(c, e)[Len(c) + 1] = e
      BY <2>4
    <3>3. Paired(Append(c, e))
      BY <2>3, <2>4, <2>5, <3>2
    <3> QED BY <3>1, <3>3
  <2>7. CASE e \notin S
    <3>1. Chosen(Append(t, e), S) = c
      BY <2>7, ChosenAppend
    <3> HIDE DEF c
    <3> QED BY <2>3, <3>1
  <2> QED BY <2>6, <2>7
<1>3. s \in P
  <2> HIDE DEF P
  <2> QED BY <1>1, <1>2, AppendedUp
<1> QED BY <1>3

\* One walk after the other.
LEMMA ChosenConcat ==
    ASSUME NEW T, NEW s \in Seq(T), NEW t \in Seq(T), NEW S
    PROVE  Chosen(s \o t, S) = Chosen(s, S) \o Chosen(t, S)
<1> DEFINE P == {r \in Seq(T) : Chosen(s \o r, S) = Chosen(s, S) \o Chosen(r, S)}
<1>0. Chosen(s, S) \in Seq(T)
  BY ChosenElements
<1>1. << >> \in P
  <2>1. s \o << >> = s /\ Chosen(s, S) \o << >> = Chosen(s, S)
    BY <1>0, ConcatEmptySeq
  <2>2. << >> \in Seq(T)
    OBVIOUS
  <2> QED BY <2>1, <2>2, ChosenOfNone
<1>2. ASSUME NEW r \in Seq(T), NEW e \in T, r \in P PROVE Append(r, e) \in P
  <2>1. Chosen(s \o r, S) = Chosen(s, S) \o Chosen(r, S)
    BY <1>2
  <2>2. s \o r \in Seq(T) /\ Chosen(r, S) \in Seq(T) /\ Append(r, e) \in Seq(T)
    BY ConcatProperties, ChosenElements, AppendElements
  <2>3. s \o Append(r, e) = Append(s \o r, e)
    OBVIOUS
  <2>4. Chosen(s, S) \o Append(Chosen(r, S), e) = Append(Chosen(s, S) \o Chosen(r, S), e)
    <3>1. ASSUME NEW x \in Seq(T), NEW y \in Seq(T)
          PROVE  x \o Append(y, e) = Append(x \o y, e)
      OBVIOUS
    <3> QED BY <1>0, <2>2, <3>1
  <2>5. Chosen(Append(s \o r, e), S)
          = IF e \in S THEN Append(Chosen(s \o r, S), e) ELSE Chosen(s \o r, S)
    BY <2>2, ChosenAppend
  <2>6. Chosen(Append(r, e), S) = IF e \in S THEN Append(Chosen(r, S), e) ELSE Chosen(r, S)
    BY <2>2, ChosenAppend
  <2>7. Chosen(s \o Append(r, e), S) = Chosen(s, S) \o Chosen(Append(r, e), S)
    BY <2>1, <2>3, <2>4, <2>5, <2>6, Zenon
  <2> QED BY <2>2, <2>7
<1>3. t \in P
  <2> HIDE DEF P
  <2> QED BY <1>1, <1>2, AppendedUp
<1> QED BY <1>3

LEMMA ChosenOfOne ==
    ASSUME NEW T, NEW e \in T, NEW S
    PROVE  Chosen(<< e >>, S) = IF e \in S THEN << e >> ELSE << >>
<1>1. << e >> = Append(<< >>, e) /\ << >> \in Seq(T)
  OBVIOUS
<1>2. Chosen(Append(<< >>, e), S) = IF e \in S THEN Append(Chosen(<< >>, S), e) ELSE Chosen(<< >>, S)
  BY <1>1, ChosenAppend
<1>3. Chosen(<< >>, S) = << >>
  BY ChosenOfNone
<1> QED BY <1>1, <1>2, <1>3

LEMMA ChosenPush ==
    ASSUME NEW T, NEW e \in T, NEW s \in Seq(T), NEW S
    PROVE  Chosen(<< e >> \o s, S) = IF e \in S THEN << e >> \o Chosen(s, S) ELSE Chosen(s, S)
<1>1. << e >> \in Seq(T) /\ Chosen(s, S) \in Seq(T)
  BY ChosenElements
<1>2. Chosen(<< e >> \o s, S) = Chosen(<< e >>, S) \o Chosen(s, S)
  <2>1. ASSUME NEW r \in Seq(T) PROVE Chosen(r \o s, S) = Chosen(r, S) \o Chosen(s, S)
    BY ChosenConcat
  <2> QED BY <1>1, <2>1, Zenon
<1>3. << >> \o Chosen(s, S) = Chosen(s, S)
  BY <1>1, ConcatEmptySeq
<1>4. Chosen(<< e >>, S) = IF e \in S THEN << e >> ELSE << >>
  BY ChosenOfOne
<1> QED BY <1>2, <1>3, <1>4, Zenon

\* Only which of the elements are in the set matters.
LEMMA ChosenSame ==
    ASSUME NEW T, NEW s \in Seq(T), NEW R, NEW S,
           \A x \in ToSet(s) : x \in R <=> x \in S
    PROVE  Chosen(s, R) = Chosen(s, S)
<1> DEFINE Agree(t) == \A x \in ToSet(t) : x \in R <=> x \in S
           P == {t \in Seq(T) : Agree(t) => Chosen(t, R) = Chosen(t, S)}
<1>1. << >> \in P
  <2>1. << >> \in Seq(T)
    OBVIOUS
  <2> QED BY <2>1, ChosenOfNone
<1>2. ASSUME NEW t \in Seq(T), NEW e \in T, t \in P PROVE Append(t, e) \in P
  <2>1. Append(t, e) \in Seq(T) /\ ToSet(Append(t, e)) = ToSet(t) \cup {e}
    BY AppendElements
  <2> SUFFICES ASSUME Agree(Append(t, e))
               PROVE  Chosen(Append(t, e), R) = Chosen(Append(t, e), S)
    BY <2>1
  <2>2. Agree(t) /\ (e \in R <=> e \in S)
    BY <2>1
  <2>3. Chosen(t, R) = Chosen(t, S)
    BY <1>2, <2>2
  <2>4. Chosen(Append(t, e), R) = IF e \in R THEN Append(Chosen(t, R), e) ELSE Chosen(t, R)
    BY ChosenAppend
  <2>5. Chosen(Append(t, e), S) = IF e \in S THEN Append(Chosen(t, S), e) ELSE Chosen(t, S)
    BY ChosenAppend
  <2> QED BY <2>2, <2>3, <2>4, <2>5, Zenon
<1>3. s \in P
  <2> HIDE DEF P
  <2> QED BY <1>1, <1>2, AppendedUp
<1> QED BY <1>3

LEMMA ChosenAll ==
    ASSUME NEW T, NEW s \in Seq(T), NEW S, ToSet(s) \subseteq S
    PROVE  Chosen(s, S) = s
<1> DEFINE P == {t \in Seq(T) : ToSet(t) \subseteq S => Chosen(t, S) = t}
<1>1. << >> \in P
  <2>1. << >> \in Seq(T)
    OBVIOUS
  <2> QED BY <2>1, ChosenOfNone
<1>2. ASSUME NEW t \in Seq(T), NEW e \in T, t \in P PROVE Append(t, e) \in P
  <2>1. Append(t, e) \in Seq(T) /\ ToSet(Append(t, e)) = ToSet(t) \cup {e}
    BY AppendElements
  <2> QED BY <1>2, <2>1, ChosenAppend
<1>3. s \in P
  <2> HIDE DEF P
  <2> QED BY <1>1, <1>2, AppendedUp
<1> QED BY <1>3

\* A choice among what was chosen.
LEMMA ChosenTwice ==
    ASSUME NEW T, NEW s \in Seq(T), NEW R, NEW S
    PROVE  Chosen(Chosen(s, R), S) = Chosen(s, R \cap S)
<1> DEFINE P == {t \in Seq(T) : Chosen(Chosen(t, R), S) = Chosen(t, R \cap S)}
<1>1. << >> \in P
  <2>1. << >> \in Seq(T)
    OBVIOUS
  <2> QED BY <2>1, ChosenOfNone
<1>2. ASSUME NEW t \in Seq(T), NEW e \in T, t \in P PROVE Append(t, e) \in P
  <2>1. Append(t, e) \in Seq(T) /\ Chosen(t, R) \in Seq(T)
    BY AppendElements, ChosenElements
  <2>2. Chosen(Chosen(t, R), S) = Chosen(t, R \cap S)
    BY <1>2
  <2>3. CASE e \in R
    <3>1. Chosen(Append(t, e), R) = Append(Chosen(t, R), e)
      BY <2>3, ChosenAppend
    <3>2. Chosen(Append(Chosen(t, R), e), S)
            = IF e \in S THEN Append(Chosen(Chosen(t, R), S), e) ELSE Chosen(Chosen(t, R), S)
      BY <2>1, ChosenAppend
    <3>3. Chosen(Append(t, e), R \cap S)
            = IF e \in R \cap S THEN Append(Chosen(t, R \cap S), e) ELSE Chosen(t, R \cap S)
      BY ChosenAppend
    <3>4. Chosen(Chosen(Append(t, e), R), S) = Chosen(Append(t, e), R \cap S)
      <4>1. e \in S <=> e \in R \cap S
        BY <2>3
      <4> QED BY <2>2, <3>1, <3>2, <3>3, <4>1, Zenon
    <3> QED BY <2>1, <3>4
  <2>4. CASE e \notin R
    <3>1. Chosen(Append(t, e), R) = Chosen(t, R)
      BY <2>4, ChosenAppend
    <3>2. Chosen(Append(t, e), R \cap S) = Chosen(t, R \cap S)
      BY <2>4, ChosenAppend
    <3>3. Chosen(Chosen(Append(t, e), R), S) = Chosen(Append(t, e), R \cap S)
      BY <2>2, <3>1, <3>2, Zenon
    <3> QED BY <2>1, <3>3
  <2> QED BY <2>3, <2>4
<1>3. s \in P
  <2> HIDE DEF P
  <2> QED BY <1>1, <1>2, AppendedUp
<1> QED BY <1>3

\* The first that is chosen is the first that is in the set.
LEMMA ChosenFirst ==
    ASSUME NEW T, NEW s \in Seq(T), NEW S, NEW n \in 1 .. Len(s),
           s[n] \in S, \A j \in 1 .. n - 1 : s[j] \notin S
    PROVE  Chosen(s, S) # << >> /\ Head(Chosen(s, S)) = s[n]
<1> DEFINE First(t, i) == t[i] \in S /\ \A j \in 1 .. i - 1 : t[j] \notin S
           P == {t \in Seq(T) : \A i \in 1 .. Len(t) :
                   First(t, i) => Chosen(t, S) # << >> /\ Head(Chosen(t, S)) = t[i]}
<1>1. << >> \in P
  OBVIOUS
<1>2. ASSUME NEW t \in Seq(T), NEW e \in T, t \in P PROVE Append(t, e) \in P
  <2>1. /\ Append(t, e) \in Seq(T) /\ Len(Append(t, e)) = Len(t) + 1 /\ Len(t) \in Nat
        /\ \A i \in 1 .. Len(t) : Append(t, e)[i] = t[i]
        /\ Append(t, e)[Len(t) + 1] = e
    OBVIOUS
  <2> SUFFICES ASSUME NEW i \in 1 .. Len(t) + 1, First(Append(t, e), i)
               PROVE  /\ Chosen(Append(t, e), S) # << >>
                      /\ Head(Chosen(Append(t, e), S)) = Append(t, e)[i]
    BY <2>1
  <2>2. Chosen(t, S) \in Seq(T)
    BY ChosenElements
  <2>3. CASE i \in 1 .. Len(t)
    <3>1. First(t, i)
      <4>1. \A j \in 1 .. i - 1 : j \in 1 .. Len(t)
        BY <2>1, <2>3
      <4> QED BY <2>1, <2>3, <4>1
    <3>2. Chosen(t, S) # << >> /\ Head(Chosen(t, S)) = t[i]
      BY <1>2, <2>3, <3>1
    <3>3. ASSUME NEW c \in Seq(T), c # << >>
          PROVE  Append(c, e) # << >> /\ Head(Append(c, e)) = Head(c)
      BY <3>3
    <3>4. /\ Append(Chosen(t, S), e) # << >>
          /\ Head(Append(Chosen(t, S), e)) = Head(Chosen(t, S))
      BY <2>2, <3>2, <3>3
    <3>5. Chosen(Append(t, e), S) = IF e \in S THEN Append(Chosen(t, S), e) ELSE Chosen(t, S)
      BY ChosenAppend
    <3>6. Append(t, e)[i] = t[i]
      BY <2>1, <2>3
    <3> QED BY <3>2, <3>4, <3>5, <3>6, Zenon
  <2>4. CASE i = Len(t) + 1
    <3>1. \A x \in ToSet(t) : x \notin S
      BY <2>1, <2>4 DEF ToSet
    <3>2. ToSet(Chosen(t, S)) = {}
      BY <3>1, ChosenElements
    <3>3. Chosen(t, S) = << >>
      BY <2>2, <3>2, QueueElements
    <3>4. e \in S
      BY <2>1, <2>4
    <3>5. Chosen(Append(t, e), S) = Append(<< >>, e)
      BY <3>3, <3>4, ChosenAppend
    <3> QED BY <2>1, <2>4, <3>5
  <2> QED BY <2>3, <2>4
<1>3. s \in P
  <2> HIDE DEF P
  <2> QED BY <1>1, <1>2, AppendedUp
<1> QED BY <1>3

\* A list without its element at n.
LEMMA ChosenWithout ==
    ASSUME NEW T, NEW s \in Seq(T), IsInjective(s), NEW n \in 1 .. Len(s)
    PROVE  /\ Len(Chosen(s, T \ {s[n]})) = Len(s) - 1
           /\ \A j \in 1 .. Len(s) - 1 :
                Chosen(s, T \ {s[n]})[j] = IF j < n THEN s[j] ELSE s[j + 1]
<1> DEFINE Out(t, i) == Chosen(t, T \ {t[i]})
           Left(t, i, c) == /\ Len(c) = Len(t) - 1
                            /\ \A j \in 1 .. Len(t) - 1 : c[j] = IF j < i THEN t[j] ELSE t[j + 1]
           P == {t \in Seq(T) : IsInjective(t) => \A i \in 1 .. Len(t) : Left(t, i, Out(t, i))}
<1>1. << >> \in P
  OBVIOUS
<1>2. ASSUME NEW t \in Seq(T), NEW e \in T, t \in P, NEW r, r = Append(t, e) PROVE r \in P
  <2>1. /\ r \in Seq(T) /\ Len(r) = Len(t) + 1 /\ Len(t) \in Nat
        /\ \A i \in 1 .. Len(t) : r[i] = t[i]
        /\ r[Len(t) + 1] = e
    BY <1>2
  <2>2. ASSUME IsInjective(r), NEW i \in 1 .. Len(r) PROVE Left(r, i, Out(r, i))
    <3>1. IsInjective(t) /\ \A j \in 1 .. Len(t) : t[j] # e
      <4>1. DOMAIN r = 1 .. Len(t) + 1 /\ DOMAIN t = 1 .. Len(t)
        BY <2>1
      <4>2. \A a, b \in 1 .. Len(t) + 1 : r[a] = r[b] => a = b
        BY <2>2, <4>1 DEF IsInjective
      <4> QED BY <2>1, <4>1, <4>2 DEF IsInjective
    <3>2. Chosen(r, T \ {r[i]})
            = IF e \in T \ {r[i]} THEN Append(Chosen(t, T \ {r[i]}), e) ELSE Chosen(t, T \ {r[i]})
      <4>1. ASSUME NEW D
            PROVE  Chosen(Append(t, e), D)
                     = IF e \in D THEN Append(Chosen(t, D), e) ELSE Chosen(t, D)
        BY ChosenAppend
      <4> QED BY <1>2, <4>1, Zenon
    <3>3. CASE i \in 1 .. Len(t)
      <4>1. r[i] = t[i] /\ t[i] # e
        BY <2>1, <3>1, <3>3
      <4> DEFINE c == Out(t, i)
      <4>2. c \in Seq(T)
        BY ChosenElements
      <4>3. /\ Len(c) = Len(t) - 1
            /\ \A j \in 1 .. Len(t) - 1 : c[j] = IF j < i THEN t[j] ELSE t[j + 1]
        BY <1>2, <3>1, <3>3
      <4>4. Out(r, i) = Append(c, e)
        BY <1>2, <3>2, <4>1
      <4> HIDE DEF c, Out
      <4>5. /\ Len(Append(c, e)) = Len(t) /\ Append(c, e)[Len(t)] = e
            /\ \A j \in 1 .. Len(t) - 1 : Append(c, e)[j] = c[j]
        BY <2>1, <3>3, <4>2, <4>3
      <4>6. Left(r, i, Append(c, e))
        <5>1. ASSUME NEW j \in 1 .. Len(r) - 1
              PROVE  Append(c, e)[j] = IF j < i THEN r[j] ELSE r[j + 1]
          <6>1. CASE j = Len(t)
            BY <2>1, <3>3, <4>5, <6>1
          <6>2. CASE j # Len(t)
            <7>1. j \in 1 .. Len(t) - 1 /\ j \in 1 .. Len(t) /\ j + 1 \in 1 .. Len(t)
              BY <2>1, <6>2
            <7>2. Append(c, e)[j] = IF j < i THEN t[j] ELSE t[j + 1]
              BY <4>3, <4>5, <7>1
            <7>3. r[j] = t[j] /\ r[j + 1] = t[j + 1]
              BY <2>1, <7>1
            <7> QED BY <7>2, <7>3
          <6> QED BY <6>1, <6>2
        <5> QED BY <2>1, <4>5, <5>1
      <4> QED BY <4>4, <4>6
    <3>4. CASE i = Len(t) + 1
      <4>1. r[i] = e
        BY <2>1, <3>4
      <4>2. ToSet(t) \subseteq T \ {e}
        BY <3>1 DEF ToSet
      <4>3. Chosen(t, T \ {e}) = t
        BY <4>2, ChosenAll
      <4>4. Out(r, i) = t
        BY <3>2, <4>1, <4>3
      <4> HIDE DEF Out
      <4>5. Left(r, i, t)
        BY <2>1, <3>4
      <4> QED BY <4>4, <4>5
    <3>5. i \in 1 .. Len(t) \/ i = Len(t) + 1
      BY <2>1, <2>2
    <3> QED BY <3>3, <3>4, <3>5
  <2> HIDE DEF Left, Out
  <2> QED BY <2>1, <2>2
<1>3. s \in P
  <2>1. \A t \in Seq(T), e \in T : t \in P => Append(t, e) \in P
    <3> HIDE DEF P
    <3> QED BY <1>2
  <2> HIDE DEF P
  <2> QED BY <1>1, <2>1, AppendedUp
<1> QED BY <1>3

-----------------------------------------------------------------------------
(* Regions. *)

\* check_entry_collision sees no collision exactly if the two regions have no
\* page in common.
THEOREM CollisionExact ==
    ASSUME NEW item \in Regions, NEW e \in Regions
    PROVE  ~Collides(item, e) <=> Pages(item) \cap Pages(e) = {}
<1>1. item.base \in Nat /\ item.size \in Nat \ {0} /\ e.base \in Nat /\ e.size \in Nat \ {0}
  BY DEF Regions
<1>2. ASSUME ~Collides(item, e) PROVE Pages(item) \cap Pages(e) = {}
  BY <1>1, <1>2 DEF Collides, Collision, Pages, EndOf
<1>3. ASSUME Pages(item) \cap Pages(e) = {} PROVE ~Collides(item, e)
  <2>1. item.base \notin Pages(e) /\ EndOf(item) \notin Pages(e)
        /\ e.base \notin Pages(item) /\ EndOf(e) \notin Pages(item)
    BY <1>1, <1>3 DEF Pages, EndOf
  <2> QED BY <1>1, <2>1 DEF Collides, Collision, Pages, EndOf
<1> QED BY <1>2, <1>3

\* memory_map_exclude leaves of an item the pages outside the excluded region, in
\* regions that are ordered and not empty: the panics on an empty region in
\* exclude_inside and memory_map_exclude are never reached.
THEOREM PiecesExact ==
    ASSUME NEW item \in Regions, NEW e \in Regions
    PROVE  /\ Pieces(item, e) \in Seq(Regions)
           /\ Ordered(Pieces(item, e))
           /\ PagesOf(Pieces(item, e)) = Pages(item) \ Pages(e)
<1>1. item.base \in Nat /\ item.size \in Nat \ {0} /\ e.base \in Nat /\ e.size \in Nat \ {0}
      /\ item = Region(item.base, item.size)
  BY DEF Regions, Region
<1>2. ASSUME NEW r \in Regions, Pieces(item, e) = << r >>, Pages(r) = Pages(item) \ Pages(e)
      PROVE  /\ Pieces(item, e) \in Seq(Regions)
             /\ Ordered(Pieces(item, e))
             /\ PagesOf(Pieces(item, e)) = Pages(item) \ Pages(e)
  BY <1>2 DEF Ordered, PagesOf
<1>3. CASE Collision(item, e) = "OVERLAP"
  <2>1. e.base <= item.base /\ EndOf(item) <= EndOf(e)
    BY <1>3 DEF Collision
  <2>2. Pages(item) \ Pages(e) = {}
    BY <1>1, <2>1 DEF Pages, EndOf
  <2>3. Pieces(item, e) = << >>
    BY <1>3 DEF Pieces
  <2> QED BY <2>2, <2>3 DEF Ordered, PagesOf
<1>4. CASE Collision(item, e) = "INSIDE"
  <2>1. /\ e.base >= item.base /\ EndOf(e) <= EndOf(item)
        /\ ~(e.base <= item.base /\ EndOf(item) <= EndOf(e))
    BY <1>4 DEF Collision
  <2>2. Pieces(item, e) = InsidePieces(item, e)
    BY <1>4 DEF Pieces
  <2>3. CASE item.base = e.base
    <3>1. Pieces(item, e) = << Region(item.base + e.size, item.size - e.size) >>
      BY <2>2, <2>3 DEF InsidePieces
    <3>2. Region(item.base + e.size, item.size - e.size) \in Regions
      BY <1>1, <2>1, <2>3 DEF Region, Regions, EndOf
    <3>3. Pages(Region(item.base + e.size, item.size - e.size)) = Pages(item) \ Pages(e)
      BY <1>1, <2>1, <2>3 DEF Pages, EndOf, Region
    <3> QED BY <1>2, <3>1, <3>2, <3>3
  <2>4. CASE item.base # e.base /\ EndOf(item) = EndOf(e)
    <3>1. Pieces(item, e) = << Region(item.base, item.size - e.size) >>
      BY <2>2, <2>4 DEF InsidePieces
    <3>2. Region(item.base, item.size - e.size) \in Regions
      BY <1>1, <2>1, <2>4 DEF Region, Regions, EndOf
    <3>3. Pages(Region(item.base, item.size - e.size)) = Pages(item) \ Pages(e)
      BY <1>1, <2>1, <2>4 DEF Pages, EndOf, Region
    <3> QED BY <1>2, <3>1, <3>2, <3>3
  <2>5. CASE item.base # e.base /\ EndOf(item) # EndOf(e)
    <3> DEFINE a == Region(item.base, e.base - item.base)
               b == Region(e.base + e.size, EndOf(item) - EndOf(e))
    <3>1. Pieces(item, e) = << a, b >>
      BY <2>2, <2>5 DEF InsidePieces
    <3>2. a \in Regions /\ b \in Regions
      BY <1>1, <2>1, <2>5 DEF Region, Regions, EndOf
    <3>3. EndOf(a) < b.base
      BY <1>1, <2>1, <2>5 DEF Region, EndOf
    <3>4. Pages(a) \cup Pages(b) = Pages(item) \ Pages(e)
      BY <1>1, <2>1, <2>5 DEF Pages, EndOf, Region
    <3> HIDE DEF a, b
    <3>5. Ordered(<< a, b >>)
      BY <3>3 DEF Ordered
    <3>6. PagesOf(<< a, b >>) = Pages(a) \cup Pages(b)
      <4>1. DOMAIN << a, b >> = {1, 2} /\ << a, b >>[1] = a /\ << a, b >>[2] = b
        OBVIOUS
      <4> QED BY <4>1, Zenon DEF PagesOf
    <3> QED BY <3>1, <3>2, <3>4, <3>5, <3>6
  <2> QED BY <2>3, <2>4, <2>5
<1>5. CASE Collision(item, e) = "BEGIN"
  <2>1. /\ e.base >= item.base /\ e.base <= EndOf(item)
        /\ ~(e.base <= item.base /\ EndOf(item) <= EndOf(e))
        /\ ~(e.base >= item.base /\ EndOf(e) <= EndOf(item))
    BY <1>5 DEF Collision
  <2>2. Pieces(item, e) = << Region(item.base, e.base - item.base) >>
    BY <1>5 DEF Pieces
  <2>3. Region(item.base, e.base - item.base) \in Regions
    BY <1>1, <2>1 DEF Region, Regions, EndOf
  <2>4. Pages(Region(item.base, e.base - item.base)) = Pages(item) \ Pages(e)
    BY <1>1, <2>1 DEF Pages, EndOf, Region
  <2> QED BY <1>2, <2>2, <2>3, <2>4
<1>6. CASE Collision(item, e) = "END"
  <2>1. /\ EndOf(e) >= item.base /\ EndOf(e) <= EndOf(item)
        /\ ~(e.base <= item.base /\ EndOf(item) <= EndOf(e))
        /\ ~(e.base >= item.base /\ EndOf(e) <= EndOf(item))
    BY <1>6 DEF Collision
  <2>2. Pieces(item, e) = << Region(EndOf(e) + 1, EndOf(item) - EndOf(e)) >>
    BY <1>6 DEF Pieces
  <2>3. Region(EndOf(e) + 1, EndOf(item) - EndOf(e)) \in Regions
    BY <1>1, <2>1 DEF Region, Regions, EndOf
  <2>4. Pages(Region(EndOf(e) + 1, EndOf(item) - EndOf(e))) = Pages(item) \ Pages(e)
    BY <1>1, <2>1 DEF Pages, EndOf, Region
  <2> QED BY <1>2, <2>2, <2>3, <2>4
<1>7. CASE Collision(item, e) = "NOTHING"
  <2>1. Pages(item) \cap Pages(e) = {}
    BY <1>7, CollisionExact DEF Collides
  <2>2. Pieces(item, e) = << item >>
    BY <1>7 DEF Pieces
  <2> QED BY <1>2, <2>1, <2>2
<1> QED BY <1>3, <1>4, <1>5, <1>6, <1>7 DEF Collision

-----------------------------------------------------------------------------
(* Lists. *)

LEMMA RegionEnds ==
    ASSUME NEW r \in Regions
    PROVE  r.base \in Nat /\ EndOf(r) \in Nat /\ r.base <= EndOf(r)
BY DEF Regions, EndOf

\* A list with the item at i replaced by some pieces.
Replaced(list, i, pieces) ==
    (SubSeq(list, 1, i - 1) \o pieces) \o SubSeq(list, i + 1, Len(list))

LEMMA ReplacedElements ==
    ASSUME NEW list \in Seq(Regions), NEW i \in 1 .. Len(list), NEW pieces \in Seq(Regions)
    PROVE  /\ Replaced(list, i, pieces) \in Seq(Regions)
           /\ Len(Replaced(list, i, pieces)) = Len(list) + Len(pieces) - 1
           /\ \A j \in 1 .. i - 1 : Replaced(list, i, pieces)[j] = list[j]
           /\ \A j \in 1 .. Len(pieces) : Replaced(list, i, pieces)[i - 1 + j] = pieces[j]
           /\ \A j \in i + 1 .. Len(list) :
                 Replaced(list, i, pieces)[j + Len(pieces) - 1] = list[j]
<1> DEFINE front == SubSeq(list, 1, i - 1)
           back == SubSeq(list, i + 1, Len(list))
<1>1. /\ front \in Seq(Regions) /\ Len(front) = i - 1
      /\ \A j \in 1 .. i - 1 : front[j] = list[j]
  BY SubSeqProperties
<1>2. /\ back \in Seq(Regions) /\ Len(back) = Len(list) - i
      /\ \A j \in 1 .. Len(list) - i : back[j] = list[i + j]
  BY SubSeqProperties
<1> HIDE DEF front, back
<1>3. PICK m \in Nat, n \in Nat, l \in Nat : m = i - 1 /\ n = Len(pieces) /\ l = Len(list) - i
  <2>1. i - 1 \in Nat /\ Len(pieces) \in Nat /\ Len(list) - i \in Nat
    OBVIOUS
  <2> QED BY <2>1, Zenon
<1>4. Len(front) = m /\ Len(pieces) = n /\ Len(back) = l
  BY <1>1, <1>2, <1>3
<1> DEFINE start == front \o pieces
           new == start \o back
<1>5. /\ start \in Seq(Regions) /\ Len(start) = m + n
      /\ \A j \in 1 .. m + n : start[j] = IF j <= m THEN front[j] ELSE pieces[j - m]
  BY <1>1, <1>4, ConcatProperties
<1> HIDE DEF start
<1>6. /\ new \in Seq(Regions) /\ Len(new) = m + n + l
      /\ \A j \in 1 .. m + n + l :
            new[j] = IF j <= m + n THEN start[j] ELSE back[j - (m + n)]
  <2>1. start \in Seq(Regions) /\ back \in Seq(Regions)
    BY <1>2, <1>5
  <2>2. /\ new \in Seq(Regions) /\ Len(new) = Len(start) + Len(back)
        /\ \A j \in 1 .. Len(start) + Len(back) :
              new[j] = IF j <= Len(start) THEN start[j] ELSE back[j - Len(start)]
    BY <2>1, ConcatProperties
  <2> HIDE DEF new
  <2> QED BY <1>4, <1>5, <2>2
<1> HIDE DEF new
<1>7. Len(new) = Len(list) + n - 1
  BY <1>3, <1>6
<1>8. ASSUME NEW j \in 1 .. i - 1 PROVE new[j] = list[j]
  <2>1. j \in 1 .. m + n + l /\ j \in 1 .. m + n /\ j <= m + n /\ j <= m
    BY <1>3
  <2> QED BY <1>1, <1>5, <1>6, <2>1
<1>9. ASSUME NEW j \in 1 .. n PROVE new[i - 1 + j] = pieces[j]
  <2>1. /\ i - 1 + j \in 1 .. m + n + l /\ i - 1 + j \in 1 .. m + n
        /\ ~(i - 1 + j <= m) /\ i - 1 + j <= m + n /\ (i - 1 + j) - m = j
    BY <1>3
  <2>2. new[i - 1 + j] = start[i - 1 + j]
    BY <1>6, <2>1
  <2> QED BY <1>5, <2>1, <2>2
<1>10. ASSUME NEW j \in i + 1 .. Len(list) PROVE new[j + n - 1] = list[j]
  <2>1. /\ j + n - 1 \in 1 .. m + n + l /\ ~(j + n - 1 <= m + n)
        /\ (j + n - 1) - (m + n) = j - i
    BY <1>3
  <2>2. new[j + n - 1] = back[j - i]
    BY <1>6, <2>1
  <2>3. j - i \in 1 .. Len(list) - i /\ i + (j - i) = j
    OBVIOUS
  <2> QED BY <1>2, <2>2, <2>3
<1> QED BY <1>3, <1>6, <1>7, <1>8, <1>9, <1>10 DEF Replaced, new, start, front, back

\* Replacing an item by ordered pieces of it keeps a list ordered and changes its
\* pages by those the pieces leave out.
LEMMA ReplaceKeepsOrder ==
    ASSUME NEW list \in Seq(Regions), Ordered(list),
           NEW i \in 1 .. Len(list),
           NEW pieces \in Seq(Regions), Ordered(pieces),
           PagesOf(pieces) \subseteq Pages(list[i])
    PROVE  /\ Ordered(Replaced(list, i, pieces))
           /\ PagesOf(Replaced(list, i, pieces)) =
                 (PagesOf(list) \ Pages(list[i])) \cup PagesOf(pieces)
<1> DEFINE new == Replaced(list, i, pieces)
           n == Len(pieces)
<1>1. /\ new \in Seq(Regions) /\ Len(new) = Len(list) + n - 1 /\ n \in Nat
      /\ \A j \in 1 .. i - 1 : new[j] = list[j]
      /\ \A j \in 1 .. n : new[i - 1 + j] = pieces[j]
      /\ \A j \in i + 1 .. Len(list) : new[j + n - 1] = list[j]
  <2>1. Len(pieces) \in Nat
    OBVIOUS
  <2> QED BY <2>1, ReplacedElements, Zenon
<1>2. \A j \in 1 .. Len(list) :
         /\ list[j] \in Regions /\ list[j].base \in Nat /\ EndOf(list[j]) \in Nat
         /\ list[j].base <= EndOf(list[j])
  <2>1. \A j \in 1 .. Len(list) : list[j] \in Regions
    OBVIOUS
  <2> QED BY <2>1, RegionEnds
<1>3. \A j \in 1 .. n :
         /\ pieces[j] \in Regions /\ pieces[j].base \in Nat /\ EndOf(pieces[j]) \in Nat
         /\ pieces[j].base <= EndOf(pieces[j])
  <2>1. \A j \in 1 .. n : pieces[j] \in Regions
    OBVIOUS
  <2> QED BY <2>1, RegionEnds
<1>4. \A j \in 1 .. n : list[i].base <= pieces[j].base /\ EndOf(pieces[j]) <= EndOf(list[i])
  <2> SUFFICES ASSUME NEW j \in 1 .. n
      PROVE  list[i].base <= pieces[j].base /\ EndOf(pieces[j]) <= EndOf(list[i])
    OBVIOUS
  <2>1. pieces[j].base \in Pages(pieces[j]) /\ EndOf(pieces[j]) \in Pages(pieces[j])
    BY <1>3 DEF Pages, EndOf
  <2>2. Pages(pieces[j]) \subseteq Pages(list[i])
    BY DEF PagesOf
  <2> QED BY <1>2, <1>3, <2>1, <2>2 DEF Pages, EndOf
<1> HIDE DEF new, n
<1>5. \A j \in 1 .. Len(new) :
         \/ j \in 1 .. i - 1 /\ new[j] = list[j]
         \/ j - (i - 1) \in 1 .. n /\ new[j] = pieces[j - (i - 1)]
         \/ j - n + 1 \in i + 1 .. Len(list) /\ new[j] = list[j - n + 1]
  <2> SUFFICES ASSUME NEW j \in 1 .. Len(new)
      PROVE  \/ j \in 1 .. i - 1 /\ new[j] = list[j]
             \/ j - (i - 1) \in 1 .. n /\ new[j] = pieces[j - (i - 1)]
             \/ j - n + 1 \in i + 1 .. Len(list) /\ new[j] = list[j - n + 1]
    OBVIOUS
  <2>1. CASE j <= i - 1
    BY <1>1, <2>1
  <2>2. CASE j > i - 1 /\ j <= i - 1 + n
    <3>1. j - (i - 1) \in 1 .. n /\ i - 1 + (j - (i - 1)) = j
      BY <1>1, <2>2
    <3> QED BY <1>1, <3>1
  <2>3. CASE j > i - 1 + n
    <3>1. j - n + 1 \in i + 1 .. Len(list) /\ (j - n + 1) + n - 1 = j
      BY <1>1, <2>3
    <3> QED BY <1>1, <3>1
  <2> QED BY <1>1, <2>1, <2>2, <2>3
<1>6. Ordered(new)
  <2> SUFFICES ASSUME NEW j \in 1 .. Len(new), NEW k \in 1 .. Len(new), j < k
      PROVE  EndOf(new[j]) < new[k].base
    BY <1>1 DEF Ordered
  <2>1. \A a, b \in 1 .. Len(list) : a < b => EndOf(list[a]) < list[b].base
    BY DEF Ordered
  <2>2. \A a, b \in 1 .. n : a < b => EndOf(pieces[a]) < pieces[b].base
    BY DEF Ordered, n
  <2>3. CASE j \in 1 .. i - 1 /\ new[j] = list[j]
    <3>1. CASE k \in 1 .. i - 1 /\ new[k] = list[k]
      BY <2>1, <2>3, <3>1
    <3>2. CASE k - (i - 1) \in 1 .. n /\ new[k] = pieces[k - (i - 1)]
      <4>1. PICK b \in 1 .. n : new[k] = pieces[b]
        BY <3>2
      <4>2. EndOf(list[j]) < list[i].base /\ list[i].base <= pieces[b].base
        BY <1>4, <2>1, <2>3
      <4>3. /\ EndOf(list[j]) \in Nat /\ list[i].base \in Nat /\ pieces[b].base \in Nat
            /\ EndOf(new[j]) = EndOf(list[j]) /\ new[k].base = pieces[b].base
        BY <1>2, <1>3, <2>3, <4>1
      <4> QED BY <4>2, <4>3
    <3>3. CASE k - n + 1 \in i + 1 .. Len(list) /\ new[k] = list[k - n + 1]
      <4>1. PICK b \in i + 1 .. Len(list) : new[k] = list[b]
        BY <3>3
      <4> QED BY <2>1, <2>3, <4>1
    <3> QED BY <1>5, <3>1, <3>2, <3>3
  <2>4. CASE j - (i - 1) \in 1 .. n /\ new[j] = pieces[j - (i - 1)]
    <3>1. CASE k \in 1 .. i - 1
      BY <1>1, <2>4, <3>1
    <3>2. CASE k - (i - 1) \in 1 .. n /\ new[k] = pieces[k - (i - 1)]
      BY <1>1, <2>2, <2>4, <3>2
    <3>3. CASE k - n + 1 \in i + 1 .. Len(list) /\ new[k] = list[k - n + 1]
      <4>1. PICK a \in 1 .. n : new[j] = pieces[a]
        BY <2>4
      <4>2. PICK b \in i + 1 .. Len(list) : new[k] = list[b]
        BY <3>3
      <4>3. EndOf(pieces[a]) <= EndOf(list[i]) /\ EndOf(list[i]) < list[b].base
        BY <1>4, <2>1
      <4> QED BY <1>2, <1>3, <4>1, <4>2, <4>3
    <3> QED BY <1>5, <3>1, <3>2, <3>3
  <2>5. CASE j - n + 1 \in i + 1 .. Len(list) /\ new[j] = list[j - n + 1]
    <3>1. k - n + 1 \in i + 1 .. Len(list) /\ j - n + 1 < k - n + 1
      BY <1>1, <2>5
    <3>2. new[k] = list[k - n + 1]
      BY <1>1, <1>5, <3>1
    <3>3. PICK a \in 1 .. Len(list), b \in 1 .. Len(list) :
             a < b /\ new[j] = list[a] /\ new[k] = list[b]
      BY <2>5, <3>1, <3>2
    <3> QED BY <2>1, <3>3
  <2> QED BY <1>5, <2>3, <2>4, <2>5
<1>7. PagesOf(new) = (PagesOf(list) \ Pages(list[i])) \cup PagesOf(pieces)
  <2>1. \A a \in 1 .. Len(list) : a # i => Pages(list[a]) \cap Pages(list[i]) = {}
    <3> SUFFICES ASSUME NEW a \in 1 .. Len(list), a # i
        PROVE  Pages(list[a]) \cap Pages(list[i]) = {}
      OBVIOUS
    <3>1. EndOf(list[a]) < list[i].base \/ EndOf(list[i]) < list[a].base
      BY DEF Ordered
    <3> QED BY <1>2, <3>1 DEF Pages, EndOf
  <2>2. ASSUME NEW x \in PagesOf(new)
        PROVE  x \in (PagesOf(list) \ Pages(list[i])) \cup PagesOf(pieces)
    <3>1. PICK j \in 1 .. Len(new) : x \in Pages(new[j])
      BY <1>1 DEF PagesOf
    <3>2. CASE j - (i - 1) \in 1 .. n /\ new[j] = pieces[j - (i - 1)]
      BY <3>1, <3>2 DEF PagesOf, n
    <3>3. ASSUME NEW a \in 1 .. Len(list), a # i, new[j] = list[a]
          PROVE  x \in PagesOf(list) \ Pages(list[i])
      BY <2>1, <3>1, <3>3 DEF PagesOf
    <3>4. CASE j \in 1 .. i - 1 /\ new[j] = list[j]
      BY <3>3, <3>4
    <3>5. CASE j - n + 1 \in i + 1 .. Len(list) /\ new[j] = list[j - n + 1]
      BY <3>3, <3>5
    <3> QED BY <1>5, <3>2, <3>4, <3>5
  <2>3. ASSUME NEW x \in PagesOf(list), x \notin Pages(list[i])
        PROVE  x \in PagesOf(new)
    <3>1. PICK a \in 1 .. Len(list) : x \in Pages(list[a])
      BY DEF PagesOf
    <3>2. CASE a < i
      <4>1. a \in 1 .. Len(new) /\ new[a] = list[a]
        BY <1>1, <3>2
      <4> QED BY <1>1, <3>1, <4>1 DEF PagesOf
    <3>3. CASE a > i
      <4>1. a + n - 1 \in 1 .. Len(new) /\ new[a + n - 1] = list[a]
        BY <1>1, <3>3
      <4> QED BY <1>1, <3>1, <4>1 DEF PagesOf
    <3> QED BY <2>3, <3>1, <3>2, <3>3
  <2>4. ASSUME NEW x \in PagesOf(pieces) PROVE x \in PagesOf(new)
    <3>1. PICK a \in 1 .. n : x \in Pages(pieces[a])
      BY DEF PagesOf, n
    <3>2. i - 1 + a \in 1 .. Len(new) /\ new[i - 1 + a] = pieces[a]
      BY <1>1
    <3> QED BY <1>1, <3>1, <3>2 DEF PagesOf
  <2> QED BY <2>2, <2>3, <2>4
<1> QED BY <1>6, <1>7 DEF new

-----------------------------------------------------------------------------
(* The operations. *)

LEMMA RemoveReplaces ==
    ASSUME NEW list \in Seq(Regions), NEW i \in 1 .. Len(list)
    PROVE  RemoveAt(list, i) = Replaced(list, i, << >>)
<1>1. SubSeq(list, 1, i - 1) \in Seq(Regions)
  BY SubSeqProperties
<1>2. SubSeq(list, 1, i - 1) \o << >> = SubSeq(list, 1, i - 1)
  BY <1>1, ConcatEmptySeq
<1> QED BY <1>2, Zenon DEF RemoveAt, Replaced

LEMMA ExceptReplaces ==
    ASSUME NEW list \in Seq(Regions), NEW i \in 1 .. Len(list), NEW r \in Regions
    PROVE  [list EXCEPT ![i] = r] = Replaced(list, i, << r >>)
<1> DEFINE new == Replaced(list, i, << r >>)
           cut == [list EXCEPT ![i] = r]
<1>1. << r >> \in Seq(Regions) /\ Len(<< r >>) = 1 /\ << r >>[1] = r
  OBVIOUS
<1>2. /\ new \in Seq(Regions) /\ Len(new) = Len(list) + 1 - 1
      /\ \A j \in 1 .. i - 1 : new[j] = list[j]
      /\ \A j \in 1 .. 1 : new[i - 1 + j] = << r >>[j]
      /\ \A j \in i + 1 .. Len(list) : new[j + 1 - 1] = list[j]
  <2> HIDE DEF new
  <2> QED BY <1>1, ReplacedElements, Zenon DEF new
<1> HIDE DEF new
<1>3. cut \in Seq(Regions) /\ Len(cut) = Len(list)
  OBVIOUS
<1>4. \A j \in 1 .. Len(list) : cut[j] = IF j = i THEN r ELSE list[j]
  OBVIOUS
<1> HIDE DEF cut
<1>5. Len(new) = Len(list)
  BY <1>2
<1>6. \A j \in 1 .. Len(list) : cut[j] = new[j]
  <2> SUFFICES ASSUME NEW j \in 1 .. Len(list) PROVE cut[j] = new[j]
    OBVIOUS
  <2>1. CASE j < i
    BY <1>2, <1>4, <2>1
  <2>2. CASE j = i
    <3>1. i - 1 + 1 = i
      OBVIOUS
    <3> QED BY <1>1, <1>2, <1>4, <2>2, <3>1
  <2>3. CASE j > i
    <3>1. j + 1 - 1 = j /\ j \in i + 1 .. Len(list)
      BY <2>3
    <3> QED BY <1>2, <1>4, <2>3, <3>1
  <2> QED BY <2>1, <2>2, <2>3
<1> QED BY <1>2, <1>3, <1>5, <1>6, SeqEqual DEF new, cut

LEMMA FirstFitExists ==
    ASSUME NEW list \in Seq(Regions), NEW size \in Nat, Fits(list, size) # {}
    PROVE  /\ FirstFit(list, size) \in 1 .. Len(list)
           /\ list[FirstFit(list, size)].size >= size
           /\ list[FirstFit(list, size)].base \in Nat
<1>1. Fits(list, size) \in SUBSET Nat
  BY DEF Fits
<1>2. \E m \in Fits(list, size) : \A k \in Fits(list, size) : m <= k
  BY <1>1, LeastNatural
<1>3. FirstFit(list, size) \in Fits(list, size)
  BY <1>2, Zenon DEF FirstFit
<1>4. FirstFit(list, size) \in 1 .. Len(list) /\ list[FirstFit(list, size)].size >= size
  BY <1>3 DEF Fits
<1>5. list[FirstFit(list, size)] \in Regions
  BY <1>4
<1> QED BY <1>4, <1>5 DEF Regions

\* memory_map_alloc keeps a list ordered and takes from it the pages it returns
\* and no other: they were free before and are not after.
THEOREM AllocTakesPages ==
    ASSUME NEW list \in Seq(Regions), Ordered(list), NEW size \in Nat \ {0},
           Fits(list, size) # {}
    PROVE  LET taken == Pages(Region(list[FirstFit(list, size)].base, size))
           IN  /\ Allocated(list, size) \in Seq(Regions)
               /\ Ordered(Allocated(list, size))
               /\ taken \subseteq PagesOf(list)
               /\ PagesOf(Allocated(list, size)) = PagesOf(list) \ taken
<1> DEFINE i == FirstFit(list, size)
           r == list[i]
           taken == Pages(Region(r.base, size))
           rest == Region(r.base + size, r.size - size)
<1>1. i \in 1 .. Len(list) /\ r.size >= size
  BY FirstFitExists
<1> HIDE DEF i
<1>2. r \in Regions /\ r.base \in Nat /\ r.size \in Nat \ {0}
  <2>1. r \in Regions
    BY <1>1
  <2> QED BY <2>1 DEF Regions
<1> HIDE DEF r
<1>3. taken \subseteq Pages(r)
  BY <1>1, <1>2 DEF Pages, EndOf, Region
<1>4. Pages(r) \subseteq PagesOf(list)
  BY <1>1 DEF PagesOf, r
<1>5. CASE r.size = size
  <2>1. Allocated(list, size) = Replaced(list, i, << >>)
    BY <1>1, <1>5, RemoveReplaces DEF Allocated, ExactFit, i, r
  <2>2. << >> \in Seq(Regions) /\ Ordered(<< >>) /\ PagesOf(<< >>) = {}
    BY DEF Ordered, PagesOf
  <2>3. taken = Pages(r)
    BY <1>2, <1>5 DEF Pages, EndOf, Region
  <2>4. /\ Ordered(Replaced(list, i, << >>))
        /\ PagesOf(Replaced(list, i, << >>)) = PagesOf(list) \ Pages(r)
    <3>1. PagesOf(<< >>) \subseteq Pages(list[i])
      BY <2>2
    <3>2. /\ Ordered(Replaced(list, i, << >>))
          /\ PagesOf(Replaced(list, i, << >>)) =
                (PagesOf(list) \ Pages(list[i])) \cup PagesOf(<< >>)
      BY <1>1, <2>2, <3>1, ReplaceKeepsOrder
    <3> QED BY <2>2, <3>2 DEF r
  <2>5. Replaced(list, i, << >>) \in Seq(Regions)
    BY <1>1, <2>2, ReplacedElements
  <2> QED BY <1>3, <1>4, <2>1, <2>3, <2>4, <2>5 DEF i, r
<1>6. CASE r.size # size
  <2>1. rest \in Regions
    BY <1>1, <1>2, <1>6 DEF Region, Regions
  <2>2. Pages(rest) = Pages(r) \ taken
    <3>1. /\ Pages(rest) = r.base + size .. r.base + size + (r.size - size) - 1
          /\ taken = r.base .. r.base + size - 1
          /\ Pages(r) = r.base .. r.base + r.size - 1
      BY DEF Pages, EndOf, Region
    <3> HIDE DEF rest, taken
    <3>2. r.base + size + (r.size - size) - 1 = r.base + r.size - 1
      <4>1. \A a, b, c \in Int : a + c + (b - c) - 1 = a + b - 1
        OBVIOUS
      <4>2. r.base \in Int /\ r.size \in Int /\ size \in Int
        BY <1>2
      <4> QED BY <4>1, <4>2, Zenon
    <3>3. \A x \in Int : x \in Pages(rest) <=> x \in Pages(r) /\ x \notin taken
      BY <1>1, <1>2, <3>1, <3>2
    <3> QED BY <1>2, <3>1, <3>3
  <2>3. Allocated(list, size) = [list EXCEPT ![i] = rest]
    <3>1. ~ExactFit(list, size)
      BY <1>6 DEF ExactFit, i, r
    <3> QED BY <3>1 DEF Allocated, i, r
  <2> HIDE DEF rest, taken
  <2>4. Allocated(list, size) = Replaced(list, i, << rest >>)
    BY <1>1, <2>1, <2>3, ExceptReplaces
  <2>5. << rest >> \in Seq(Regions) /\ Ordered(<< rest >>) /\ PagesOf(<< rest >>) = Pages(rest)
    BY <2>1 DEF Ordered, PagesOf
  <2>6. PagesOf(<< rest >>) \subseteq Pages(r)
    BY <2>2, <2>5
  <2>7. /\ Ordered(Replaced(list, i, << rest >>))
        /\ PagesOf(Replaced(list, i, << rest >>)) =
              (PagesOf(list) \ Pages(r)) \cup PagesOf(<< rest >>)
    BY <1>1, <2>5, <2>6, ReplaceKeepsOrder DEF r
  <2>8. Replaced(list, i, << rest >>) \in Seq(Regions)
    BY <1>1, <2>5, ReplacedElements
  <2>9. PagesOf(Allocated(list, size)) = PagesOf(list) \ taken
    BY <1>3, <1>4, <2>2, <2>4, <2>5, <2>7
  <2> QED BY <1>3, <1>4, <2>4, <2>7, <2>8, <2>9 DEF taken, i, r
<1> QED BY <1>5, <1>6

\* memory_map_alloc_at, where it succeeds, takes exactly the region asked for: all
\* of it was free before, none of it is after, and the list stays ordered.
THEOREM AllocAtTakesPages ==
    ASSUME NEW list \in Seq(Regions), Ordered(list), NEW e \in Regions,
           CanAllocAt(list, e)
    PROVE  /\ AllocatedAt(list, e) \in Seq(Regions)
           /\ Ordered(AllocatedAt(list, e))
           /\ Pages(e) \subseteq PagesOf(list)
           /\ PagesOf(AllocatedAt(list, e)) = PagesOf(list) \ Pages(e)
<1> DEFINE i == FirstMet(list, e)
           r == list[i]
<1>1. i \in 1 .. Len(list) /\ (r = e \/ Collision(r, e) = "INSIDE")
  <2>1. Met(list, e) \in SUBSET Nat
    BY DEF Met
  <2>2. \E m \in Met(list, e) : \A k \in Met(list, e) : m <= k
    BY <2>1, LeastNatural DEF CanAllocAt
  <2>3. i \in Met(list, e)
    BY <2>2, Zenon DEF FirstMet
  <2> QED BY <2>3 DEF Met, CanAllocAt
<1> HIDE DEF i
<1>2. r \in Regions /\ r.base \in Nat /\ r.size \in Nat \ {0}
      /\ e.base \in Nat /\ e.size \in Nat \ {0}
  <2>1. r \in Regions
    BY <1>1
  <2> QED BY <2>1 DEF Regions
<1>3. Pages(r) \subseteq PagesOf(list)
  BY <1>1 DEF PagesOf
<1> HIDE DEF r
<1>4. PICK pieces \in Seq(Regions) :
         /\ AllocatedAt(list, e) = Replaced(list, i, pieces)
         /\ Ordered(pieces)
         /\ PagesOf(pieces) = Pages(r) \ Pages(e)
         /\ Pages(e) \subseteq Pages(r)
  <2>1. CASE r = e
    <3>1. AllocatedAt(list, e) = Replaced(list, i, << >>)
      BY <1>1, <2>1, RemoveReplaces DEF AllocatedAt, i, r
    <3>2. << >> \in Seq(Regions) /\ Ordered(<< >>) /\ PagesOf(<< >>) = {}
      BY DEF Ordered, PagesOf
    <3> QED BY <2>1, <3>1, <3>2
  <2>2. CASE r # e
    <3>1. Collision(r, e) = "INSIDE"
      BY <1>1, <2>2
    <3>2. Pieces(r, e) = InsidePieces(r, e)
      BY <3>1 DEF Pieces
    <3>3. AllocatedAt(list, e) = Replaced(list, i, Pieces(r, e))
      BY <2>2, <3>2, Zenon DEF AllocatedAt, Replaced, i, r
    <3>4. e.base >= r.base /\ EndOf(e) <= EndOf(r)
      BY <3>1 DEF Collision
    <3>5. Pages(e) \subseteq Pages(r)
      <4>1. EndOf(e) \in Int /\ EndOf(r) \in Int
        BY <1>2 DEF EndOf
      <4>2. \A n \in Int : e.base <= n /\ n <= EndOf(e) => r.base <= n /\ n <= EndOf(r)
        BY <1>2, <3>4, <4>1
      <4> QED BY <1>2, <4>1, <4>2 DEF Pages
    <3> QED BY <1>2, <3>3, <3>5, PiecesExact
  <2> QED BY <2>1, <2>2
<1>5. PagesOf(pieces) \subseteq Pages(r)
  BY <1>4
<1>6. Replaced(list, i, pieces) \in Seq(Regions)
  BY <1>1, ReplacedElements
<1>7. /\ Ordered(Replaced(list, i, pieces))
      /\ PagesOf(Replaced(list, i, pieces)) =
            (PagesOf(list) \ Pages(r)) \cup PagesOf(pieces)
  BY <1>1, <1>4, <1>5, ReplaceKeepsOrder DEF r
<1> QED BY <1>3, <1>4, <1>6, <1>7

\* memory_map_alloc gives back the entry of a region it takes whole, and needs
\* none otherwise.
THEOREM AllocEntries ==
    ASSUME NEW list \in Seq(Regions), NEW size \in Nat \ {0}, Fits(list, size) # {}
    PROVE  Len(Allocated(list, size)) =
              IF ExactFit(list, size) THEN Len(list) - 1 ELSE Len(list)
<1> DEFINE i == FirstFit(list, size)
<1>1. i \in 1 .. Len(list)
  BY FirstFitExists
<1>2. CASE ExactFit(list, size)
  <2>1. Allocated(list, size) = Replaced(list, i, << >>)
    BY <1>1, <1>2, RemoveReplaces DEF Allocated
  <2>2. << >> \in Seq(Regions) /\ Len(<< >>) = 0
    OBVIOUS
  <2> HIDE DEF i
  <2>3. Len(Replaced(list, i, << >>)) = Len(list) + 0 - 1
    BY <1>1, <2>2, ReplacedElements
  <2> QED BY <1>2, <2>1, <2>3
<1>3. CASE ~ExactFit(list, size)
  <2> DEFINE rest == Region(list[i].base + size, list[i].size - size)
  <2>1. Allocated(list, size) = [list EXCEPT ![i] = rest]
    BY <1>3 DEF Allocated
  <2> HIDE DEF rest, i
  <2>2. Len([list EXCEPT ![i] = rest]) = Len(list)
    BY <1>1
  <2> QED BY <1>3, <2>1, <2>2
<1> QED BY <1>2, <1>3

\* memory_map_alloc_at takes one entry where it splits an item, gives one back
\* where it takes an item whole, and needs none otherwise.
THEOREM AllocAtEntries ==
    ASSUME NEW list \in Seq(Regions), Ordered(list), NEW e \in Regions,
           CanAllocAt(list, e)
    PROVE  /\ NeedsEntry(list, e) =>
                 /\ Len(AllocatedAt(list, e)) = Len(list) + 1
                 /\ ~ \E i \in DOMAIN list : list[i] = e
           /\ ~NeedsEntry(list, e) =>
                 Len(AllocatedAt(list, e)) =
                    IF \E i \in DOMAIN list : list[i] = e THEN Len(list) - 1 ELSE Len(list)
<1> DEFINE i == FirstMet(list, e)
           r == list[i]
<1>1. i \in 1 .. Len(list) /\ (r = e \/ Collision(r, e) = "INSIDE")
  <2>1. Met(list, e) \in SUBSET Nat
    BY DEF Met
  <2>2. \E m \in Met(list, e) : \A k \in Met(list, e) : m <= k
    BY <2>1, LeastNatural DEF CanAllocAt
  <2>3. i \in Met(list, e)
    BY <2>2, Zenon DEF FirstMet
  <2> QED BY <2>3 DEF Met, CanAllocAt
<1> HIDE DEF i
<1>2. r \in Regions /\ r.base \in Nat /\ r.size \in Nat \ {0}
      /\ e.base \in Nat /\ e.size \in Nat \ {0}
  <2>1. r \in Regions
    BY <1>1
  <2> QED BY <2>1 DEF Regions
<1>3. ASSUME NEW j \in DOMAIN list,
             list[j].base <= e.base /\ e.base <= EndOf(list[j])
      PROVE  j = i
  <2>1. j \in 1 .. Len(list) /\ list[j] \in Regions
    OBVIOUS
  <2>2. list[j].base \in Int /\ EndOf(list[j]) \in Int
    BY <2>1 DEF Regions, EndOf
  <2>3. r.base <= e.base /\ e.base <= EndOf(r) /\ EndOf(r) \in Int
    <3> HIDE DEF r
    <3>3. /\ r.base \in Nat /\ EndOf(r) \in Nat /\ e.base \in Nat /\ EndOf(e) \in Nat
          /\ e.base <= EndOf(e)
      BY <1>2, RegionEnds
    <3>1. CASE r = e
      BY <3>1, <3>3
    <3>2. CASE Collision(r, e) = "INSIDE"
      <4>1. e.base >= r.base /\ EndOf(e) <= EndOf(r)
        BY <3>2 DEF Collision
      <4> QED BY <3>3, <4>1
    <3> QED BY <1>1, <3>1, <3>2
  <2>4. j < i => EndOf(list[j]) < r.base
    BY <1>1, <2>1 DEF Ordered
  <2>5. i < j => EndOf(r) < list[j].base
    BY <1>1, <2>1 DEF Ordered
  <2> HIDE DEF r
  <2> QED BY <1>1, <1>2, <1>3, <2>1, <2>2, <2>3, <2>4, <2>5
<1>4. NeedsEntry(list, e) <=> Splits(r, e)
  <2>1. ASSUME NEW j \in DOMAIN list, Splits(list[j], e) PROVE j = i
    <3>1. list[j] \in Regions
      OBVIOUS
    <3>2. list[j].base <= e.base /\ e.base <= EndOf(list[j])
      BY <1>2, <2>1, <3>1 DEF Splits, Collision, EndOf, Regions
    <3> QED BY <1>3, <3>2
  <2> QED BY <1>1, <2>1 DEF NeedsEntry
<1>5. (\E j \in DOMAIN list : list[j] = e) <=> r = e
  <2>1. ASSUME NEW j \in DOMAIN list, list[j] = e PROVE j = i
    <3>1. list[j].base <= e.base /\ e.base <= EndOf(list[j])
      BY <1>2, <2>1 DEF EndOf
    <3> QED BY <1>3, <3>1
  <2> QED BY <1>1, <2>1
<1>6. Splits(r, e) => r # e
  BY DEF Splits
<1> HIDE DEF r
<1>7. CASE r = e
  <2>1. AllocatedAt(list, e) = Replaced(list, i, << >>)
    BY <1>1, <1>7, RemoveReplaces DEF AllocatedAt, i, r
  <2>2. << >> \in Seq(Regions) /\ Len(<< >>) = 0
    OBVIOUS
  <2>3. Len(Replaced(list, i, << >>)) = Len(list) + 0 - 1
    BY <1>1, <2>2, ReplacedElements
  <2> QED BY <1>4, <1>5, <1>6, <1>7, <2>1, <2>3
<1>8. CASE r # e
  <2>1. Collision(r, e) = "INSIDE"
    BY <1>1, <1>8
  <2>2. InsidePieces(r, e) \in Seq(Regions)
    <3>1. Pieces(r, e) = InsidePieces(r, e)
      BY <2>1 DEF Pieces
    <3> QED BY <1>2, <3>1, PiecesExact
  <2>3. Len(InsidePieces(r, e)) = IF Splits(r, e) THEN 2 ELSE 1
    <3>1. CASE r.base = e.base
      BY <2>1, <3>1 DEF InsidePieces, Splits
    <3>2. CASE r.base # e.base /\ EndOf(r) = EndOf(e)
      BY <2>1, <3>2 DEF InsidePieces, Splits
    <3>3. CASE r.base # e.base /\ EndOf(r) # EndOf(e)
      BY <2>1, <3>3 DEF InsidePieces, Splits
    <3> QED BY <3>1, <3>2, <3>3
  <2>4. AllocatedAt(list, e) = Replaced(list, i, InsidePieces(r, e))
    BY <1>8, Zenon DEF AllocatedAt, Replaced, i, r
  <2>5. Len(Replaced(list, i, InsidePieces(r, e))) = Len(list) + Len(InsidePieces(r, e)) - 1
    BY <1>1, <2>2, ReplacedElements
  <2> QED BY <1>4, <1>5, <1>8, <2>3, <2>4, <2>5
<1> QED BY <1>7, <1>8

LEMMA InsertedElements ==
    ASSUME NEW list \in Seq(Regions), NEW k \in 1 .. Len(list) + 1, NEW e \in Regions
    PROVE  /\ InsertAt(list, k, e) \in Seq(Regions)
           /\ Len(InsertAt(list, k, e)) = Len(list) + 1
           /\ \A j \in 1 .. k - 1 : InsertAt(list, k, e)[j] = list[j]
           /\ InsertAt(list, k, e)[k] = e
           /\ \A j \in k + 1 .. Len(list) + 1 : InsertAt(list, k, e)[j] = list[j - 1]
<1> DEFINE front == SubSeq(list, 1, k - 1)
           back == SubSeq(list, k, Len(list))
           start == front \o << e >>
           new == start \o back
<1>1. /\ front \in Seq(Regions) /\ Len(front) = k - 1
      /\ \A j \in 1 .. k - 1 : front[j] = list[j]
  BY SubSeqProperties
<1>2. /\ back \in Seq(Regions) /\ Len(back) = Len(list) - k + 1
      /\ \A j \in 1 .. Len(list) - k + 1 : back[j] = list[k + j - 1]
  BY SubSeqProperties
<1> HIDE DEF front, back
<1>3. << e >> \in Seq(Regions) /\ Len(<< e >>) = 1 /\ << e >>[1] = e
  OBVIOUS
<1>4. /\ start \in Seq(Regions) /\ Len(start) = k
      /\ \A j \in 1 .. k : start[j] = IF j <= k - 1 THEN front[j] ELSE << e >>[j - (k - 1)]
  BY <1>1, <1>3, ConcatProperties
<1>5. start[k] = e
  BY <1>3, <1>4
<1>6. \A j \in 1 .. k - 1 : start[j] = list[j]
  BY <1>1, <1>4
<1> HIDE DEF start
<1>7. /\ new \in Seq(Regions) /\ Len(new) = k + (Len(list) - k + 1)
      /\ \A j \in 1 .. k + (Len(list) - k + 1) :
            new[j] = IF j <= k THEN start[j] ELSE back[j - k]
  <2>1. start \in Seq(Regions) /\ back \in Seq(Regions)
    BY <1>2, <1>4
  <2>2. /\ new \in Seq(Regions) /\ Len(new) = Len(start) + Len(back)
        /\ \A j \in 1 .. Len(start) + Len(back) :
              new[j] = IF j <= Len(start) THEN start[j] ELSE back[j - Len(start)]
    BY <2>1, ConcatProperties
  <2>3. Len(start) = k /\ Len(back) = Len(list) - k + 1
    BY <1>2, <1>4
  <2> HIDE DEF new
  <2> QED BY <2>2, <2>3
<1> HIDE DEF new
<1>8. ASSUME NEW j \in 1 .. Len(list) + 1
      PROVE  /\ j < k => new[j] = list[j]
             /\ j = k => new[j] = e
             /\ j > k => new[j] = list[j - 1]
  <2>1. j \in 1 .. k + (Len(list) - k + 1)
    OBVIOUS
  <2>2. CASE j <= k
    BY <1>5, <1>6, <1>7, <2>1, <2>2
  <2>3. CASE j > k
    <3>1. new[j] = back[j - k]
      BY <1>7, <2>1, <2>3
    <3>2. j - k \in 1 .. Len(list) - k + 1 /\ k + (j - k) - 1 = j - 1
      BY <2>3
    <3> QED BY <1>2, <2>3, <3>1, <3>2
  <2> QED BY <2>2, <2>3
<1>9. Len(new) = Len(list) + 1
  BY <1>7
<1>10. /\ \A j \in 1 .. k - 1 : new[j] = list[j]
       /\ new[k] = e
       /\ \A j \in k + 1 .. Len(list) + 1 : new[j] = list[j - 1]
  BY <1>8
<1> QED BY <1>7, <1>9, <1>10, Zenon DEF InsertAt, new, start, front, back

LEMMA AddPositionExists ==
    ASSUME NEW list \in Seq(Regions), NEW e \in Regions
    PROVE  /\ AddPosition(list, e) \in 1 .. Len(list) + 1
           /\ \A i \in 1 .. AddPosition(list, e) - 1 : list[i].base <= e.base
           /\ AddPosition(list, e) <= Len(list) => list[AddPosition(list, e)].base > e.base
<1> DEFINE Behind == {k \in 1 .. Len(list) + 1 : k <= Len(list) => list[k].base > e.base}
<1>1. Behind \in SUBSET Nat /\ Len(list) + 1 \in Behind
  OBVIOUS
<1>2. PICK k \in Behind : \A j \in Behind : k <= j
  <2> HIDE DEF Behind
  <2> QED BY <1>1, LeastNatural
<1>3. \A i \in 1 .. Len(list) : list[i].base \in Nat
  <2>1. \A i \in 1 .. Len(list) : list[i] \in Regions
    OBVIOUS
  <2> QED BY <2>1, RegionEnds
<1>4. e.base \in Nat
  BY RegionEnds
<1>5. \A i \in 1 .. k - 1 : list[i].base <= e.base
  <2> SUFFICES ASSUME NEW i \in 1 .. k - 1 PROVE list[i].base <= e.base
    OBVIOUS
  <2>1. i \notin Behind
    <3>1. ~(k <= i)
      BY <1>1
    <3> QED BY <1>2, <3>1
  <2>2. i \in 1 .. Len(list)
    BY <1>2
  <2> QED BY <1>3, <1>4, <2>1, <2>2
<1>6. \E n \in 1 .. Len(list) + 1 :
         /\ \A i \in 1 .. n - 1 : list[i].base <= e.base
         /\ n <= Len(list) => list[n].base > e.base
  BY <1>2, <1>5
<1> QED BY <1>6, Zenon DEF AddPosition

\* memory_map_add, which looks only at the items up to the one behind the new
\* region, refuses exactly the regions that share a page with the list; the list it
\* leaves is ordered and stands for the pages of both.
THEOREM AddJoinsPages ==
    ASSUME NEW list \in Seq(Regions), Ordered(list), NEW e \in Regions
    PROVE  /\ CanAdd(list, e) <=> Pages(e) \cap PagesOf(list) = {}
           /\ CanAdd(list, e) =>
                 /\ Inserted(list, e) \in Seq(Regions)
                 /\ Ordered(Inserted(list, e))
                 /\ PagesOf(Inserted(list, e)) = PagesOf(list) \cup Pages(e)
<1> DEFINE k == AddPosition(list, e)
<1>1. /\ k \in 1 .. Len(list) + 1
      /\ \A i \in 1 .. k - 1 : list[i].base <= e.base
      /\ k <= Len(list) => list[k].base > e.base
  BY AddPositionExists
<1> HIDE DEF k
<1>2. e.base \in Nat /\ EndOf(e) \in Nat /\ e.base <= EndOf(e)
  BY RegionEnds
<1>3. \A i \in 1 .. Len(list) :
         /\ list[i] \in Regions /\ list[i].base \in Nat /\ EndOf(list[i]) \in Nat
         /\ list[i].base <= EndOf(list[i])
  <2>1. \A i \in 1 .. Len(list) : list[i] \in Regions
    OBVIOUS
  <2> QED BY <2>1, RegionEnds
<1>4. \A i, j \in 1 .. Len(list) : i < j => EndOf(list[i]) < list[j].base
  BY DEF Ordered
<1>5. ASSUME Pages(e) \cap PagesOf(list) = {} PROVE CanAdd(list, e)
  <2>1. \A i \in 1 .. Len(list) : Pages(list[i]) \cap Pages(e) = {}
    BY <1>5 DEF PagesOf
  <2>2. \A i \in 1 .. Len(list) : ~Collides(list[i], e)
    BY <1>3, <2>1, CollisionExact
  <2> QED BY <2>2 DEF CanAdd
<1>6. ASSUME CanAdd(list, e)
      PROVE  /\ \A i \in 1 .. k - 1 : EndOf(list[i]) < e.base
             /\ \A i \in k .. Len(list) : EndOf(e) < list[i].base
  <2>1. \A i \in 1 .. Len(list) : i <= k => Pages(list[i]) \cap Pages(e) = {}
    <3>1. \A i \in 1 .. Len(list) : i <= k => ~Collides(list[i], e)
      BY <1>6 DEF CanAdd, k
    <3> QED BY <1>3, <3>1, CollisionExact
  <2>2. ASSUME NEW i \in 1 .. k - 1 PROVE EndOf(list[i]) < e.base
    <3>1. i \in 1 .. Len(list) /\ i <= k
      BY <1>1
    <3>2. e.base \in Pages(e)
      BY <1>2 DEF Pages
    <3>3. e.base \notin Pages(list[i])
      BY <2>1, <3>1, <3>2
    <3>4. list[i].base <= e.base
      BY <1>1
    <3> QED BY <1>2, <1>3, <3>1, <3>3, <3>4 DEF Pages
  <2>3. ASSUME k <= Len(list) PROVE EndOf(e) < list[k].base
    <3>1. k \in 1 .. Len(list)
      BY <1>1, <2>3
    <3>2. list[k].base \in Pages(list[k])
      BY <1>3, <3>1 DEF Pages
    <3>3. list[k].base \notin Pages(e)
      BY <1>1, <2>1, <3>1, <3>2
    <3> QED BY <1>1, <1>2, <1>3, <3>1, <3>3 DEF Pages
  <2>4. ASSUME NEW i \in k .. Len(list) PROVE EndOf(e) < list[i].base
    <3>1. k \in 1 .. Len(list) /\ i \in 1 .. Len(list)
      BY <1>1
    <3>2. CASE i = k
      BY <2>3, <3>1, <3>2
    <3>3. CASE i # k
      <4>1. EndOf(list[k]) < list[i].base
        BY <1>4, <3>1, <3>3
      <4> QED BY <1>2, <1>3, <2>3, <3>1, <4>1
    <3> QED BY <3>2, <3>3
  <2> QED BY <2>2, <2>4
<1>7. ASSUME CanAdd(list, e) PROVE Pages(e) \cap PagesOf(list) = {}
  <2> SUFFICES ASSUME NEW i \in 1 .. Len(list) PROVE Pages(list[i]) \cap Pages(e) = {}
    BY DEF PagesOf
  <2>1. EndOf(list[i]) < e.base \/ EndOf(e) < list[i].base
    BY <1>1, <1>6, <1>7
  <2> QED BY <1>2, <1>3, <2>1 DEF Pages
<1> DEFINE new == Inserted(list, e)
<1>8. /\ new \in Seq(Regions) /\ Len(new) = Len(list) + 1
      /\ \A j \in 1 .. k - 1 : new[j] = list[j]
      /\ new[k] = e
      /\ \A j \in k + 1 .. Len(list) + 1 : new[j] = list[j - 1]
  <2>1. new = InsertAt(list, k, e)
    BY DEF Inserted, k
  <2> HIDE DEF new
  <2>2. k \in 1 .. Len(list) + 1
    BY <1>1
  <2>3. /\ InsertAt(list, k, e) \in Seq(Regions)
        /\ Len(InsertAt(list, k, e)) = Len(list) + 1
        /\ \A j \in 1 .. k - 1 : InsertAt(list, k, e)[j] = list[j]
        /\ InsertAt(list, k, e)[k] = e
        /\ \A j \in k + 1 .. Len(list) + 1 : InsertAt(list, k, e)[j] = list[j - 1]
    BY <2>2, InsertedElements, Zenon
  <2> QED BY <2>1, <2>3, Zenon
<1> HIDE DEF new
<1>9. ASSUME CanAdd(list, e) PROVE Ordered(new)
  <2> SUFFICES ASSUME NEW i \in 1 .. Len(list) + 1, NEW j \in 1 .. Len(list) + 1, i < j
               PROVE  EndOf(new[i]) < new[j].base
    BY <1>8 DEF Ordered
  <2>1. CASE i < k /\ j < k
    <3>1. new[i] = list[i] /\ new[j] = list[j]
      <4>1. i \in 1 .. k - 1 /\ j \in 1 .. k - 1
        BY <1>1, <2>1
      <4> QED BY <1>8, <4>1
    <3>2. i \in 1 .. Len(list) /\ j \in 1 .. Len(list)
      BY <1>1, <2>1
    <3> QED BY <1>4, <3>1, <3>2
  <2>2. CASE i < k /\ j = k
    BY <1>6, <1>8, <1>9, <2>2
  <2>3. CASE i < k /\ j > k
    <3>1. new[i] = list[i] /\ new[j] = list[j - 1] /\ i < j - 1
      BY <1>1, <1>8, <2>3
    <3>2. i \in 1 .. Len(list) /\ j - 1 \in 1 .. Len(list)
      BY <1>1, <2>3
    <3> QED BY <1>4, <3>1, <3>2
  <2>4. CASE i = k
    <3>1. new[i] = e /\ new[j] = list[j - 1] /\ j - 1 \in k .. Len(list)
      BY <1>1, <1>8, <2>4
    <3> QED BY <1>6, <1>9, <3>1
  <2>5. CASE i > k
    <3>1. new[i] = list[i - 1] /\ new[j] = list[j - 1] /\ i - 1 < j - 1
      BY <1>1, <1>8, <2>5
    <3>2. i - 1 \in 1 .. Len(list) /\ j - 1 \in 1 .. Len(list)
      BY <1>1, <2>5
    <3> QED BY <1>4, <3>1, <3>2
  <2> QED BY <1>1, <2>1, <2>2, <2>3, <2>4, <2>5
<1>10. PagesOf(new) = PagesOf(list) \cup Pages(e)
  <2>1. ASSUME NEW j \in 1 .. Len(list) + 1
        PROVE  Pages(new[j]) \subseteq PagesOf(list) \cup Pages(e)
    <3>1. CASE j < k
      BY <1>1, <1>8, <3>1 DEF PagesOf
    <3>2. CASE j = k
      BY <1>8, <3>2
    <3>3. CASE j > k
      <4>1. j \in k + 1 .. Len(list) + 1 /\ j - 1 \in 1 .. Len(list)
        BY <1>1, <3>3
      <4>2. new[j] = list[j - 1]
        BY <1>8, <4>1
      <4> QED BY <4>1, <4>2 DEF PagesOf
    <3> QED BY <1>1, <3>1, <3>2, <3>3
  <2>2. Pages(e) \subseteq PagesOf(new)
    <3>1. new[k] = e
      BY <1>1, <1>8
    <3> QED BY <1>1, <1>8, <3>1 DEF PagesOf
  <2>3. ASSUME NEW i \in 1 .. Len(list) PROVE Pages(list[i]) \subseteq PagesOf(new)
    <3>1. CASE i < k
      <4>1. new[i] = list[i] /\ i \in 1 .. Len(new)
        <5>1. i \in 1 .. k - 1 /\ i \in 1 .. Len(list) + 1
          BY <1>1, <3>1
        <5> QED BY <1>8, <5>1
      <4> QED BY <1>8, <4>1 DEF PagesOf
    <3>2. CASE i >= k
      <4>1. new[i + 1] = list[i] /\ i + 1 \in 1 .. Len(new)
        <5>1. i + 1 \in 1 .. Len(list) + 1 /\ i + 1 \in k + 1 .. Len(list) + 1
              /\ (i + 1) - 1 = i
          BY <1>1, <3>2
        <5> QED BY <1>8, <5>1
      <4> QED BY <1>8, <4>1 DEF PagesOf
    <3> QED BY <1>1, <3>1, <3>2
  <2>4. PagesOf(new) \subseteq PagesOf(list) \cup Pages(e)
    BY <1>8, <2>1 DEF PagesOf
  <2>5. PagesOf(list) \subseteq PagesOf(new)
    <3> SUFFICES ASSUME NEW x \in PagesOf(list) PROVE x \in PagesOf(new)
      OBVIOUS
    <3>1. PICK i \in 1 .. Len(list) : x \in Pages(list[i])
      BY DEF PagesOf
    <3> QED BY <2>3, <3>1
  <2> QED BY <2>2, <2>4, <2>5
<1> QED BY <1>5, <1>7, <1>8, <1>9, <1>10 DEF new

\* Two lists one behind the other.
LEMMA ConcatKeepsOrder ==
    ASSUME NEW s \in Seq(Regions), NEW t \in Seq(Regions), Ordered(s), Ordered(t),
           \A x \in PagesOf(s), y \in PagesOf(t) : x < y
    PROVE  /\ s \o t \in Seq(Regions)
           /\ Ordered(s \o t)
           /\ \A x : x \in PagesOf(s \o t) <=> x \in PagesOf(s) \/ x \in PagesOf(t)
<1>1. PICK m, n \in Nat : m = Len(s) /\ n = Len(t)
  BY LenProperties
<1>2. PICK u : u = s \o t
  OBVIOUS
<1>3. /\ u \in Seq(Regions) /\ DOMAIN u = 1 .. m + n
      /\ DOMAIN s = 1 .. m /\ DOMAIN t = 1 .. n
      /\ \A i \in 1 .. m + n : u[i] = IF i <= m THEN s[i] ELSE t[i - m]
  <2>1. u \in Seq(Regions) /\ Len(u) = m + n
    BY <1>1, <1>2, ConcatProperties
  <2>2. \A i \in 1 .. m + n : u[i] = IF i <= m THEN s[i] ELSE t[i - m]
    BY <1>1, <1>2, ConcatProperties
  <2> QED BY <1>1, <2>1, <2>2, LenProperties
<1>4. /\ \A i \in 1 .. m : s[i] \in Regions
      /\ \A i \in 1 .. n : t[i] \in Regions
  BY <1>1
<1>5. ASSUME NEW r \in Regions
      PROVE  EndOf(r) \in Pages(r) /\ r.base \in Pages(r) /\ EndOf(r) \in Int /\ r.base \in Int
  BY RegionEnds DEF Pages
<1>6. ASSUME NEW i \in 1 .. m + n, NEW j \in 1 .. m + n, i < j
      PROVE  EndOf(u[i]) < u[j].base
  <2>1. CASE j <= m
    <3>1. u[i] = s[i] /\ u[j] = s[j] /\ i \in 1 .. m /\ j \in 1 .. m
      BY <1>3, <1>6, <2>1
    <3> QED BY <1>3, <1>6, <3>1 DEF Ordered
  <2>2. CASE i > m
    <3>1. /\ u[i] = t[i - m] /\ u[j] = t[j - m] /\ i - m \in 1 .. n /\ j - m \in 1 .. n
          /\ i - m < j - m
      BY <1>3, <1>6, <2>2
    <3> QED BY <1>3, <3>1 DEF Ordered
  <2>3. CASE i <= m /\ j > m
    <3>1. u[i] = s[i] /\ u[j] = t[j - m] /\ i \in 1 .. m /\ j - m \in 1 .. n
      BY <1>3, <1>6, <2>3
    <3>2. EndOf(s[i]) \in PagesOf(s)
      BY <1>3, <1>4, <1>5, <3>1 DEF PagesOf
    <3>3. t[j - m].base \in PagesOf(t)
      BY <1>3, <1>4, <1>5, <3>1 DEF PagesOf
    <3> QED BY <3>1, <3>2, <3>3
  <2> QED BY <2>1, <2>2, <2>3
<1>7. Ordered(u)
  BY <1>3, <1>6 DEF Ordered
<1>8. ASSUME NEW x PROVE x \in PagesOf(u) <=> x \in PagesOf(s) \/ x \in PagesOf(t)
  <2>1. ASSUME x \in PagesOf(u) PROVE x \in PagesOf(s) \/ x \in PagesOf(t)
    <3>1. PICK i \in 1 .. m + n : x \in Pages(u[i])
      BY <1>3, <2>1 DEF PagesOf
    <3>2. CASE i <= m
      <4>1. i \in 1 .. m /\ u[i] = s[i]
        BY <1>3, <3>2
      <4> QED BY <1>3, <3>1, <4>1 DEF PagesOf
    <3>3. CASE i > m
      <4>1. i - m \in 1 .. n /\ u[i] = t[i - m]
        BY <1>3, <3>3
      <4> QED BY <1>3, <3>1, <4>1 DEF PagesOf
    <3> QED BY <3>2, <3>3
  <2>2. ASSUME x \in PagesOf(s) PROVE x \in PagesOf(u)
    <3>1. PICK i \in 1 .. m : x \in Pages(s[i])
      BY <1>3, <2>2 DEF PagesOf
    <3>2. i \in 1 .. m + n /\ u[i] = s[i]
      BY <1>3
    <3> QED BY <1>3, <3>1, <3>2 DEF PagesOf
  <2>3. ASSUME x \in PagesOf(t) PROVE x \in PagesOf(u)
    <3>1. PICK i \in 1 .. n : x \in Pages(t[i])
      BY <1>3, <2>3 DEF PagesOf
    <3>2. i + m \in 1 .. m + n /\ u[i + m] = t[i]
      BY <1>3
    <3> QED BY <1>3, <3>1, <3>2 DEF PagesOf
  <2> QED BY <2>1, <2>2, <2>3
<1> QED BY <1>2, <1>3, <1>7, <1>8

\* Of an ordered list, the pages of one region lie before those of a later one.
LEMMA PagesFollow ==
    ASSUME NEW list \in Seq(Regions), Ordered(list),
           NEW i \in DOMAIN list, NEW j \in DOMAIN list, i < j,
           NEW x \in Pages(list[i]), NEW y \in Pages(list[j])
    PROVE  x < y
<1>1. list[i] \in Regions /\ list[j] \in Regions
  OBVIOUS
<1>2. EndOf(list[i]) < list[j].base
  BY DEF Ordered
<1>3. EndOf(list[i]) \in Int /\ list[j].base \in Int /\ list[i].base \in Int /\ EndOf(list[j]) \in Int
  BY <1>1, RegionEnds
<1> QED BY <1>2, <1>3 DEF Pages

\* memory_map_exclude leaves an ordered list that stands for the pages outside the
\* excluded region.
THEOREM ExcludeRemovesPages ==
    ASSUME NEW list \in Seq(Regions), Ordered(list), NEW e \in Regions
    PROVE  /\ Excluded(list, e) \in Seq(Regions)
           /\ Ordered(Excluded(list, e))
           /\ PagesOf(Excluded(list, e)) = PagesOf(list) \ Pages(e)
<1> DEFINE segs == [i \in DOMAIN list |-> Pieces(list[i], e)]
           Left(i, s) == /\ Ordered(s)
                         /\ \A x : x \in PagesOf(s) <=>
                               x \notin Pages(e) /\ \E j \in 1 .. i : x \in Pages(list[j])
           P == {p \in Nat \X Seq(Regions) : Left(p[1], p[2])}
<1>1. PICK n \in Nat : n = Len(list) /\ DOMAIN list = 1 .. n /\ \A i \in 1 .. n : list[i] \in Regions
  BY LenProperties
<1>2. /\ segs \in Seq(Seq(Regions)) /\ Len(segs) = n
      /\ \A i \in 1 .. n : segs[i] = Pieces(list[i], e)
  <2>1. \A i \in 1 .. n : Pieces(list[i], e) \in Seq(Regions)
    BY <1>1, PiecesExact
  <2> QED BY <1>1, <2>1
<1>3. Excluded(list, e) = FlattenSeq(segs)
  BY DEF Excluded
<1>4. CASE n = 0
  <2>1. list = << >> /\ segs = << >>
    BY <1>1, <1>2, <1>4, EmptySeq
  <2>2. FlattenSeq(segs) = << >>
    BY <1>2, <1>4, <2>1 DEF FlattenSeq
  <2>3. Ordered(<< >>) /\ PagesOf(<< >>) = {} /\ << >> \in Seq(Regions)
    BY DEF Ordered, PagesOf
  <2> QED BY <1>3, <2>1, <2>2, <2>3
<1>5. CASE n # 0
  <2>1. segs # << >> /\ 1 \in 1 .. n
    BY <1>2, <1>5
  <2> HIDE DEF segs
  <2>2. \A i \in 1 .. n : /\ segs[i] \in Seq(Regions) /\ Ordered(segs[i])
                          /\ \A x : x \in PagesOf(segs[i]) <=> x \in Pages(list[i]) /\ x \notin Pages(e)
    <3> SUFFICES ASSUME NEW i \in 1 .. n
                 PROVE  /\ segs[i] \in Seq(Regions) /\ Ordered(segs[i])
                        /\ PagesOf(segs[i]) = Pages(list[i]) \ Pages(e)
      OBVIOUS
    <3>1. segs[i] = Pieces(list[i], e) /\ list[i] \in Regions
      BY <1>1, <1>2
    <3> QED BY <3>1, PiecesExact
  <2>3. << 1, segs[1] >> \in P
    <3>1. ASSUME NEW x
          PROVE  (\E j \in 1 .. 1 : x \in Pages(list[j])) <=> x \in Pages(list[1])
      <4>1. 1 .. 1 = {1}
        OBVIOUS
      <4> QED BY <4>1
    <3>2. Left(1, segs[1])
      BY <2>1, <2>2, <3>1
    <3> HIDE DEF Left
    <3> QED BY <2>1, <2>2, <3>2
  <2>4. ASSUME NEW i \in 2 .. n, NEW s \in Seq(Regions), << i - 1, s >> \in P
        PROVE  << i, s \o segs[i] >> \in P
    <3>1. i \in 1 .. n /\ i - 1 \in Nat /\ i \in Nat /\ 1 .. i = (1 .. i - 1) \cup {i}
      OBVIOUS
    <3>2. Left(i - 1, s)
      BY <2>4
    <3>3. ASSUME NEW x \in PagesOf(s), NEW y \in PagesOf(segs[i]) PROVE x < y
      <4>1. PICK j \in 1 .. i - 1 : x \in Pages(list[j])
        BY <3>2
      <4>2. j \in 1 .. n /\ j < i
        BY <4>1, <3>1
      <4>3. y \in Pages(list[i])
        BY <2>2, <3>1
      <4> QED BY <1>1, <3>1, <4>1, <4>2, <4>3, PagesFollow
    <3>4. /\ s \o segs[i] \in Seq(Regions) /\ Ordered(s \o segs[i])
          /\ \A x : x \in PagesOf(s \o segs[i]) <=> x \in PagesOf(s) \/ x \in PagesOf(segs[i])
      BY <2>2, <3>1, <3>2, <3>3, ConcatKeepsOrder
    <3>5. ASSUME NEW x
          PROVE  x \in PagesOf(s \o segs[i]) <=>
                    x \notin Pages(e) /\ \E j \in 1 .. i : x \in Pages(list[j])
      <4>1. x \in PagesOf(s) <=> x \notin Pages(e) /\ \E j \in 1 .. i - 1 : x \in Pages(list[j])
        BY <3>2
      <4>2. x \in PagesOf(segs[i]) <=> x \in Pages(list[i]) /\ x \notin Pages(e)
        BY <2>2, <3>1
      <4>3. (\E j \in 1 .. i : x \in Pages(list[j])) <=>
              (\E j \in 1 .. i - 1 : x \in Pages(list[j])) \/ x \in Pages(list[i])
        BY <3>1
      <4> QED BY <3>4, <4>1, <4>2, <4>3
    <3>6. Left(i, s \o segs[i])
      BY <3>4, <3>5
    <3> HIDE DEF Left
    <3> QED BY <3>1, <3>4, <3>6
  <2>5. << n, FlattenSeq(segs) >> \in P /\ FlattenSeq(segs) \in Seq(Regions)
    <3> HIDE DEF P
    <3> QED BY <1>2, <2>1, <2>3, <2>4, FlattenInduction
  <2>6. Left(n, FlattenSeq(segs))
    BY <2>5
  <2>7. \A x : x \in PagesOf(list) <=> \E j \in 1 .. n : x \in Pages(list[j])
    BY <1>1 DEF PagesOf
  <2> QED BY <1>3, <2>5, <2>6, <2>7
<1> QED BY <1>4, <1>5
-----------------------------------------------------------------------------
(* Families of lists: where elements of a kind are, and how many there are. *)

\* How many elements of a list are in S.
TallyAt(s, S) == {i \in DOMAIN s : s[i] \in S}
Tally(s, S) == Cardinality(TallyAt(s, S))

LEMMA TallyTyped ==
    ASSUME NEW T, NEW s \in Seq(T), NEW S
    PROVE  /\ TallyAt(s, S) \subseteq 1 .. Len(s)
           /\ IsFiniteSet(TallyAt(s, S)) /\ Tally(s, S) \in Nat
<1>1. Len(s) \in Nat /\ TallyAt(s, S) \subseteq 1 .. Len(s)
  BY DEF TallyAt
<1>2. IsFiniteSet(1 .. Len(s))
  BY <1>1, FS_Interval
<1>3. IsFiniteSet(TallyAt(s, S))
  BY <1>1, <1>2, FS_Subset
<1> QED BY <1>1, <1>3, FS_CardinalityType DEF Tally

\* The elements of two lists one behind the other.
LEMMA TallyConcat ==
    ASSUME NEW T, NEW s \in Seq(T), NEW t \in Seq(T), NEW S
    PROVE  Tally(s \o t, S) = Tally(s, S) + Tally(t, S)
<1> DEFINE A == TallyAt(s, S)
           B == TallyAt(t, S)
           up == [i \in B |-> Len(s) + i]
           C == {Len(s) + i : i \in B}
<1>1. /\ Len(s) \in Nat /\ Len(t) \in Nat /\ Len(s \o t) = Len(s) + Len(t)
      /\ s \o t \in Seq(T)
      /\ \A i \in 1 .. Len(s) : (s \o t)[i] = s[i]
      /\ \A i \in 1 .. Len(t) : (s \o t)[Len(s) + i] = t[i]
  BY ConcatProperties
<1>2. /\ A \subseteq 1 .. Len(s) /\ IsFiniteSet(A) /\ Cardinality(A) = Tally(s, S)
      /\ B \subseteq 1 .. Len(t) /\ IsFiniteSet(B) /\ Cardinality(B) = Tally(t, S)
      /\ Tally(s, S) \in Nat /\ Tally(t, S) \in Nat
  BY TallyTyped DEF Tally
<1>3. IsFiniteSet(C) /\ Cardinality(C) = Cardinality(B)
  <2>1. up \in Bijection(B, C)
    <3>1. up \in [B -> C]
      OBVIOUS
    <3>2. \A i, j \in B : up[i] = up[j] => i = j
      BY <1>1, <1>2
    <3>3. \A c \in C : \E i \in B : up[i] = c
      OBVIOUS
    <3> HIDE DEF up, B, C
    <3> QED BY <3>1, <3>2, <3>3, Zenon DEF Bijection, Injection, Surjection, IsInjective
  <2>2. ExistsBijection(B, C)
    <3> HIDE DEF up, B, C
    <3> QED BY <2>1, Zenon DEF ExistsBijection
  <2> HIDE DEF B, C
  <2> QED BY <1>2, <2>2, FS_Bijection
<1>4. TallyAt(s \o t, S) = A \cup C
  <2>1. ASSUME NEW k \in TallyAt(s \o t, S) PROVE k \in A \cup C
    <3>1. k \in 1 .. Len(s) + Len(t) /\ (s \o t)[k] \in S
      BY <1>1, <2>1 DEF TallyAt
    <3>2. CASE k <= Len(s)
      BY <1>1, <3>1, <3>2 DEF TallyAt
    <3>3. CASE k > Len(s)
      <4>1. k - Len(s) \in 1 .. Len(t) /\ Len(s) + (k - Len(s)) = k
        BY <1>1, <3>1, <3>3
      <4>2. k - Len(s) \in B
        BY <1>1, <3>1, <4>1 DEF TallyAt
      <4> QED BY <4>1, <4>2
    <3> QED BY <1>1, <3>1, <3>2, <3>3
  <2>2. ASSUME NEW k \in A PROVE k \in TallyAt(s \o t, S)
    BY <1>1, <1>2, <2>2 DEF TallyAt
  <2>3. ASSUME NEW i \in B PROVE Len(s) + i \in TallyAt(s \o t, S)
    BY <1>1, <1>2, <2>3 DEF TallyAt
  <2> QED BY <2>1, <2>2, <2>3
<1>5. A \cap C = {}
  BY <1>1, <1>2
<1> HIDE DEF A, B, C
<1>6. Cardinality(A \cup C) = Cardinality(A) + Cardinality(C)
  <2>1. Cardinality(A \cup C) = Cardinality(A) + Cardinality(C) - Cardinality(A \cap C)
    BY <1>2, <1>3, FS_Union
  <2>2. Cardinality(A \cap C) = 0
    BY <1>5, FS_EmptySet
  <2>3. Cardinality(A) \in Nat /\ Cardinality(C) \in Nat
    BY <1>2, <1>3
  <2> QED BY <2>1, <2>2, <2>3
<1> QED BY <1>2, <1>3, <1>4, <1>6 DEF Tally

\* No list, one element, an element at the end, and the first element.
LEMMA TallyOfNone == ASSUME NEW S PROVE Tally(<< >>, S) = 0
<1>1. TallyAt(<< >>, S) = {}
  BY DEF TallyAt
<1> QED BY <1>1, FS_EmptySet DEF Tally

LEMMA TallyOfOne ==
    ASSUME NEW e, NEW S
    PROVE  Tally(<< e >>, S) = IF e \in S THEN 1 ELSE 0
<1>1. CASE e \in S
  <2>1. TallyAt(<< e >>, S) = {1}
    BY <1>1 DEF TallyAt
  <2> QED BY <1>1, <2>1, FS_Singleton DEF Tally
<1>2. CASE e \notin S
  <2>1. TallyAt(<< e >>, S) = {}
    BY <1>2 DEF TallyAt
  <2> QED BY <1>2, <2>1, FS_EmptySet DEF Tally
<1> QED BY <1>1, <1>2

LEMMA TallyAppend ==
    ASSUME NEW T, NEW s \in Seq(T), NEW e \in T, NEW S
    PROVE  Tally(Append(s, e), S) = Tally(s, S) + IF e \in S THEN 1 ELSE 0
<1>1. PICK t \in Seq(T) : t = << e >>
  <2>1. << e >> \in Seq(T)
    OBVIOUS
  <2> QED BY <2>1, Zenon
<1>2. Append(s, e) = s \o t
  BY <1>1, AppendIsConcat
<1>3. Tally(s \o t, S) = Tally(s, S) + Tally(t, S)
  BY TallyConcat
<1> QED BY <1>1, <1>2, <1>3, TallyOfOne

LEMMA TallyPush ==
    ASSUME NEW T, NEW s \in Seq(T), NEW e \in T, NEW S
    PROVE  Tally(<< e >> \o s, S) = Tally(s, S) + IF e \in S THEN 1 ELSE 0
<1>1. PICK t \in Seq(T) : t = << e >>
  <2>1. << e >> \in Seq(T)
    OBVIOUS
  <2> QED BY <2>1, Zenon
<1>2. Tally(t \o s, S) = Tally(t, S) + Tally(s, S) /\ Tally(s, S) \in Nat
  BY TallyConcat, TallyTyped
<1>3. Tally(t, S) = IF e \in S THEN 1 ELSE 0
  BY <1>1, TallyOfOne
<1>4. << e >> \o s = t \o s
  BY <1>1, Zenon
<1>5. Tally(<< e >> \o s, S) = Tally(t, S) + Tally(s, S)
  BY <1>2, <1>4, Zenon
<1>6. CASE e \in S
  <2>1. Tally(t, S) = 1
    BY <1>3, <1>6
  <2>2. 1 + Tally(s, S) = Tally(s, S) + 1
    BY <1>2
  <2> QED BY <1>5, <1>6, <2>1, <2>2
<1>7. CASE e \notin S
  <2>1. Tally(t, S) = 0
    BY <1>3, <1>7
  <2>2. 0 + Tally(s, S) = Tally(s, S) + 0
    BY <1>2
  <2> QED BY <1>5, <1>7, <2>1, <2>2
<1> QED BY <1>6, <1>7

LEMMA TallyPop ==
    ASSUME NEW T, NEW s \in Seq(T), s # << >>, NEW S
    PROVE  Tally(s, S) = Tally(Tail(s), S) + IF Head(s) \in S THEN 1 ELSE 0
<1>1. Head(s) \in T /\ Tail(s) \in Seq(T) /\ s = << Head(s) >> \o Tail(s)
  BY HeadTailProperties
<1>2. PICK e \in T, r \in Seq(T) : e = Head(s) /\ r = Tail(s)
  BY <1>1, Zenon
<1>3. Tally(<< e >> \o r, S) = Tally(r, S) + IF e \in S THEN 1 ELSE 0
  BY TallyPush, Zenon
<1>4. s = << e >> \o r
  BY <1>1, <1>2, Zenon
<1> QED BY <1>2, <1>3, <1>4, Zenon

\* A list that is cut in two.
LEMMA TallyCut ==
    ASSUME NEW T, NEW s \in Seq(T), NEW n \in 0 .. Len(s), NEW S
    PROVE  /\ SubSeq(s, 1, n) \in Seq(T) /\ SubSeq(s, n + 1, Len(s)) \in Seq(T)
           /\ Tally(s, S) = Tally(SubSeq(s, 1, n), S) + Tally(SubSeq(s, n + 1, Len(s)), S)
<1>1. /\ SubSeq(s, 1, n) \in Seq(T) /\ Len(SubSeq(s, 1, n)) = n
      /\ \A i \in 1 .. n : SubSeq(s, 1, n)[i] = s[i]
      /\ SubSeq(s, n + 1, Len(s)) \in Seq(T) /\ Len(SubSeq(s, n + 1, Len(s))) = Len(s) - n
      /\ \A i \in 1 .. Len(s) - n : SubSeq(s, n + 1, Len(s))[i] = s[n + i]
  BY SubSeqProperties
<1> DEFINE a == SubSeq(s, 1, n)
           b == SubSeq(s, n + 1, Len(s))
<1>4. /\ a \in Seq(T) /\ Len(a) = n /\ \A i \in 1 .. n : a[i] = s[i]
      /\ b \in Seq(T) /\ Len(b) = Len(s) - n /\ \A i \in 1 .. Len(s) - n : b[i] = s[n + i]
  BY <1>1
<1> HIDE DEF a, b
<1>2. s = a \o b
  <2>1. /\ a \o b \in Seq(T) /\ Len(a \o b) = Len(s)
        /\ \A i \in 1 .. n : (a \o b)[i] = a[i]
        /\ \A i \in 1 .. Len(s) - n : (a \o b)[n + i] = b[i]
    BY <1>4, ConcatProperties
  <2>2. ASSUME NEW i \in 1 .. Len(s) PROVE s[i] = (a \o b)[i]
    <3>1. CASE i <= n
      BY <1>4, <2>1, <3>1
    <3>2. CASE i > n
      <4>1. i - n \in 1 .. Len(s) - n /\ n + (i - n) = i
        BY <3>2
      <4>2. (a \o b)[n + (i - n)] = b[i - n] /\ b[i - n] = s[n + (i - n)]
        BY <1>4, <2>1, <4>1
      <4> QED BY <4>1, <4>2
    <3>3. i <= n \/ i > n
      <4>1. Len(s) \in Nat
        OBVIOUS
      <4> QED BY <4>1
    <3> QED BY <3>1, <3>2, <3>3, Zenon
  <2> QED BY <2>1, <2>2, SeqEqual
<1>3. Tally(a \o b, S) = Tally(a, S) + Tally(b, S)
  BY <1>4, TallyConcat
<1> QED BY <1>4, <1>2, <1>3 DEF a, b

\* A list with no element in S.
LEMMA TallyZero ==
    ASSUME NEW T, NEW s \in Seq(T), NEW S, Tally(s, S) = 0
    PROVE  \A m \in ToSet(s) : m \notin S
<1>1. TallyAt(s, S) = {}
  BY TallyTyped, FS_EmptySet DEF Tally
<1> QED BY <1>1 DEF TallyAt, ToSet

\* A message more on a port.
LEMMA AtTheFront ==
    ASSUME NEW T, NEW q \in Seq(T), NEW e \in T, NEW S
    PROVE  /\ Append(q, e) \in Seq(T) /\ Len(Append(q, e)) = Len(q) + 1
           /\ ToSet(Append(q, e)) = ToSet(q) \cup {e}
           /\ Tally(q, S) \in Nat /\ Tally(Append(q, e), S) \in Nat
           /\ e \in S => Tally(Append(q, e), S) = Tally(q, S) + 1
           /\ e \notin S => Tally(Append(q, e), S) = Tally(q, S)
<1>1. Tally(Append(q, e), S) = Tally(q, S) + IF e \in S THEN 1 ELSE 0
  BY TallyAppend
<1>2. Append(q, e) \in Seq(T) /\ Tally(q, S) \in Nat
  BY TallyTyped
<1> QED BY <1>1, <1>2, AppendElements

\* A message less.
LEMMA WithoutFront ==
    ASSUME NEW T, NEW q \in Seq(T), q # << >>, NEW S
    PROVE  /\ Tail(q) \in Seq(T) /\ Head(q) \in T /\ Len(Tail(q)) = Len(q) - 1
           /\ ToSet(q) = ToSet(Tail(q)) \cup {Head(q)}
           /\ Tally(q, S) \in Nat /\ Tally(Tail(q), S) \in Nat
           /\ Head(q) \in S => Tally(q, S) = Tally(Tail(q), S) + 1
           /\ Head(q) \notin S => Tally(q, S) = Tally(Tail(q), S)
<1>1. Tally(q, S) = Tally(Tail(q), S) + IF Head(q) \in S THEN 1 ELSE 0
  BY TallyPop
<1>2. Tail(q) \in Seq(T) /\ Tally(q, S) \in Nat
  BY TallyTyped
<1>3. Tally(Tail(q), S) \in Nat
  BY <1>2, TallyTyped
<1> QED BY <1>1, <1>2, <1>3, PopElements

\* Every member of a family is a list, and where its elements in S are.
IsFamily(F) == \E T : F \in [DOMAIN F -> Seq(T)]
Hits(F, S) == {x \in Positions(F) : ItemAt(F, x) \in S}

LEMMA SeqOfMore ==
    ASSUME NEW T, NEW U, NEW s \in Seq(T), T \subseteq U
    PROVE  s \in Seq(U)
<1>1. Len(s) \in Nat /\ DOMAIN s = 1 .. Len(s) /\ \A i \in 1 .. Len(s) : s[i] \in U
  OBVIOUS
<1>2. s = [i \in 1 .. Len(s) |-> s[i]]
  OBVIOUS
<1>3. s \in [1 .. Len(s) -> U]
  BY <1>1, <1>2
<1> QED BY <1>1, <1>3, SeqDef

\* G is F with another list at k.
Replaces(G, F, k, s) ==
    DOMAIN G = DOMAIN F /\ \A l \in DOMAIN F : G[l] = IF l = k THEN s ELSE F[l]

LEMMA FamilyPut ==
    ASSUME NEW F, IsFamily(F), NEW k \in DOMAIN F, NEW U, NEW s \in Seq(U),
           NEW G, G = [F EXCEPT ![k] = s]
    PROVE  IsFamily(G) /\ Replaces(G, F, k, s)
<1>1. PICK T : F \in [DOMAIN F -> Seq(T)]
  BY DEF IsFamily
<1> DEFINE W == T \cup U
<1>2. s \in Seq(W) /\ \A l \in DOMAIN F : F[l] \in Seq(W)
  BY <1>1, SeqOfMore
<1>3. DOMAIN G = DOMAIN F /\ \A l \in DOMAIN F : G[l] = IF l = k THEN s ELSE F[l]
  BY <1>1
<1>4. G = [l \in DOMAIN G |-> G[l]]
  BY <1>1
<1> HIDE DEF W
<1>5. G \in [DOMAIN G -> Seq(W)]
  BY <1>2, <1>3, <1>4
<1>6. IsFamily(G)
  BY <1>5, Zenon DEF IsFamily
<1> QED BY <1>3, <1>6 DEF Replaces

\* One list is replaced by another.
LEMMA HitsPut ==
    ASSUME NEW F, IsFamily(F), NEW k \in DOMAIN F, NEW U, NEW s \in Seq(U), NEW S,
           IsFiniteSet(Hits(F, S)), NEW G, Replaces(G, F, k, s)
    PROVE  /\ IsFiniteSet(Hits(G, S))
           /\ Cardinality(Hits(G, S)) + Tally(F[k], S) = Cardinality(Hits(F, S)) + Tally(s, S)
           /\ Cardinality(Hits(F, S)) \in Nat /\ Cardinality(Hits(G, S)) \in Nat
           /\ Tally(F[k], S) \in Nat /\ Tally(s, S) \in Nat
<1> DEFINE rest == {x \in Hits(F, S) : x[1] # k}
           on(t) == {k} \X TallyAt(t, S)
<1>1. DOMAIN G = DOMAIN F /\ \A l \in DOMAIN F : G[l] = IF l = k THEN s ELSE F[l]
  BY DEF Replaces
<1>2. Hits(F, S) = rest \cup on(F[k])
  BY DEF Hits, Positions, ItemAt, TallyAt
<1>3. Hits(G, S) = rest \cup on(s)
  <2>1. ASSUME NEW x \in Hits(G, S) PROVE x \in rest \cup on(s)
    <3>1. PICK l \in DOMAIN F : \E i \in DOMAIN G[l] : x = << l, i >> /\ G[l][i] \in S
      BY <1>1 DEF Hits, Positions, ItemAt
    <3>2. PICK i \in DOMAIN G[l] : x = << l, i >> /\ G[l][i] \in S
      BY <3>1
    <3>3. CASE l = k
      BY <1>1, <3>2, <3>3 DEF TallyAt
    <3>4. CASE l # k
      <4>1. i \in DOMAIN F[l] /\ F[l][i] \in S
        BY <1>1, <3>2, <3>4
      <4>2. x \in Positions(F) /\ ItemAt(F, x) \in S /\ x[1] # k
        BY <3>2, <3>4, <4>1 DEF Positions, ItemAt
      <4> QED BY <4>2 DEF Hits
    <3> QED BY <3>3, <3>4
  <2>2. ASSUME NEW x \in rest PROVE x \in Hits(G, S)
    <3>1. PICK l \in DOMAIN F : \E i \in DOMAIN F[l] : x = << l, i >> /\ F[l][i] \in S /\ l # k
      BY DEF Hits, Positions, ItemAt
    <3>2. PICK i \in DOMAIN F[l] : x = << l, i >> /\ F[l][i] \in S
      BY <3>1
    <3>3. G[l] = F[l]
      BY <1>1, <3>1
    <3> QED BY <1>1, <3>2, <3>3 DEF Hits, Positions, ItemAt
  <2>3. ASSUME NEW x \in on(s) PROVE x \in Hits(G, S)
    <3>1. PICK i \in TallyAt(s, S) : x = << k, i >>
      OBVIOUS
    <3>2. G[k] = s
      BY <1>1
    <3> QED BY <1>1, <3>1, <3>2 DEF Hits, Positions, ItemAt, TallyAt
  <2> QED BY <2>1, <2>2, <2>3
<1>4. PICK T : F[k] \in Seq(T)
  BY DEF IsFamily
<1>5. ASSUME NEW V, NEW t \in Seq(V)
      PROVE  /\ IsFiniteSet(on(t)) /\ Cardinality(on(t)) = Tally(t, S) /\ Tally(t, S) \in Nat
             /\ rest \cap on(t) = {}
  <2> DEFINE f == [i \in TallyAt(t, S) |-> << k, i >>]
  <2>1. IsFiniteSet(TallyAt(t, S)) /\ Tally(t, S) \in Nat
    BY TallyTyped
  <2>2. /\ f \in [TallyAt(t, S) -> on(t)]
        /\ \A i, j \in TallyAt(t, S) : f[i] = f[j] => i = j
        /\ \A x \in on(t) : \E i \in TallyAt(t, S) : f[i] = x
    OBVIOUS
  <2>3. ExistsBijection(TallyAt(t, S), on(t))
    <3> HIDE DEF f, on
    <3>1. f \in Bijection(TallyAt(t, S), on(t))
      BY <2>2, Zenon DEF Bijection, Injection, Surjection, IsInjective
    <3> QED BY <3>1, Zenon DEF ExistsBijection
  <2>4. rest \cap on(t) = {}
    OBVIOUS
  <2> HIDE DEF on, rest
  <2> QED BY <2>1, <2>3, <2>4, FS_Bijection DEF Tally
<1>6. IsFiniteSet(rest)
  <2>1. rest \subseteq Hits(F, S)
    OBVIOUS
  <2> HIDE DEF rest
  <2> QED BY <2>1, FS_Subset
<1> HIDE DEF on, rest
<1>7. ASSUME NEW V, NEW t \in Seq(V)
      PROVE  /\ IsFiniteSet(rest \cup on(t))
             /\ Cardinality(rest \cup on(t)) = Cardinality(rest) + Tally(t, S)
             /\ Cardinality(rest) \in Nat /\ Tally(t, S) \in Nat
  <2>1. /\ IsFiniteSet(rest \cup on(t))
        /\ Cardinality(rest \cup on(t))
             = Cardinality(rest) + Cardinality(on(t)) - Cardinality(rest \cap on(t))
    BY <1>5, <1>6, FS_Union
  <2>2. Cardinality(rest \cap on(t)) = 0 /\ Cardinality(rest) \in Nat
    BY <1>5, <1>6, FS_EmptySet, FS_CardinalityType
  <2> QED BY <1>5, <2>1, <2>2
<1>8. /\ IsFiniteSet(Hits(G, S))
      /\ Cardinality(Hits(G, S)) = Cardinality(rest) + Tally(s, S)
      /\ Cardinality(Hits(F, S)) = Cardinality(rest) + Tally(F[k], S)
      /\ Cardinality(rest) \in Nat /\ Tally(s, S) \in Nat /\ Tally(F[k], S) \in Nat
  BY <1>2, <1>3, <1>4, <1>7
<1> QED BY <1>8

-----------------------------------------------------------------------------
(* What comes first. *)

\* The first element of a list moves to the end of the one before it.
LEMMA FirstMoves ==
    ASSUME NEW C, NEW d \in Seq(C), NEW j \in Seq(C), j # << >>
    PROVE  Append(d, Head(j)) \o Tail(j) = d \o j
<1>1. /\ Head(j) \in C /\ Tail(j) \in Seq(C) /\ Len(Tail(j)) = Len(j) - 1
      /\ \A i \in 1 .. Len(Tail(j)) : Tail(j)[i] = j[i + 1]
      /\ Head(j) = j[1] /\ Len(j) \in Nat \ {0}
  BY HeadTailProperties, EmptySeq
<1>2. PICK h \in Seq(C) : h = << Head(j) >>
  <2>1. << Head(j) >> \in Seq(C)
    BY <1>1
  <2> QED BY <2>1
<1>3. Append(d, Head(j)) = d \o h
  BY <1>1, <1>2, AppendIsConcat
<1>4. h \o Tail(j) = j
  BY <1>1, <1>2
<1>5. (d \o h) \o Tail(j) = d \o (h \o Tail(j))
  <2>1. PICK r \in Seq(C) : r = Tail(j)
    BY <1>1, Zenon
  <2>2. Joined(Joined(d, h), r) = Joined(d, Joined(h, r))
    BY JoinedAssociate
  <2> QED BY <2>1, <2>2, Zenon DEF Joined
<1> QED BY <1>3, <1>4, <1>5

\* What comes first in a list is a prefix of it.
LEMMA FrontIsPrefix ==
    ASSUME NEW C, NEW a \in Seq(C), NEW b \in Seq(C)
    PROVE  IsPrefix(a, a \o b)
<1>1. /\ a \o b \in Seq(C) /\ Len(a \o b) = Len(a) + Len(b) /\ Len(a) \in Nat /\ Len(b) \in Nat
      /\ \A i \in 1 .. Len(a) : (a \o b)[i] = a[i]
  BY ConcatProperties
<1>2. SubSeq(a, 1, Len(a)) = SubSeq(a \o b, 1, Len(a))
  <2>1. \A i \in 1 .. Len(a) : a[i] \in C /\ (a \o b)[i] \in C
    BY <1>1
  <2>2. /\ SubSeq(a, 1, Len(a)) \in Seq(C) /\ SubSeq(a \o b, 1, Len(a)) \in Seq(C)
        /\ Len(SubSeq(a, 1, Len(a))) = Len(a) /\ Len(SubSeq(a \o b, 1, Len(a))) = Len(a)
        /\ \A i \in 1 .. Len(a) : SubSeq(a, 1, Len(a))[i] = a[i]
        /\ \A i \in 1 .. Len(a) : SubSeq(a \o b, 1, Len(a))[i] = (a \o b)[i]
    BY <1>1, <2>1
  <2> QED BY <1>1, <2>2, SeqEqual
<1> QED BY <1>1, <1>2 DEF IsPrefix

\* The place of a number in a set of numbers, and what it is good for.
RankIn(D, d) == Cardinality({e \in D : e <= d})

LEMMA RankProperties ==
    ASSUME NEW N \in Nat, NEW D \in SUBSET (1 .. N)
    PROVE  /\ IsFiniteSet(D) /\ Cardinality(D) \in Nat
           /\ \A d \in D : RankIn(D, d) \in 1 .. Cardinality(D)
           /\ \A d, e \in D : d < e => RankIn(D, d) < RankIn(D, e)
<1>1. IsFiniteSet(D)
  <2>1. 1 \in Int /\ N \in Int
    OBVIOUS
  <2>2. IsFiniteSet(1 .. N)
    BY <2>1, FS_Interval, Zenon
  <2> QED BY <2>2, FS_Subset
<1>2. Cardinality(D) \in Nat
  BY <1>1, FS_CardinalityType
<1> DEFINE Upto(d) == {e \in D : e <= d}
<1>3. ASSUME NEW d \in D
      PROVE  /\ IsFiniteSet(Upto(d)) /\ Cardinality(Upto(d)) \in Nat
             /\ Cardinality(Upto(d)) <= Cardinality(D) /\ Cardinality(Upto(d)) # 0
  <2>1. Upto(d) \in SUBSET D /\ d \in Upto(d)
    OBVIOUS
  <2> HIDE DEF Upto
  <2>2. IsFiniteSet(Upto(d)) /\ Cardinality(Upto(d)) <= Cardinality(D)
    BY <1>1, <2>1, FS_Subset
  <2>3. Cardinality(Upto(d)) # 0
    BY <2>1, <2>2, FS_EmptySet
  <2> QED BY <2>2, <2>3, FS_CardinalityType
<1>4. ASSUME NEW d \in D PROVE RankIn(D, d) \in 1 .. Cardinality(D)
  <2> DEFINE c == Cardinality(D)
             r == Cardinality(Upto(d))
  <2>1. r \in Nat /\ c \in Nat /\ r <= c /\ r # 0 /\ RankIn(D, d) = r
    BY <1>2, <1>3 DEF RankIn
  <2> HIDE DEF c, r
  <2>2. RankIn(D, d) \in 1 .. c
    BY <2>1
  <2> QED BY <2>2 DEF c
<1>5. ASSUME NEW d \in D, NEW e \in D, d < e PROVE RankIn(D, d) < RankIn(D, e)
  <2>0. d \in Nat /\ e \in Nat /\ \A x \in D : x \in Nat
    OBVIOUS
  <2>1. Upto(d) \in SUBSET Upto(e) /\ e \in Upto(e) /\ e \notin Upto(d)
    <3>1. e <= e /\ ~(e <= d) /\ \A x \in D : x <= d => x <= e
      BY <1>5, <2>0
    <3> QED BY <3>1, Zenon
  <2> DEFINE a == Cardinality(Upto(d))
             b == Cardinality(Upto(e))
  <2>2. a = RankIn(D, d) /\ b = RankIn(D, e)
    BY DEF RankIn
  <2>4. IsFiniteSet(Upto(e)) /\ a \in Nat /\ b \in Nat
    BY <1>3
  <2> HIDE DEF Upto
  <2>3. a <= b /\ a # b
    BY <2>1, <2>4, FS_Subset
  <2> HIDE DEF a, b
  <2> QED BY <2>2, <2>3, <2>4
<1> QED BY <1>1, <1>2, <1>4, <1>5
=============================================================================
