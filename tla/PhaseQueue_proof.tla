-------------------------- MODULE PhaseQueue_proof --------------------------
(***************************************************************************)
(* Facts about phase-bit queues, and about counting, that the proofs about *)
(* the modules that use such queues cite.  What needs induction is shown   *)
(* by taking the least counterexample.                                     *)
(***************************************************************************)
EXTENDS PhaseQueue, FiniteSetTheorems, SequenceTheorems, TLAPS

\* A remainder of what is less than twice the divisor.
LEMMA ModOnce ==
  ASSUME NEW N \in Nat \ {0}, NEW x \in 0..(2 * N - 1)
  PROVE  x % N = IF x < N THEN x ELSE x - N
<1>1. CASE x < N
  BY <1>1
<1>2. CASE ~(x < N)
  <2>1. x = 1 * N + (x - N) /\ x - N \in 0..(N - 1)
    BY <1>2
  <2> QED BY <1>2, <2>1
<1> QED BY <1>1, <1>2

\* A function on 1..n is a sequence.
LEMMA FunctionIsSequence ==
  ASSUME NEW S, NEW n \in Nat, NEW f \in [1..n -> S]
  PROVE  f \in Seq(S) /\ Len(f) = n
<1>1. f \in Seq(S)
  BY SeqDef
<1> QED BY <1>1, LenProperties

\* A pointer stays one when it advances.
LEMMA AdvanceType ==
  ASSUME NEW N \in Nat \ {0}, NEW p \in Pointer(N)
  PROVE  Advance(p, N) \in Pointer(N)
BY DEF Pointer, Advance

\* Index 0 with phase 0 is a pointer.
LEMMA OriginType ==
  ASSUME NEW N \in Nat \ {0}
  PROVE  Origin \in Pointer(N)
BY DEF Pointer, Origin

\* A distance is between 0 and the size of the queue, and what is left of it is available.
LEMMA DistanceType ==
  ASSUME NEW N \in Nat \ {0}, NEW h \in Pointer(N), NEW t \in Pointer(N), Ordered(h, t)
  PROVE  /\ Distance(h, t, N) \in 0..N
         /\ Available(h, t, N) = N - Distance(h, t, N)
BY DEF Pointer, Ordered, Distance, Available

\* A pointer is at distance 0 from itself.
LEMMA DistanceZero ==
  ASSUME NEW N \in Nat \ {0}, NEW p \in Pointer(N)
  PROVE  Ordered(p, p) /\ Distance(p, p, N) = 0 /\ Slots(p, p, N) = {}
BY DEF Pointer, Ordered, Distance, Slots

\* The tail of a queue that is not full advances by one entry, which was none of the queue's.
LEMMA AdvanceTail ==
  ASSUME NEW N \in Nat \ {0}, NEW h \in Pointer(N), NEW t \in Pointer(N), Ordered(h, t),
         Distance(h, t, N) < N
  PROVE  /\ Ordered(h, Advance(t, N))
         /\ Distance(h, Advance(t, N), N) = Distance(h, t, N) + 1
         /\ Slots(h, Advance(t, N), N) = Slots(h, t, N) \cup {t.idx}
         /\ t.idx \notin Slots(h, t, N)
<1>1. Ordered(h, Advance(t, N)) /\ Distance(h, Advance(t, N), N) = Distance(h, t, N) + 1
  BY DEF Pointer, Ordered, Distance, Advance
<1>2. Slots(h, Advance(t, N), N) = Slots(h, t, N) \cup {t.idx}
  BY DEF Pointer, Ordered, Distance, Advance, Slots
<1>3. t.idx \notin Slots(h, t, N)
  BY DEF Pointer, Ordered, Distance, Slots
<1> QED BY <1>1, <1>2, <1>3

\* The head of a queue that is not empty advances over one of its entries.
LEMMA AdvanceHead ==
  ASSUME NEW N \in Nat \ {0}, NEW h \in Pointer(N), NEW t \in Pointer(N), Ordered(h, t),
         Distance(h, t, N) > 0
  PROVE  /\ Ordered(Advance(h, N), t)
         /\ Distance(Advance(h, N), t, N) = Distance(h, t, N) - 1
         /\ Slots(Advance(h, N), t, N) = Slots(h, t, N) \ {h.idx}
         /\ h.idx \in Slots(h, t, N)
<1>1. Ordered(Advance(h, N), t) /\ Distance(Advance(h, N), t, N) = Distance(h, t, N) - 1
  BY DEF Pointer, Ordered, Distance, Advance
<1>2. Slots(Advance(h, N), t, N) = Slots(h, t, N) \ {h.idx}
  BY DEF Pointer, Ordered, Distance, Advance, Slots
<1>3. h.idx \in Slots(h, t, N)
  BY DEF Pointer, Ordered, Distance, Slots
<1> QED BY <1>1, <1>2, <1>3

\* A pointer between head and tail splits the queue in two.
LEMMA SlotsSplit ==
  ASSUME NEW N \in Nat \ {0}, NEW h \in Pointer(N), NEW c \in Pointer(N), NEW t \in Pointer(N),
         Ordered(h, c), Ordered(h, t), Distance(h, c, N) <= Distance(h, t, N)
  PROVE  /\ Slots(h, t, N) = Slots(h, c, N) \cup Slots(c, t, N)
         /\ Slots(h, c, N) \cap Slots(c, t, N) = {}
<1>1. CASE h.phase = t.phase
  <2>1. c.phase = h.phase /\ h.idx <= c.idx /\ c.idx <= t.idx
    BY <1>1 DEF Pointer, Ordered, Distance
  <2> QED BY <1>1, <2>1 DEF Pointer, Slots
<1>2. CASE h.phase # t.phase /\ c.phase = h.phase
  <2>1. h.idx <= c.idx /\ t.idx <= h.idx
    BY <1>2 DEF Pointer, Ordered
  <2> QED BY <1>2, <2>1 DEF Pointer, Slots
<1>3. CASE h.phase # t.phase /\ c.phase # h.phase
  <2>1. c.phase = t.phase /\ c.idx <= t.idx /\ t.idx <= h.idx
    BY <1>3 DEF Pointer, Ordered, Distance
  <2> QED BY <1>3, <2>1 DEF Pointer, Slots
<1> QED BY <1>1, <1>2, <1>3

\* The slots between two pointers are slots of the queue, so there are at most N of them.
LEMMA SlotsType ==
  ASSUME NEW N \in Nat \ {0}, NEW h \in Pointer(N), NEW t \in Pointer(N)
  PROVE  /\ Slots(h, t, N) \subseteq 0..(N - 1)
         /\ \A S \in SUBSET Slots(h, t, N) :
              IsFiniteSet(S) /\ Cardinality(S) \in Nat /\ Cardinality(S) <= N
<1>1. Slots(h, t, N) \subseteq 0..(N - 1)
  BY DEF Pointer, Slots
<1>2. IsFiniteSet(0..(N - 1)) /\ Cardinality(0..(N - 1)) = N
  BY FS_Interval
<1>3. ASSUME NEW S \in SUBSET Slots(h, t, N)
      PROVE  IsFiniteSet(S) /\ Cardinality(S) \in Nat /\ Cardinality(S) <= N
  <2>1. S \in SUBSET (0..(N - 1))
    BY <1>1
  <2>2. IsFiniteSet(S) /\ Cardinality(S) <= Cardinality(0..(N - 1))
    BY <1>2, <2>1, FS_Subset
  <2>3. Cardinality(S) \in Nat
    BY <2>2, FS_CardinalityType
  <2> QED BY <1>2, <2>2, <2>3
<1> QED BY <1>1, <1>3

-----------------------------------------------------------------------------
(* Induction *)

\* A set of natural numbers that is not empty has a least element.
LEMMA LeastNat ==
  ASSUME NEW T, T \subseteq Nat, T # {}
  PROVE  \E x \in T : \A y \in T : x <= y
<1> DEFINE F == {0..(x - 1) : x \in T}
<1>1. IsWellFoundedOn(StrictSubsetOrdering(Nat), FiniteSubsetsOf(Nat))
  BY FS_StrictSubsetOrderingWellFounded
<1>2. F \subseteq FiniteSubsetsOf(Nat)
  <2> SUFFICES ASSUME NEW x \in T PROVE 0..(x - 1) \in FiniteSubsetsOf(Nat)
    OBVIOUS
  <2>1. x \in Nat /\ x - 1 \in Int
    OBVIOUS
  <2>2. IsFiniteSet(0..(x - 1))
    BY <2>1, FS_Interval
  <2> QED BY <2>1, <2>2 DEF FiniteSubsetsOf
<1>3. F # {}
  OBVIOUS
<1>4. PICK S \in F : \A U \in F : ~(<<U, S>> \in StrictSubsetOrdering(Nat))
  <2> HIDE DEF F
  <2> QED BY <1>1, <1>2, <1>3, WFMin
<1>5. PICK x \in T : S = 0..(x - 1)
  BY <1>4
<1>6. ASSUME NEW y \in T, y < x PROVE FALSE
  <2>1. 0..(y - 1) \in F
    OBVIOUS
  <2>2. 0..(y - 1) \subseteq S /\ y \in S /\ y \notin 0..(y - 1)
    BY <1>5, <1>6
  <2>3. S \subseteq Nat
    BY <1>5
  <2> QED BY <1>4, <2>1, <2>2, <2>3 DEF StrictSubsetOrdering
<1> QED BY <1>5, <1>6

\* The pointer n entries further on, n at most the size of the queue, without the recursion.
Onward(p, n, N) ==
  IF p.idx + n < N THEN [idx |-> p.idx + n, phase |-> p.phase]
  ELSE [idx |-> p.idx + n - N, phase |-> 1 - p.phase]

\* It is one entry on from the pointer n - 1 entries on.
LEMMA OnwardNext ==
  ASSUME NEW N \in Nat \ {0}, NEW p \in Pointer(N), NEW k \in 1..N
  PROVE  Onward(p, k, N) = Advance(Onward(p, k - 1, N), N)
<1>1. p.idx \in 0..(N - 1) /\ p.phase \in {0, 1} /\ p = [idx |-> p.idx, phase |-> p.phase]
  BY DEF Pointer
<1>2. CASE p.idx + k < N
  BY <1>1, <1>2 DEF Onward, Advance
<1>3. CASE p.idx + k = N
  <2>1. Onward(p, k, N) = [idx |-> 0, phase |-> 1 - p.phase]
    BY <1>1, <1>3 DEF Onward
  <2>2. Onward(p, k - 1, N) = [idx |-> p.idx + (k - 1), phase |-> p.phase] /\ p.idx + (k - 1) + 1 = N
    BY <1>1, <1>3 DEF Onward
  <2> QED BY <2>1, <2>2 DEF Advance
<1>4. CASE p.idx + k > N
  <2>1. Onward(p, k, N) = [idx |-> p.idx + k - N, phase |-> 1 - p.phase]
    BY <1>1, <1>4 DEF Onward
  <2>2. Onward(p, k - 1, N) = [idx |-> p.idx + (k - 1) - N, phase |-> 1 - p.phase]
    BY <1>1, <1>4 DEF Onward
  <2>3. p.idx + (k - 1) - N + 1 = p.idx + k - N /\ p.idx + k - N # N
    BY <1>1
  <2> QED BY <2>1, <2>2, <2>3 DEF Advance
<1> QED BY <1>1, <1>2, <1>3, <1>4

\* So it is what the recursion computes.
LEMMA AdvanceByIsOnward ==
  ASSUME NEW N \in Nat \ {0}, NEW p \in Pointer(N), NEW n \in 0..N
  PROVE  AdvanceBy(p, n, N) = Onward(p, n, N)
<1> DEFINE Rec(f) == [k \in 0..n |-> IF k = 0 THEN p ELSE Advance(f[k - 1], N)]
           f == CHOOSE g : g = Rec(g)
           closed == [k \in 0..n |-> Onward(p, k, N)]
<1>1. closed = Rec(closed)
  <2>1. ASSUME NEW k \in 0..n PROVE Onward(p, k, N) = IF k = 0 THEN p ELSE Advance(closed[k - 1], N)
    <3>1. CASE k = 0
      BY <3>1 DEF Onward, Pointer
    <3>2. CASE k # 0
      <4>1. closed[k - 1] = Onward(p, k - 1, N)
        BY <3>2
      <4> QED BY <3>2, <4>1, OnwardNext
    <3> QED BY <3>1, <3>2
  <2> QED BY <2>1
<1>2. f = Rec(f)
  <2> HIDE DEF closed
  <2> QED BY <1>1
<1>3. ASSUME NEW k \in 0..n PROVE f[k] = closed[k]
  <2> DEFINE T == {j \in 0..n : f[j] # closed[j]}
  <2>1. SUFFICES ASSUME T # {} PROVE FALSE
    OBVIOUS
  <2>2. PICK j \in T : \A i \in T : j <= i
    <3>1. T \subseteq Nat
      OBVIOUS
    <3> HIDE DEF T
    <3> QED BY <2>1, <3>1, LeastNat
  <2>3. j # 0 => f[j - 1] = closed[j - 1]
    BY <2>2
  <2>4. f[j] = IF j = 0 THEN p ELSE Advance(f[j - 1], N)
    <3> HIDE DEF f, closed
    <3> QED BY <1>2
  <2>5. closed[j] = IF j = 0 THEN p ELSE Advance(closed[j - 1], N)
    <3> HIDE DEF f, closed
    <3> QED BY <1>1
  <2> QED BY <2>2, <2>3, <2>4, <2>5
<1>4. AdvanceBy(p, n, N) = f[n]
  BY DEF AdvanceBy
<1>5. n \in 0..n /\ closed[n] = Onward(p, n, N)
  OBVIOUS
<1> QED
  <2> HIDE DEF f, closed
  <2> QED BY <1>3, <1>4, <1>5

-----------------------------------------------------------------------------
(* AdvanceBy *)

\* Up to a queue's size further on there are pointers of the queue.
LEMMA AdvanceByType ==
  ASSUME NEW N \in Nat \ {0}, NEW p \in Pointer(N), NEW n \in 0..N
  PROVE  /\ AdvanceBy(p, n, N) \in Pointer(N)
         /\ AdvanceBy(p, 0, N) = p
<1>1. Onward(p, n, N) \in Pointer(N) /\ Onward(p, 0, N) = p
  BY DEF Pointer, Onward
<1>2. AdvanceBy(p, n, N) = Onward(p, n, N) /\ AdvanceBy(p, 0, N) = Onward(p, 0, N)
  BY AdvanceByIsOnward
<1> QED BY <1>1, <1>2

\* One entry further on at the far end, and one at the near end.
LEMMA AdvanceByNext ==
  ASSUME NEW N \in Nat \ {0}, NEW p \in Pointer(N), NEW n \in 0..(N - 1)
  PROVE  /\ Advance(AdvanceBy(p, n, N), N) = AdvanceBy(p, n + 1, N)
         /\ AdvanceBy(Advance(p, N), n, N) = AdvanceBy(p, n + 1, N)
<1>1. AdvanceBy(p, n, N) = Onward(p, n, N) /\ AdvanceBy(p, n + 1, N) = Onward(p, n + 1, N)
  BY AdvanceByIsOnward
<1>2. Advance(Onward(p, n, N), N) = Onward(p, n + 1, N)
  <2>1. n + 1 \in 1..N /\ (n + 1) - 1 = n
    OBVIOUS
  <2> QED BY <2>1, OnwardNext
<1>3. Advance(p, N) \in Pointer(N)
  BY AdvanceType
<1>4. AdvanceBy(Advance(p, N), n, N) = Onward(Advance(p, N), n, N)
  BY <1>3, AdvanceByIsOnward
<1>5. Onward(Advance(p, N), n, N) = Onward(p, n + 1, N)
  <2>1. CASE p.idx + 1 = N
    BY <2>1 DEF Pointer, Onward, Advance
  <2>2. CASE p.idx + 1 # N
    BY <2>2 DEF Pointer, Onward, Advance
  <2> QED BY <2>1, <2>2
<1> QED BY <1>1, <1>2, <1>4, <1>5

\* Two different entries of a queue have different indexes.
LEMMA AdvanceByInjective ==
  ASSUME NEW N \in Nat \ {0}, NEW p \in Pointer(N), NEW m \in 0..(N - 1), NEW n \in 0..(N - 1),
         AdvanceBy(p, m, N).idx = AdvanceBy(p, n, N).idx
  PROVE  m = n
<1>1. Onward(p, m, N).idx = Onward(p, n, N).idx
  BY AdvanceByIsOnward
<1> QED BY <1>1 DEF Pointer, Onward

\* The distance to the pointer n entries on is n, and the slots up to it are those of the
\* n entries.
LEMMA AdvanceByDistance ==
  ASSUME NEW N \in Nat \ {0}, NEW p \in Pointer(N), NEW n \in 0..N
  PROVE  /\ Ordered(p, AdvanceBy(p, n, N))
         /\ Distance(p, AdvanceBy(p, n, N), N) = n
         /\ Slots(p, AdvanceBy(p, n, N), N) = {AdvanceBy(p, k, N).idx : k \in 0..(n - 1)}
<1>1. AdvanceBy(p, n, N) = Onward(p, n, N)
  BY AdvanceByIsOnward
<1>2. Ordered(p, Onward(p, n, N)) /\ Distance(p, Onward(p, n, N), N) = n
  BY DEF Pointer, Onward, Ordered, Distance
<1>3. \A k \in 0..(n - 1) : AdvanceBy(p, k, N) = Onward(p, k, N)
  BY AdvanceByIsOnward
<1>4. ASSUME NEW s \in Slots(p, Onward(p, n, N), N)
      PROVE  \E k \in 0..(n - 1) : s = Onward(p, k, N).idx
  <2>1. CASE s >= p.idx
    <3>1. s - p.idx \in 0..(n - 1) /\ p.idx + (s - p.idx) = s /\ s < N
      BY <2>1 DEF Pointer, Onward, Slots
    <3> QED BY <3>1 DEF Onward
  <2>2. CASE ~(s >= p.idx)
    <3>1. s + N - p.idx \in 0..(n - 1) /\ p.idx + (s + N - p.idx) - N = s
          /\ ~(p.idx + (s + N - p.idx) < N)
      BY <2>2 DEF Pointer, Onward, Slots
    <3> QED BY <3>1 DEF Onward
  <2> QED BY <2>1, <2>2
<1>5. ASSUME NEW k \in 0..(n - 1)
      PROVE  Onward(p, k, N).idx \in Slots(p, Onward(p, n, N), N)
  BY DEF Pointer, Onward, Slots
<1> QED BY <1>1, <1>2, <1>3, <1>4, <1>5

\* A pointer is its distance further on.
LEMMA AdvanceByOwnDistance ==
  ASSUME NEW N \in Nat \ {0}, NEW h \in Pointer(N), NEW t \in Pointer(N), Ordered(h, t)
  PROVE  t = AdvanceBy(h, Distance(h, t, N), N)
<1>1. Distance(h, t, N) \in 0..N
  BY DistanceType
<1>2. AdvanceBy(h, Distance(h, t, N), N) = Onward(h, Distance(h, t, N), N)
  BY <1>1, AdvanceByIsOnward
<1>3. Onward(h, Distance(h, t, N), N) = t
  BY DEF Pointer, Ordered, Distance, Onward
<1> QED BY <1>2, <1>3

-----------------------------------------------------------------------------
(* Counting *)

\* How many of some numbered things come before the i-th place.
Count(S, i) == Cardinality({j \in S : j < i})

\* Those of some numbered things that are older than one of them are no more than all of them,
\* and fewer than those older than a younger one.
LEMMA CountType ==
  ASSUME NEW n \in Nat, NEW S \in SUBSET (1..n), NEW i \in Int
  PROVE  /\ IsFiniteSet(S) /\ Cardinality(S) \in 0..n
         /\ IsFiniteSet({j \in S : j < i}) /\ Count(S, i) \in 0..Cardinality(S)
<1>1. IsFiniteSet(1..n) /\ Cardinality(1..n) = n
  BY FS_Interval
<1>2. IsFiniteSet(S) /\ Cardinality(S) <= n
  BY <1>1, FS_Subset
<1>3. Cardinality(S) \in Nat
  BY <1>2, FS_CardinalityType
<1> DEFINE T == {j \in S : j < i}
<1>4. IsFiniteSet(T) /\ Cardinality(T) <= Cardinality(S)
  <2>1. T \in SUBSET S
    OBVIOUS
  <2> HIDE DEF T
  <2> QED BY <1>2, <2>1, FS_Subset
<1>5. Cardinality(T) \in Nat
  <2> HIDE DEF T
  <2> QED BY <1>4, FS_CardinalityType
<1> QED BY <1>2, <1>3, <1>4, <1>5 DEF Count

\* One more is older than i + 1 than is older than i if i is one of them.
LEMMA CountNext ==
  ASSUME NEW n \in Nat, NEW S \in SUBSET (1..n), NEW i \in Int
  PROVE  Count(S, i + 1) = Count(S, i) + (IF i \in S THEN 1 ELSE 0)
<1> DEFINE T == {j \in S : j < i}
           U == {j \in S : j < i + 1}
<1>0. \A j \in S : j \in Int /\ (j < i + 1 <=> j < i \/ j = i)
  <2> SUFFICES ASSUME NEW j \in S PROVE j \in Int /\ (j < i + 1 <=> j < i \/ j = i)
    OBVIOUS
  <2>1. j \in 1..n
    OBVIOUS
  <2> QED BY <2>1
<1>1. IsFiniteSet(T) /\ Cardinality(T) \in Nat
  BY CountType DEF Count
<1>2. CASE i \in S
  <2>1. U = T \cup {i} /\ i \notin T
    <3>1. ~(i < i) /\ i < i + 1
      OBVIOUS
    <3>2. \A j : j \in U <=> j \in T \cup {i}
      BY <1>0, <1>2, <3>1
    <3> QED BY <3>1, <3>2
  <2> HIDE DEF T, U
  <2>2. Cardinality(U) = Cardinality(T) + 1
    BY <1>1, <2>1, FS_AddElement
  <2> QED BY <1>2, <2>2 DEF T, U, Count
<1>3. CASE i \notin S
  <2>1. U = T
    BY <1>0, <1>3
  <2> HIDE DEF T, U
  <2>2. Cardinality(U) = Cardinality(T) + 0
    BY <1>1, <2>1
  <2> QED BY <1>3, <2>2 DEF T, U, Count
<1> QED BY <1>2, <1>3

\* Counts grow with the bound, and past one of the things they grow by one at least.
LEMMA CountGrows ==
  ASSUME NEW n \in Nat, NEW S \in SUBSET (1..n), NEW i \in Int, NEW k \in Int, i <= k
  PROVE  /\ Count(S, i) <= Count(S, k)
         /\ i \in S /\ i < k => Count(S, i) < Count(S, k)
<1> DEFINE T == {j \in S : j < i}
           V == {j \in S : j < i + 1}
           U == {j \in S : j < k}
<1>1. /\ IsFiniteSet(T) /\ Cardinality(T) \in Nat
      /\ IsFiniteSet(V) /\ Cardinality(V) \in Nat
      /\ IsFiniteSet(U) /\ Cardinality(U) \in Nat
  <2>1. i + 1 \in Int
    OBVIOUS
  <2> QED BY <2>1, CountType DEF Count
<1>2. T \in SUBSET U /\ (i < k => V \in SUBSET U)
  <2>1. \A j \in S : j \in Int /\ (j < i => j < k) /\ (i < k /\ j < i + 1 => j < k)
    <3> SUFFICES ASSUME NEW j \in S
                 PROVE  j \in Int /\ (j < i => j < k) /\ (i < k /\ j < i + 1 => j < k)
      OBVIOUS
    <3>1. j \in 1..n
      OBVIOUS
    <3> QED BY <3>1
  <2> QED BY <2>1
<1>3. i \in S => Cardinality(V) = Cardinality(T) + 1
  BY CountNext DEF Count
<1> HIDE DEF T, U, V
<1>4. Cardinality(T) <= Cardinality(U) /\ (i < k => Cardinality(V) <= Cardinality(U))
  BY <1>1, <1>2, FS_Subset
<1>5. i \in S /\ i < k => Cardinality(T) < Cardinality(U)
  BY <1>1, <1>3, <1>4
<1> QED BY <1>4, <1>5 DEF T, U, Count

\* None comes before the first place, and all before the one after the last.
LEMMA CountAll ==
  ASSUME NEW n \in Nat, NEW S \in SUBSET (1..n)
  PROVE  Count(S, 1) = 0 /\ Count(S, n + 1) = Cardinality(S)
<1>1. \A j \in S : j < n + 1 /\ ~(j < 1)
  <2> SUFFICES ASSUME NEW j \in S PROVE j < n + 1 /\ ~(j < 1)
    OBVIOUS
  <2>1. j \in 1..n
    OBVIOUS
  <2> QED BY <2>1
<1>2. {j \in S : j < n + 1} = S /\ {j \in S : j < 1} = {}
  BY <1>1
<1> QED BY <1>2, FS_EmptySet DEF Count

\* What comes before a place depends on nothing behind it.
LEMMA CountSame ==
  ASSUME NEW n \in Nat, NEW S \in SUBSET (1..n), NEW T \in SUBSET (1..n), NEW i \in Int,
         \A j \in 1..n : j < i => (j \in S <=> j \in T)
  PROVE  Count(S, i) = Count(T, i)
<1>1. \A j : j \in S /\ j < i <=> j \in T /\ j < i
  OBVIOUS
<1>2. {j \in S : j < i} = {j \in T : j < i}
  BY <1>1
<1> QED BY <1>2 DEF Count

\* When the first of all leaves, and the others move up by one, there is one fewer if it was
\* one of those counted.
LEMMA CountShift ==
  ASSUME NEW n \in Nat \ {0}, NEW S \in SUBSET (1..n), NEW T \in SUBSET (1..(n - 1)),
         \A j \in 1..(n - 1) : j \in T <=> j + 1 \in S,
         NEW i \in 1..n
  PROVE  /\ Count(T, i) = Count(S, i + 1) - (IF 1 \in S THEN 1 ELSE 0)
         /\ Cardinality(T) = Cardinality(S) - (IF 1 \in S THEN 1 ELSE 0)
<1>1. ASSUME NEW m \in 1..n
      PROVE  Count(T, m) = Count(S, m + 1) - (IF 1 \in S THEN 1 ELSE 0)
  <2> DEFINE A == {j \in T : j < m}
             B == {j \in S : j < m + 1}
             f == [j \in A |-> j + 1]
  <2>1. IsFiniteSet(A) /\ Cardinality(A) \in Nat /\ IsFiniteSet(B) /\ Cardinality(B) \in Nat
    <3>1. n - 1 \in Nat /\ m \in Int /\ m + 1 \in Int
      OBVIOUS
    <3>2. IsFiniteSet(A) /\ Cardinality(A) \in Nat
      BY <3>1, CountType DEF Count
    <3> QED BY <3>1, <3>2, CountType DEF Count
  <2>2. f \in Bijection(A, B \ {1})
    <3>1. \A j \in A : f[j] \in B \ {1}
      OBVIOUS
    <3>2. \A j, k \in A : f[j] = f[k] => j = k
      OBVIOUS
    <3>3. ASSUME NEW b \in B \ {1} PROVE \E j \in A : f[j] = b
      <4>1. b - 1 \in A /\ f[b - 1] = b
        OBVIOUS
      <4> QED BY <4>1
    <3>4. f \in [A -> B \ {1}]
      BY <3>1
    <3> HIDE DEF A, B, f
    <3> QED BY <3>2, <3>3, <3>4 DEF Bijection, Injection, Surjection, IsInjective
  <2>3. ExistsBijection(A, B \ {1})
    BY <2>2 DEF ExistsBijection
  <2> HIDE DEF A, B, f
  <2>4. Cardinality(B \ {1}) = Cardinality(A)
    BY <2>1, <2>3, FS_Bijection
  <2>5. Cardinality(B \ {1}) = IF 1 \in B THEN Cardinality(B) - 1 ELSE Cardinality(B)
    BY <2>1, FS_RemoveElement
  <2>6. 1 \in B <=> 1 \in S
    BY DEF B
  <2>7. Cardinality(A) = Cardinality(B) - (IF 1 \in S THEN 1 ELSE 0)
    BY <2>1, <2>4, <2>5, <2>6
  <2> QED BY <2>7 DEF A, B, Count
<1>2. Count(T, n) = Cardinality(T) /\ Count(S, n + 1) = Cardinality(S)
  <2>1. (n - 1) + 1 = n /\ n - 1 \in Nat
    OBVIOUS
  <2> QED BY <2>1, CountAll
<1>3. n \in 1..n
  OBVIOUS
<1> QED BY <1>1, <1>2, <1>3

\* There is one of them with any given number of older ones.
LEMMA CountOnto ==
  ASSUME NEW n \in Nat, NEW S \in SUBSET (1..n), NEW k \in 0..(Cardinality(S) - 1)
  PROVE  \E i \in S : Count(S, i) = k
<1> DEFINE T == {i \in 1..(n + 1) : Count(S, i) > k}
<1>1. Cardinality(S) \in Nat /\ \A i \in Int : Count(S, i) \in Nat
  <2>1. \A i \in Int : Cardinality(S) \in 0..n /\ Count(S, i) \in 0..Cardinality(S)
    BY CountType
  <2> QED BY <2>1
<1>2. Count(S, 1) = 0 /\ Count(S, n + 1) = Cardinality(S)
  BY CountAll
<1>4. \A i \in Int : Count(S, i + 1) = Count(S, i) + (IF i \in S THEN 1 ELSE 0)
  BY CountNext
<1>5. T \subseteq Nat /\ T # {}
  BY <1>1, <1>2
<1>6. PICK i \in T : \A m \in T : i <= m
  <2> HIDE DEF T
  <2> QED BY <1>5, LeastNat
<1>7. i # 1 /\ i - 1 \in 1..(n + 1) /\ ~(Count(S, i - 1) > k)
  BY <1>1, <1>2, <1>6
<1>8. Count(S, i) = Count(S, i - 1) + (IF i - 1 \in S THEN 1 ELSE 0)
  BY <1>4, <1>6
<1>9. i - 1 \in S /\ Count(S, i - 1) = k
  BY <1>1, <1>6, <1>7, <1>8
<1> QED BY <1>9

-----------------------------------------------------------------------------
(* Queues that hold some of a sequence of instructions *)

\* Of the instructions 1..n those in S have an entry each, in order.  Those in P, which
\* includes S, have recorded in w the pointer to where their entry is, or would be.
Placed(w, S, P, head, tail, length, N) ==
  /\ length = Cardinality(S)
  /\ length \in 0..N
  /\ tail = AdvanceBy(head, length, N)
  /\ \A i \in P : w[i] = AdvanceBy(head, Count(S, i), N)

\* The entries are different ones, none is at the tail unless the queue is full, and the oldest
\* instruction's is at the head.
LEMMA PlacedEntries ==
  ASSUME NEW N \in Nat \ {0}, NEW n \in Nat, NEW P \in SUBSET (1..n), NEW S \in SUBSET P,
         NEW head \in Pointer(N), NEW tail, NEW length, NEW w,
         Placed(w, S, P, head, tail, length, N)
  PROVE  /\ tail \in Pointer(N) /\ Ordered(head, tail) /\ Distance(head, tail, N) = length
         /\ \A i \in P : w[i] \in Pointer(N)
         /\ \A i, j \in S : w[i].idx = w[j].idx => i = j
         /\ length < N => \A i \in S : w[i].idx # tail.idx
         /\ 1 \in P => w[1] = head
         /\ 1 \in S => length > 0
<1>0. \A i \in P : i \in Int
  <2> SUFFICES ASSUME NEW i \in P PROVE i \in Int
    OBVIOUS
  <2>1. i \in 1..n
    OBVIOUS
  <2> QED BY <2>1
<1>1. Cardinality(S) \in 0..N /\ \A i \in Int : Count(S, i) \in 0..Cardinality(S)
  <2>1. S \in SUBSET (1..n)
    OBVIOUS
  <2> QED BY <2>1, CountType DEF Placed
<1>2. \A i \in S : Count(S, i) < Cardinality(S)
  <2> SUFFICES ASSUME NEW i \in S PROVE Count(S, i) < Cardinality(S)
    OBVIOUS
  <2>1. S \in SUBSET (1..n) /\ i \in Int /\ n + 1 \in Int /\ i <= n + 1 /\ i < n + 1
    <3>1. i \in 1..n
      OBVIOUS
    <3> QED BY <3>1
  <2>2. Count(S, i) < Count(S, n + 1)
    BY <2>1, CountGrows
  <2> QED BY <2>1, <2>2, CountAll
<1>3. \A i, j \in S : i < j => Count(S, i) < Count(S, j)
  <2> SUFFICES ASSUME NEW i \in S, NEW j \in S, i < j PROVE Count(S, i) < Count(S, j)
    OBVIOUS
  <2>1. S \in SUBSET (1..n) /\ i \in Int /\ j \in Int /\ i <= j
    BY <1>0
  <2> QED BY <2>1, CountGrows
<1>4. Count(S, 1) = 0
  <2>1. S \in SUBSET (1..n)
    OBVIOUS
  <2> QED BY <2>1, CountAll
<1>5. /\ length = Cardinality(S) /\ tail = AdvanceBy(head, length, N)
      /\ \A i \in P : w[i] = AdvanceBy(head, Count(S, i), N)
  BY DEF Placed
<1>6. tail \in Pointer(N) /\ Ordered(head, tail) /\ Distance(head, tail, N) = length
  BY <1>1, <1>5, AdvanceByType, AdvanceByDistance
<1>7. \A i \in P : Count(S, i) \in 0..N
  BY <1>0, <1>1
<1>8. \A i \in P : w[i] \in Pointer(N)
  BY <1>5, <1>7, AdvanceByType
<1>9. \A i \in S : Count(S, i) \in 0..(N - 1)
  BY <1>1, <1>2, <1>7
<1>10. \A i, j \in S : w[i].idx = w[j].idx => Count(S, i) = Count(S, j)
  BY <1>5, <1>9, AdvanceByInjective
<1>11. \A i, j \in S : w[i].idx = w[j].idx => i = j
  <2> SUFFICES ASSUME NEW i \in S, NEW j \in S, Count(S, i) = Count(S, j) PROVE i = j
    BY <1>10
  <2>1. i \in Int /\ j \in Int /\ Count(S, i) \in Int
    BY <1>0, <1>9
  <2>2. ~(i < j) /\ ~(j < i)
    BY <1>3, <2>1
  <2> QED BY <2>1, <2>2
<1>12. ASSUME length < N, NEW i \in S PROVE w[i].idx # tail.idx
  <2>1. length \in 0..(N - 1) /\ Count(S, i) \in 0..(N - 1) /\ Count(S, i) # length
    BY <1>1, <1>2, <1>5, <1>9, <1>12
  <2> QED BY <1>5, <2>1, AdvanceByInjective
<1>13. 1 \in P => w[1] = head
  BY <1>4, <1>5, AdvanceByType
<1>14. 1 \in S => length > 0
  BY <1>1, <1>2, <1>5, <1>9
<1> QED BY <1>6, <1>8, <1>11, <1>12, <1>13, <1>14

\* The slots of the entries older than an instruction, and of the others.
OlderEntries(w, S, i) == {w[j].idx : j \in {k \in S : k < i}}
OtherEntries(w, S, i) == {w[j].idx : j \in {k \in S : k >= i}}

\* The slots from the head to what an instruction recorded are those of the older ones'
\* entries; the slots from there to the tail are those of the others.
DividedAt(i, w, S, head, tail, N) ==
  /\ Ordered(head, w[i]) /\ Distance(head, w[i], N) = Count(S, i)
  /\ Slots(head, w[i], N) = OlderEntries(w, S, i)
  /\ Slots(w[i], tail, N) = OtherEntries(w, S, i)

\* What an instruction recorded divides the queue so.
LEMMA PlacedSlots ==
  ASSUME NEW N \in Nat \ {0}, NEW n \in Nat, NEW P \in SUBSET (1..n), NEW S \in SUBSET P,
         NEW head \in Pointer(N), NEW tail, NEW length, NEW w,
         Placed(w, S, P, head, tail, length, N), NEW i \in P
  PROVE  DividedAt(i, w, S, head, tail, N)
<1>0. i \in 1..n /\ S \in SUBSET (1..n) /\ \A j \in S : j \in Int
  <2>1. i \in 1..n /\ S \in SUBSET (1..n)
    OBVIOUS
  <2> QED BY <2>1
<1>1. Cardinality(S) \in 0..N /\ Count(S, i) \in 0..Cardinality(S)
  <2>1. i \in Int
    BY <1>0
  <2>2. Count(S, i) \in 0..Cardinality(S)
    BY <1>0, <2>1, CountType
  <2>3. Cardinality(S) \in 0..N
    BY DEF Placed
  <2> QED BY <2>2, <2>3
<1>2. /\ length = Cardinality(S) /\ tail = AdvanceBy(head, length, N)
      /\ \A m \in P : w[m] = AdvanceBy(head, Count(S, m), N)
  BY DEF Placed
<1>3. \A j \in S : Count(S, j) \in 0..(Cardinality(S) - 1) /\ (j < i <=> Count(S, j) < Count(S, i))
  <2> SUFFICES ASSUME NEW j \in S
               PROVE  Count(S, j) \in 0..(Cardinality(S) - 1) /\ (j < i <=> Count(S, j) < Count(S, i))
    OBVIOUS
  <2>1. i \in Int /\ j \in Int /\ n + 1 \in Int /\ j <= n + 1 /\ j < n + 1
    BY <1>0
  <2>2. Count(S, j) \in 0..Cardinality(S) /\ Count(S, j) < Count(S, n + 1)
    BY <1>0, <2>1, CountType, CountGrows
  <2>3. Count(S, n + 1) = Cardinality(S)
    BY <1>0, CountAll
  <2>4. ASSUME j < i PROVE Count(S, j) < Count(S, i)
    <3>1. j <= i
      BY <2>1, <2>4
    <3> QED BY <1>0, <2>1, <2>4, <3>1, CountGrows
  <2>5. i <= j => Count(S, i) <= Count(S, j)
    BY <1>0, <2>1, CountGrows
  <2>6. ~(j < i) => ~(Count(S, j) < Count(S, i))
    BY <1>0, <1>1, <2>1, <2>2, <2>5
  <2> QED BY <1>1, <2>2, <2>3, <2>4, <2>6
<1>4. \A k \in 0..(Cardinality(S) - 1) : \E j \in S : Count(S, j) = k
  BY <1>0, CountOnto
<1>5. Count(S, i) \in 0..N /\ length \in 0..N
  BY <1>1, <1>2
<1>6. /\ Ordered(head, w[i]) /\ Distance(head, w[i], N) = Count(S, i)
      /\ Slots(head, w[i], N) = {AdvanceBy(head, k, N).idx : k \in 0..(Count(S, i) - 1)}
  BY <1>2, <1>5, AdvanceByDistance
<1>7. /\ Ordered(head, tail) /\ Distance(head, tail, N) = length
      /\ Slots(head, tail, N) = {AdvanceBy(head, k, N).idx : k \in 0..(length - 1)}
  BY <1>2, <1>5, AdvanceByDistance
<1>8. w[i] \in Pointer(N) /\ tail \in Pointer(N)
  BY <1>2, <1>5, AdvanceByType
<1>9. /\ Slots(head, tail, N) = Slots(head, w[i], N) \cup Slots(w[i], tail, N)
      /\ Slots(head, w[i], N) \cap Slots(w[i], tail, N) = {}
  BY <1>1, <1>2, <1>6, <1>7, <1>8, SlotsSplit
<1>10. \A j \in S : w[j].idx \in Slots(head, tail, N) /\ (w[j].idx \in Slots(head, w[i], N) <=> j < i)
  <2> SUFFICES ASSUME NEW j \in S
               PROVE  w[j].idx \in Slots(head, tail, N) /\ (w[j].idx \in Slots(head, w[i], N) <=> j < i)
    OBVIOUS
  <2>1. w[j].idx = AdvanceBy(head, Count(S, j), N).idx /\ Count(S, j) \in 0..(length - 1)
    BY <1>2, <1>3
  <2>2. w[j].idx \in Slots(head, tail, N)
    BY <1>7, <2>1
  <2>3. j < i => w[j].idx \in Slots(head, w[i], N)
    <3>1. j < i => Count(S, j) \in 0..(Count(S, i) - 1)
      BY <1>1, <1>3
    <3> QED BY <1>6, <2>1, <3>1
  <2>4. ASSUME w[j].idx \in Slots(head, w[i], N) PROVE j < i
    <3>1. PICK k \in 0..(Count(S, i) - 1) : w[j].idx = AdvanceBy(head, k, N).idx
      BY <1>6, <2>4
    <3>2. k \in 0..(N - 1) /\ Count(S, j) \in 0..(N - 1)
      BY <1>1, <1>3
    <3>3. k = Count(S, j)
      BY <2>1, <3>1, <3>2, AdvanceByInjective
    <3> QED BY <1>1, <1>3, <3>1, <3>3
  <2> QED BY <2>2, <2>3, <2>4
<1>11. \A s \in Slots(head, tail, N) : \E j \in S : s = w[j].idx
  <2> SUFFICES ASSUME NEW k \in 0..(length - 1)
               PROVE  \E j \in S : AdvanceBy(head, k, N).idx = w[j].idx
    BY <1>7
  <2>1. PICK j \in S : Count(S, j) = k
    BY <1>2, <1>4
  <2> QED BY <1>2, <2>1
<1>12. \A j \in S : j >= i <=> ~(j < i)
  BY <1>0
<1>13. Slots(head, w[i], N) = OlderEntries(w, S, i)
  BY <1>9, <1>10, <1>11 DEF OlderEntries
<1>14. Slots(w[i], tail, N) = OtherEntries(w, S, i)
  <2>1. \A s : s \in Slots(w[i], tail, N) <=> s \in Slots(head, tail, N) /\ s \notin Slots(head, w[i], N)
    BY <1>9
  <2>2. \A j \in S : w[j].idx \in Slots(w[i], tail, N) <=> j >= i
    BY <1>10, <1>12, <2>1
  <2> QED BY <1>11, <2>1, <2>2 DEF OtherEntries
<1> QED BY <1>6, <1>13, <1>14 DEF DividedAt

\* A younger instruction that takes an entry records the tail.
LEMMA PlacedPush ==
  ASSUME NEW N \in Nat \ {0}, NEW n \in Nat, NEW P \in SUBSET (1..n), NEW S \in SUBSET P,
         NEW head \in Pointer(N), NEW tail, NEW length, NEW w,
         Placed(w, S, P, head, tail, length, N), length < N,
         NEW w2, \A i \in P : w2[i] = w[i], w2[n + 1] = tail
  PROVE  Placed(w2, S \cup {n + 1}, P \cup {n + 1}, head, Advance(tail, N), length + 1, N)
<1> DEFINE T == S \cup {n + 1}
<1>1. /\ length = Cardinality(S) /\ length \in 0..(N - 1) /\ tail = AdvanceBy(head, length, N)
      /\ \A i \in P : w[i] = AdvanceBy(head, Count(S, i), N)
  BY DEF Placed
<1>2. S \in SUBSET (1..n) /\ S \in SUBSET (1..(n + 1)) /\ T \in SUBSET (1..(n + 1))
      /\ n + 1 \in Nat /\ n + 1 \notin S
  <2>1. S \in SUBSET (1..n) /\ n + 1 \in Nat /\ n + 1 \notin 1..n
    OBVIOUS
  <2>2. \A j \in 1..n : j \in 1..(n + 1)
    OBVIOUS
  <2>3. n + 1 \in 1..(n + 1)
    OBVIOUS
  <2> QED BY <2>1, <2>2, <2>3
<1>3. Cardinality(T) = length + 1
  <2>1. IsFiniteSet(S)
    <3>1. n \in Int
      OBVIOUS
    <3> QED BY <1>2, <3>1, CountType
  <2> QED BY <1>1, <1>2, <2>1, FS_AddElement
<1>4. \A i \in 1..(n + 1) : Count(T, i) = Count(S, i)
  <2> SUFFICES ASSUME NEW i \in 1..(n + 1) PROVE Count(T, i) = Count(S, i)
    OBVIOUS
  <2>1. \A j \in T : j < i => j \in S
    OBVIOUS
  <2>2. {j \in T : j < i} = {j \in S : j < i}
    BY <2>1
  <2> QED BY <2>2 DEF Count
<1>5. Count(S, n + 1) = length
  BY <1>1, <1>2, CountAll
<1>6. Advance(tail, N) = AdvanceBy(head, length + 1, N)
  BY <1>1, AdvanceByNext
<1>7. \A i \in P \cup {n + 1} : w2[i] = AdvanceBy(head, Count(T, i), N)
  <2> SUFFICES ASSUME NEW i \in P \cup {n + 1} PROVE w2[i] = AdvanceBy(head, Count(T, i), N)
    OBVIOUS
  <2>1. i \in 1..(n + 1)
    OBVIOUS
  <2> HIDE DEF T
  <2> QED BY <1>1, <1>4, <1>5, <2>1
<1> HIDE DEF T
<1>8. length + 1 \in 0..N
  BY <1>1
<1> QED BY <1>3, <1>6, <1>7, <1>8 DEF Placed, T

\* One that takes none records the tail as well.
LEMMA PlacedSkip ==
  ASSUME NEW N \in Nat \ {0}, NEW n \in Nat, NEW P \in SUBSET (1..n), NEW S \in SUBSET P,
         NEW head \in Pointer(N), NEW tail, NEW length, NEW w,
         Placed(w, S, P, head, tail, length, N),
         NEW w2, \A i \in P : w2[i] = w[i], w2[n + 1] = tail
  PROVE  Placed(w2, S, P \cup {n + 1}, head, tail, length, N)
<1>1. S \in SUBSET (1..n)
  OBVIOUS
<1>2. Count(S, n + 1) = Cardinality(S)
  BY <1>1, CountAll
<1> QED BY <1>2 DEF Placed

\* Rolling back to what an instruction recorded leaves the entries of those before it.
LEMMA PlacedRestore ==
  ASSUME NEW N \in Nat \ {0}, NEW n \in Nat, NEW P \in SUBSET (1..n), NEW S \in SUBSET P,
         NEW head \in Pointer(N), NEW tail, NEW length, NEW w,
         Placed(w, S, P, head, tail, length, N), NEW i \in P,
         NEW P2 \in SUBSET {j \in P : j <= i},
         NEW w2, \A j \in P2 : w2[j] = w[j]
  PROVE  Placed(w2, {j \in S : j < i}, P2, head, w[i], Count(S, i), N)
<1> DEFINE T == {j \in S : j < i}
<1>1. /\ length = Cardinality(S) /\ length \in 0..N
      /\ \A j \in P : w[j] = AdvanceBy(head, Count(S, j), N)
  BY DEF Placed
<1>2. i \in Int /\ S \in SUBSET (1..n) /\ T \in SUBSET (1..n)
  <2>1. i \in 1..n /\ S \in SUBSET (1..n)
    OBVIOUS
  <2>2. T \in SUBSET S
    OBVIOUS
  <2> HIDE DEF T
  <2> QED BY <2>1, <2>2
<1>3. Count(S, i) \in 0..N
  <2>1. Count(S, i) \in 0..Cardinality(S)
    BY <1>2, CountType
  <2> QED BY <1>1, <2>1
<1>4. Cardinality(T) = Count(S, i)
  BY DEF Count
<1>5. \A j \in P2 : j \in P /\ j <= i
  OBVIOUS
<1>6. \A j \in P2 : Count(T, j) = Count(S, j)
  <2> SUFFICES ASSUME NEW j \in P2 PROVE Count(T, j) = Count(S, j)
    OBVIOUS
  <2>1. j \in 1..n /\ j <= i
    BY <1>5
  <2>2. j \in Int /\ \A k \in 1..n : k < j => (k \in T <=> k \in S)
    BY <1>2, <2>1
  <2> HIDE DEF T
  <2> QED BY <1>2, <2>2, CountSame
<1> HIDE DEF T
<1>7. \A j \in P2 : w2[j] = AdvanceBy(head, Count(T, j), N)
  BY <1>1, <1>5, <1>6
<1>8. w[i] = AdvanceBy(head, Count(S, i), N)
  BY <1>1
<1> QED BY <1>3, <1>4, <1>7, <1>8 DEF Placed, T

\* The oldest of n instructions has left, and the others have moved up by one.
MovedUp(n, S, S2, P, P2, w, w2) ==
  /\ \A j \in 1..(n - 1) : j \in S2 <=> j + 1 \in S
  /\ \A j \in P2 : j + 1 \in P /\ w2[j] = w[j + 1]

\* When the oldest instruction leaves, and the others move up by one, the head passes its entry,
\* if it has one.
LEMMA PlacedPop ==
  ASSUME NEW N \in Nat \ {0}, NEW n \in Nat \ {0}, NEW P \in SUBSET (1..n), NEW S \in SUBSET P,
         NEW head \in Pointer(N), NEW tail, NEW length, NEW w,
         Placed(w, S, P, head, tail, length, N),
         NEW P2 \in SUBSET (1..(n - 1)), NEW S2 \in SUBSET P2, NEW w2,
         MovedUp(n, S, S2, P, P2, w, w2)
  PROVE  /\ 1 \in S => Placed(w2, S2, P2, Advance(head, N), tail, length - 1, N)
         /\ 1 \notin S => Placed(w2, S2, P2, head, tail, length, N)
<1> DEFINE one == IF 1 \in S THEN 1 ELSE 0
<1>1. /\ length = Cardinality(S) /\ length \in 0..N /\ tail = AdvanceBy(head, length, N)
      /\ \A i \in P : w[i] = AdvanceBy(head, Count(S, i), N)
  BY DEF Placed
<1>10. /\ \A j \in 1..(n - 1) : j \in S2 <=> j + 1 \in S
       /\ \A j \in P2 : j + 1 \in P /\ w2[j] = w[j + 1]
  BY DEF MovedUp
<1>2. S \in SUBSET (1..n) /\ S2 \in SUBSET (1..(n - 1)) /\ n - 1 \in Nat
  OBVIOUS
<1>3. \A i \in 1..n : Count(S2, i) = Count(S, i + 1) - one /\ Cardinality(S2) = Cardinality(S) - one
  BY <1>2, <1>10, CountShift
<1>4. \A i \in P2 : i \in 1..n /\ i + 1 \in P
  <2> SUFFICES ASSUME NEW i \in P2 PROVE i \in 1..n /\ i + 1 \in P
    OBVIOUS
  <2>1. i \in 1..(n - 1)
    OBVIOUS
  <2> QED BY <1>10, <2>1
<1>5. Cardinality(S2) = length - one
  <2>1. 1 \in 1..n
    OBVIOUS
  <2> HIDE DEF one
  <2> QED BY <1>1, <1>3, <2>1
<1>6. Cardinality(S2) \in Nat /\ \A i \in P2 : Count(S2, i) \in 0..Cardinality(S2)
  <2>1. \A i \in Int : Cardinality(S2) \in 0..(n - 1) /\ Count(S2, i) \in 0..Cardinality(S2)
    BY <1>2, CountType
  <2> QED BY <1>2, <1>4, <2>1
<1>7. \A i \in P2 : w2[i] = AdvanceBy(head, Count(S2, i) + one, N)
  <2> SUFFICES ASSUME NEW i \in P2 PROVE w2[i] = AdvanceBy(head, Count(S2, i) + one, N)
    OBVIOUS
  <2>1. w2[i] = AdvanceBy(head, Count(S, i + 1), N)
    BY <1>1, <1>4, <1>10
  <2>2. Count(S, i + 1) \in Int
    <3>1. i + 1 \in Int
      BY <1>4
    <3>2. Count(S, i + 1) \in 0..Cardinality(S)
      BY <1>2, <3>1, CountType
    <3> QED BY <1>1, <3>2
  <2>3. Count(S, i + 1) = Count(S2, i) + one
    BY <1>3, <1>4, <1>6, <2>2
  <2> QED BY <2>1, <2>3
<1>8. CASE 1 \in S
  <2>1. length - 1 \in 0..(N - 1) /\ Cardinality(S2) = length - 1
    BY <1>1, <1>5, <1>6, <1>8
  <2>2. tail = AdvanceBy(Advance(head, N), length - 1, N)
    <3>1. (length - 1) + 1 = length
      BY <1>1
    <3> QED BY <1>1, <2>1, <3>1, AdvanceByNext
  <2>3. \A i \in P2 : w2[i] = AdvanceBy(Advance(head, N), Count(S2, i), N)
    <3> SUFFICES ASSUME NEW i \in P2
                 PROVE  w2[i] = AdvanceBy(Advance(head, N), Count(S2, i), N)
      OBVIOUS
    <3>1. w2[i] = AdvanceBy(head, Count(S2, i) + 1, N)
      BY <1>7, <1>8
    <3>2. Count(S2, i) \in 0..(N - 1)
      BY <1>6, <2>1
    <3> QED BY <3>1, <3>2, AdvanceByNext
  <2> QED BY <1>8, <2>1, <2>2, <2>3 DEF Placed
<1>9. CASE 1 \notin S
  <2>1. Cardinality(S2) = length
    BY <1>1, <1>5, <1>6, <1>9
  <2>2. \A i \in P2 : Count(S2, i) + one = Count(S2, i)
    BY <1>6, <1>9
  <2> HIDE DEF one
  <2> QED BY <1>1, <1>7, <1>9, <2>1, <2>2 DEF Placed
<1> QED BY <1>8, <1>9

-----------------------------------------------------------------------------
(* Pointers of one queue, by their distances from its head *)

\* n more entries behind a tail, where the queue has room for them.
LEMMA AdvanceByBehind ==
  ASSUME NEW N \in Nat \ {0}, NEW h \in Pointer(N), NEW t \in Pointer(N), Ordered(h, t),
         NEW n \in Nat, Distance(h, t, N) + n <= N
  PROVE  /\ AdvanceBy(t, n, N) \in Pointer(N)
         /\ Ordered(h, AdvanceBy(t, n, N))
         /\ Distance(h, AdvanceBy(t, n, N), N) = Distance(h, t, N) + n
<1>1. n \in 0..N
  BY DistanceType
<1>2. AdvanceBy(t, n, N) = Onward(t, n, N) /\ AdvanceBy(t, n, N) \in Pointer(N)
  BY <1>1, AdvanceByIsOnward, AdvanceByType
<1>3. Ordered(h, Onward(t, n, N)) /\ Distance(h, Onward(t, n, N), N) = Distance(h, t, N) + n
  BY DEF Pointer, Onward, Ordered, Distance
<1> QED BY <1>2, <1>3

\* A pointer nearer to the head than the tail is at an entry of the queue.
LEMMA SlotInside ==
  ASSUME NEW N \in Nat \ {0}, NEW h \in Pointer(N), NEW c \in Pointer(N), NEW t \in Pointer(N),
         Ordered(h, c), Ordered(h, t), Distance(h, c, N) < Distance(h, t, N)
  PROVE  c.idx \in Slots(h, t, N)
BY DEF Pointer, Ordered, Distance, Slots

\* Pointers to one entry are at one distance from the head.
LEMMA SameSlot ==
  ASSUME NEW N \in Nat \ {0}, NEW h \in Pointer(N), NEW c \in Pointer(N), NEW t \in Pointer(N),
         Ordered(h, c), Ordered(h, t), Distance(h, c, N) < N, Distance(h, t, N) < N,
         c.idx = t.idx
  PROVE  Distance(h, c, N) = Distance(h, t, N)
BY DEF Pointer, Ordered, Distance

\* The head passes an entry: what is behind it comes nearer by one.
LEMMA HeadPasses ==
  ASSUME NEW N \in Nat \ {0}, NEW h \in Pointer(N), NEW c \in Pointer(N),
         Ordered(h, c), Distance(h, c, N) > 0
  PROVE  /\ Ordered(Advance(h, N), c)
         /\ Distance(Advance(h, N), c, N) = Distance(h, c, N) - 1
BY AdvanceHead

\* Of some numbered things, those with fewer than k before them are at most k.
LEMMA FirstFew ==
  ASSUME NEW n \in Nat, NEW S \in SUBSET (1..n), NEW k \in Nat
  PROVE  Cardinality({i \in S : Count(S, i) < k}) <= k
<1> DEFINE G == {i \in S : Count(S, i) < k}
           f == [i \in G |-> Count(S, i)]
<1>1. \A i \in G : i \in 1..n /\ Count(S, i) \in Nat
  <2> SUFFICES ASSUME NEW i \in G PROVE i \in 1..n /\ Count(S, i) \in Nat
    OBVIOUS
  <2>1. i \in 1..n
    OBVIOUS
  <2>2. Cardinality(S) \in 0..n /\ Count(S, i) \in 0..Cardinality(S)
    <3>1. i \in Int
      BY <2>1
    <3> QED BY <3>1, CountType
  <2> QED BY <2>1, <2>2
<1>2. IsFiniteSet(0..(k - 1)) /\ Cardinality(0..(k - 1)) = k
  <2>1. 0 \in Int /\ k - 1 \in Int
    OBVIOUS
  <2>2. /\ IsFiniteSet(0..(k - 1))
        /\ Cardinality(0..(k - 1)) = IF 0 > k - 1 THEN 0 ELSE (k - 1) - 0 + 1
    BY <2>1, FS_Interval
  <2> QED BY <2>2
<1>3. f \in Injection(G, 0..(k - 1))
  <2>1. f \in [G -> 0..(k - 1)]
    <3> SUFFICES ASSUME NEW i \in G PROVE Count(S, i) \in 0..(k - 1)
      OBVIOUS
    <3>1. Count(S, i) < k /\ Count(S, i) \in Nat
      BY <1>1
    <3> QED BY <3>1
  <2>2. ASSUME NEW i \in G, NEW j \in G, f[i] = f[j] PROVE i = j
    <3>1. Count(S, i) = Count(S, j) /\ i \in Int /\ j \in Int /\ i \in S /\ j \in S
      BY <1>1, <2>2
    <3>2. Count(S, i) \in Nat /\ Count(S, j) \in Nat
      BY <1>1
    <3>3. CASE i < j
      <4>1. Count(S, i) < Count(S, j)
        BY <3>1, <3>3, CountGrows
      <4> QED BY <3>1, <3>2, <4>1
    <3>4. CASE j < i
      <4>1. i \in Int /\ j \in Int /\ j <= i /\ j \in S
        BY <3>1, <3>4
      <4>2. Count(S, j) < Count(S, i)
        BY <3>4, <4>1, CountGrows
      <4> QED BY <3>1, <3>2, <4>2
    <3> QED BY <3>1, <3>3, <3>4
  <2>3. \A x, y \in G : f[x] = f[y] => x = y
    BY <2>2
  <2> HIDE DEF G, f
  <2> QED BY <2>1, <2>3 DEF Injection, IsInjective
<1>4. Cardinality(G) <= Cardinality(0..(k - 1))
  <2> HIDE DEF G, f
  <2> QED BY <1>2, <1>3, FS_Injection
<1> QED BY <1>2, <1>4
=============================================================================
