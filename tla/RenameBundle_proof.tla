------------------------- MODULE RenameBundle_proof -------------------------
(***************************************************************************)
(* The VPQ never overflows, whatever a bundle drops.  The invariant cannot *)
(* be that the VPQ holds the eligible instructions: the dropping loop also *)
(* looks at slots a short bundle leaves invalid, and may clear the flag of *)
(* an instruction that is in flight and has its entry.  What is left is an *)
(* order: the tails that flagged instructions and unresolved branches have *)
(* recorded lie between the head and the tail, in program order.           *)
(***************************************************************************)
EXTENDS RenameBundle, PhaseQueue_proof, SequenceTheorems

\* An index of PAY is d entries behind the next one rename1 uses.
Behind(p, d) == nextIndex = p + d \/ nextIndex = p + d - PAYLOAD_BUFFER_SIZE

\* The instructions in flight, and behind them the bundle, have consecutive indexes of PAY that
\* end at nextIndex.
Consecutive ==
  /\ \A i \in 1..Len(inflight) : Behind(inflight[i].index, Len(inflight) + Len(bundle) + 1 - i)
  /\ \A j \in 1..Len(bundle) : Behind(slotIndex[j], Len(bundle) + 1 - j)

\* The instructions in flight that are flagged eligible.
Owners == {i \in 1..Len(inflight) : isVPEligible[inflight[i].index]}

\* The branches whose recorded tail may yet be restored.
Pending == {i \in 1..Len(inflight) : inflight[i].kind = "branch" /\ ~inflight[i].resolved}

\* How far ahead of the VPQ's head a tail is.
Ahead(p) == Distance(vpQueue_Head, p, VPQsize)

\* No branch is flagged.
BranchesPushNothing == \A i \in Owners : inflight[i].kind # "branch"

\* What a flagged instruction or an unresolved branch recorded is between the head and the tail.
TailsInside ==
  \A i \in Owners \cup Pending :
    /\ Ordered(vpQueue_Head, inflight[i].VPQTail)
    /\ Ahead(inflight[i].VPQTail) <= Ahead(vpQueue_Tail)
    /\ i \in Owners => Ahead(inflight[i].VPQTail) < Ahead(vpQueue_Tail)

\* It is in program order, and a flagged instruction's entry is its own.
TailsInOrder ==
  \A i, j \in Owners \cup Pending :
    i < j => /\ Ahead(inflight[i].VPQTail) <= Ahead(inflight[j].VPQTail)
             /\ i \in Owners => Ahead(inflight[i].VPQTail) < Ahead(inflight[j].VPQTail)

\* The inductive invariant.
Allocated ==
  /\ Consecutive
  /\ BranchesPushNothing
  /\ Ordered(vpQueue_Head, vpQueue_Tail)
  /\ TailsInside
  /\ TailsInOrder

-----------------------------------------------------------------------------
(* Types *)

\* What the instructions in flight and the bundle are.
LEMMA Typing ==
  ASSUME TypeOK
  PROVE  /\ Len(inflight) \in Nat /\ Len(bundle) \in Nat
         /\ Len(bundle) <= dispatch_width /\ Len(inflight) + Len(bundle) <= PAYLOAD_BUFFER_SIZE
         /\ PAYLOAD_BUFFER_SIZE \in Nat \ {0} /\ dispatch_width \in Nat /\ dispatch_width <= PAYLOAD_BUFFER_SIZE
         /\ VPQsize \in Nat \ {0} /\ vpQueue_Head \in Pointer(VPQsize) /\ vpQueue_Tail \in Pointer(VPQsize)
         /\ Owners \in SUBSET (1..Len(inflight)) /\ Pending \in SUBSET (1..Len(inflight))
         /\ \A i \in 1..Len(inflight) :
              /\ inflight[i] \in Payload /\ inflight[i].index \in PAYIndex
              /\ inflight[i].VPQTail \in Pointer(VPQsize)
         /\ \A j \in 1..Len(bundle) : j \in 1..dispatch_width /\ bundle[j] \in Kind
         /\ \A j \in 1..dispatch_width : slotIndex[j] \in PAYIndex
<1>1. Len(inflight) \in Nat /\ \A i \in 1..Len(inflight) : inflight[i] \in Payload
  BY ElementOfSeq DEF TypeOK
<1>2. Len(bundle) \in Nat /\ Len(bundle) <= dispatch_width /\ \A j \in 1..Len(bundle) : bundle[j] \in Kind
  BY ElementOfSeq DEF TypeOK
<1>3. /\ PAYLOAD_BUFFER_SIZE \in Nat \ {0} /\ dispatch_width \in Nat /\ dispatch_width <= PAYLOAD_BUFFER_SIZE
      /\ VPQsize \in Nat \ {0} /\ Len(inflight) + Len(bundle) <= PAYLOAD_BUFFER_SIZE
  BY <1>1, <1>2, RenameBundleAssumption DEF TypeOK
<1>4. \A j \in 1..Len(bundle) : j \in 1..dispatch_width
  BY <1>2, <1>3
<1>5. Owners \in SUBSET (1..Len(inflight)) /\ Pending \in SUBSET (1..Len(inflight))
  BY DEF Owners, Pending
<1>6. \A i \in 1..Len(inflight) : inflight[i].index \in PAYIndex /\ inflight[i].VPQTail \in Pointer(VPQsize)
  BY <1>1 DEF Payload
<1> QED BY <1>1, <1>2, <1>3, <1>4, <1>5, <1>6 DEF TypeOK

\* The entries of PAY are numbered in a ring.
LEMMA AfterIndexRing ==
  ASSUME PAYLOAD_BUFFER_SIZE \in Nat \ {0}, NEW p \in PAYIndex, NEW n \in 0..PAYLOAD_BUFFER_SIZE
  PROVE  /\ AfterIndex(p, n) \in PAYIndex
         /\ AfterIndex(p, n) = p + n \/ AfterIndex(p, n) = p + n - PAYLOAD_BUFFER_SIZE
<1> DEFINE M == PAYLOAD_BUFFER_SIZE
           r == IF p + n < M THEN p + n ELSE p + n - M
<1>1. M \in Nat \ {0} /\ p + n \in 0..(2 * M - 1) /\ p \in Int
  BY DEF PAYIndex
<1>2. (p + n) % M = r
  <2>1. PICK x \in 0..(2 * M - 1) : x = p + n
    BY <1>1
  <2>2. x % M = IF x < M THEN x ELSE x - M
    <3> HIDE DEF M
    <3> QED BY <1>1, ModOnce
  <2> QED BY <1>1, <2>1, <2>2
<1> QED BY <1>1, <1>2 DEF AfterIndex, PAYIndex

\* Distances in the ring add up, and are subtracted.
LEMMA RingDistances ==
  ASSUME NEW M \in Nat \ {0}, NEW p \in 0..(M - 1), NEW q \in 0..(M - 1), NEW r \in 0..(M - 1),
         NEW d \in 0..M, NEW e \in 0..M
  PROVE  /\ (q = p + d \/ q = p + d - M) /\ (r = q + e \/ r = q + e - M) /\ d + e <= M
              => r = p + (d + e) \/ r = p + (d + e) - M
         /\ (q = p + d \/ q = p + d - M) /\ (r = p + e \/ r = p + e - M) /\ d <= e
              => r = q + (e - d) \/ r = q + (e - d) - M
         /\ (r = p + d \/ r = p + d - M) /\ (r = q + e \/ r = q + e - M) /\ e <= d
              => q = p + (d - e) \/ q = p + (d - e) - M
OBVIOUS

\* Consecutive indexes are different ones.
LEMMA DifferentIndexes ==
  ASSUME TypeOK, Consecutive
  PROVE  /\ \A i \in 1..Len(inflight), j \in 1..Len(bundle) : inflight[i].index # slotIndex[j]
         /\ \A j, k \in 1..Len(bundle) : slotIndex[j] = slotIndex[k] => j = k
<1> DEFINE n == Len(inflight)
           b == Len(bundle)
           M == PAYLOAD_BUFFER_SIZE
<1>1. n \in Nat /\ b \in Nat /\ M \in Nat \ {0} /\ n + b <= M
  BY Typing
<1>2. ASSUME NEW p \in Int, NEW d \in 1..M, NEW e \in 1..M, Behind(p, d), Behind(p, e)
      PROVE  d = e
  BY <1>1, <1>2 DEF Behind, TypeOK, PAYIndex
<1>3. ASSUME NEW i \in 1..n, NEW j \in 1..b PROVE inflight[i].index # slotIndex[j]
  <2>1. Behind(inflight[i].index, n + b + 1 - i) /\ Behind(slotIndex[j], b + 1 - j)
    BY DEF Consecutive
  <2>2. n + b + 1 - i \in 1..M /\ b + 1 - j \in 1..M /\ n + b + 1 - i # b + 1 - j
    BY <1>1
  <2>3. slotIndex[j] \in Int
    BY Typing DEF PAYIndex
  <2> QED BY <1>2, <2>1, <2>2, <2>3
<1>4. ASSUME NEW j \in 1..b, NEW k \in 1..b, slotIndex[j] = slotIndex[k] PROVE j = k
  <2>1. Behind(slotIndex[j], b + 1 - k) /\ Behind(slotIndex[j], b + 1 - j)
    BY <1>4 DEF Consecutive
  <2>2. b + 1 - k \in 1..M /\ b + 1 - j \in 1..M /\ (b + 1 - k = b + 1 - j => j = k)
    BY <1>1
  <2>3. slotIndex[j] \in Int
    BY Typing DEF PAYIndex
  <2> QED BY <1>2, <2>1, <2>2, <2>3
<1> QED BY <1>3, <1>4

\* Counting what the bundle needs sets its own flags and no other instruction's.
LEMMA CountedFlags ==
  ASSUME TypeOK, Consecutive
  PROVE  /\ Counted \in [PAYIndex -> BOOLEAN]
         /\ \A i \in 1..Len(inflight) : Counted[inflight[i].index] = isVPEligible[inflight[i].index]
         /\ \A j \in 1..Len(bundle) : Counted[slotIndex[j]] <=> bundle[j] = "value"
<1>1. Counted \in [PAYIndex -> BOOLEAN]
  BY Zenon DEF Counted, TypeOK
<1>2. ASSUME NEW i \in 1..Len(inflight)
      PROVE  Counted[inflight[i].index] = isVPEligible[inflight[i].index]
  <2>1. inflight[i].index \in PAYIndex
    BY Typing
  <2>2. ~\E j \in 1..Len(bundle) : slotIndex[j] = inflight[i].index
    BY DifferentIndexes
  <2> QED BY <2>1, <2>2 DEF Counted
<1>3. ASSUME NEW j \in 1..Len(bundle)
      PROVE  Counted[slotIndex[j]] <=> bundle[j] = "value"
  <2>1. slotIndex[j] \in PAYIndex
    BY Typing
  <2>2. Counted[slotIndex[j]] <=> \E k \in 1..Len(bundle) : slotIndex[k] = slotIndex[j] /\ bundle[k] = "value"
    BY <2>1 DEF Counted
  <2> QED BY <2>2, DifferentIndexes
<1> QED BY <1>1, <1>2, <1>3

\* The invariant gives every flagged instruction an entry, and one of its own.
LEMMA AllocatedIsEntryOfItsOwn ==
  ASSUME TypeOK, Allocated
  PROVE  EntryOfItsOwn
<1>1. ASSUME NEW i \in Owners
      PROVE  /\ inflight[i].VPQTail \in Pointer(VPQsize) /\ Ordered(vpQueue_Head, inflight[i].VPQTail)
             /\ Ahead(inflight[i].VPQTail) < Ahead(vpQueue_Tail) /\ Ahead(inflight[i].VPQTail) < VPQsize
  <2>1. /\ inflight[i].VPQTail \in Pointer(VPQsize) /\ Ordered(vpQueue_Head, inflight[i].VPQTail)
        /\ Ahead(inflight[i].VPQTail) < Ahead(vpQueue_Tail)
    BY Typing DEF Allocated, TailsInside
  <2>2. Ahead(vpQueue_Tail) \in 0..VPQsize /\ Ahead(inflight[i].VPQTail) \in 0..VPQsize
    BY <2>1, Typing, DistanceType DEF Ahead, Allocated
  <2> QED BY <2>1, <2>2, Typing
<1>2. ASSUME NEW i \in Owners PROVE inflight[i].VPQTail.idx \in Slots(vpQueue_Head, vpQueue_Tail, VPQsize)
  BY <1>1, Typing, SlotInside DEF Ahead, Allocated
<1>3. ASSUME NEW i \in Owners, NEW j \in Owners, inflight[i].VPQTail.idx = inflight[j].VPQTail.idx
      PROVE  i = j
  <2>1. Ahead(inflight[i].VPQTail) = Ahead(inflight[j].VPQTail)
    BY <1>1, <1>3, Typing, SameSlot DEF Ahead
  <2>2. i \in Int /\ j \in Int /\ Ahead(inflight[i].VPQTail) \in Int
    BY <1>1, Typing, DistanceType DEF Ahead
  <2> QED BY <2>1, <2>2 DEF Allocated, TailsInOrder
<1> QED BY <1>2, <1>3 DEF EntryOfItsOwn, Owners, Allocated

-----------------------------------------------------------------------------
(* What most steps do to the invariant *)

\* The head stays, no tail is recorded or changed, and whatever is still flagged or unresolved
\* is inside the new tail.
LEMMA TailsStay ==
  ASSUME TypeOK, Allocated, vpQueue_Head' = vpQueue_Head, Ordered(vpQueue_Head, vpQueue_Tail'),
         Owners' \subseteq Owners, Pending' \subseteq Pending,
         \A i \in Owners' \cup Pending' :
           /\ inflight'[i].VPQTail = inflight[i].VPQTail /\ inflight'[i].kind = inflight[i].kind
           /\ Distance(vpQueue_Head, inflight[i].VPQTail, VPQsize) <= Distance(vpQueue_Head, vpQueue_Tail', VPQsize)
           /\ i \in Owners' => Distance(vpQueue_Head, inflight[i].VPQTail, VPQsize)
                                 < Distance(vpQueue_Head, vpQueue_Tail', VPQsize)
  PROVE  Ordered(vpQueue_Head, vpQueue_Tail)' /\ TailsInside' /\ TailsInOrder' /\ BranchesPushNothing'
<1>1. TailsInside'
  BY DEF Allocated, TailsInside, Ahead
<1>2. TailsInOrder'
  BY DEF Allocated, TailsInOrder, Ahead
<1>3. BranchesPushNothing'
  BY DEF Allocated, BranchesPushNothing
<1> QED BY <1>1, <1>2, <1>3

\* The VPQ, what is in flight and its flags are as they were.
LEMMA TailsUnchanged ==
  ASSUME TypeOK, Allocated, UNCHANGED <<vpQueue_Head, vpQueue_Tail>>,
         Len(inflight') = Len(inflight),
         \A i \in 1..Len(inflight) :
           /\ inflight'[i].VPQTail = inflight[i].VPQTail /\ inflight'[i].kind = inflight[i].kind
           /\ inflight[i].resolved => inflight'[i].resolved
           /\ isVPEligible'[inflight'[i].index] => isVPEligible[inflight[i].index]
  PROVE  Ordered(vpQueue_Head, vpQueue_Tail)' /\ TailsInside' /\ TailsInOrder' /\ BranchesPushNothing'
<1>1. Owners' \subseteq Owners
  BY DEF Owners
<1>2. Pending' \subseteq Pending
  BY DEF Pending
<1>3. \A i \in Owners' \cup Pending' : i \in 1..Len(inflight) /\ i \in Owners \cup Pending
  BY <1>1, <1>2 DEF Owners, Pending
<1> QED BY <1>1, <1>2, <1>3, TailsStay DEF Allocated, TailsInside, Ahead

\* Nothing is in flight and the queue is empty, as at the start and after a squash.
EmptyPipeline ==
  /\ fetch = "active" /\ nextIndex = 0
  /\ slotIndex \in [1..dispatch_width -> PAYIndex]
  /\ bundle = <<>> /\ inflight = <<>>
  /\ isVPEligible \in [PAYIndex -> BOOLEAN]
  /\ vpQueue_Head \in Pointer(VPQsize) /\ vpQueue_Tail = vpQueue_Head

\* Such a state satisfies the invariant.
LEMMA EmptyAllocated == EmptyPipeline => TypeOK /\ Allocated
<1> SUFFICES ASSUME EmptyPipeline PROVE TypeOK /\ Allocated
  OBVIOUS
<1>1. /\ VPQsize \in Nat \ {0} /\ dispatch_width \in Nat \ {0} /\ ActiveListSize \in Nat \ {0}
      /\ 0 \in PAYIndex
  BY RenameBundleAssumption DEF PAYIndex
<1>2. /\ inflight \in Seq(Payload) /\ Len(inflight) = 0
      /\ bundle \in Seq(Kind) /\ Len(bundle) = 0
  BY EmptySeq DEF EmptyPipeline
<1>3. TypeOK
  BY <1>1, <1>2 DEF EmptyPipeline, TypeOK
<1>4. Owners = {} /\ Pending = {}
  BY <1>2 DEF Owners, Pending
<1>5. Ordered(vpQueue_Head, vpQueue_Tail)
  BY <1>1, DistanceZero DEF EmptyPipeline
<1>6. Consecutive
  BY <1>2 DEF Consecutive
<1> QED BY <1>3, <1>4, <1>5, <1>6 DEF Allocated, TailsInside, TailsInOrder, BranchesPushNothing

-----------------------------------------------------------------------------
(* The actions *)

\* That fetch stops changes nothing here.
LEMMA FetchStopsStep ==
  ASSUME TypeOK, Allocated, FetchStops
  PROVE  TypeOK' /\ Allocated'
<1>1. TypeOK'
  BY DEF TypeOK, FetchStops
<1>2. Consecutive'
  BY DEF Allocated, Consecutive, Behind, FetchStops
<1>3. Ordered(vpQueue_Head, vpQueue_Tail)' /\ TailsInside' /\ TailsInOrder' /\ BranchesPushNothing'
  BY TailsUnchanged DEF FetchStops
<1> QED BY <1>1, <1>2, <1>3 DEF Allocated

\* A bundle takes the next indexes of PAY.
LEMMA Rename1Step ==
  ASSUME TypeOK, Allocated, NEW kinds \in Bundles, Rename1(kinds)
  PROVE  TypeOK' /\ Allocated'
<1> DEFINE n == Len(inflight)
           M == PAYLOAD_BUFFER_SIZE
<1>0. PICK c : c = Len(kinds)
  OBVIOUS
<1>1. /\ bundle = <<>> /\ bundle' = kinds /\ nextIndex' = AfterIndex(nextIndex, c)
      /\ slotIndex' = [i \in 1..dispatch_width |->
                         IF i <= c THEN AfterIndex(nextIndex, i - 1) ELSE slotIndex[i]]
      /\ UNCHANGED <<isVPEligible, vpQueue_Head, vpQueue_Tail, inflight>>
  BY <1>0 DEF Rename1
<1>2. /\ kinds \in Seq(Kind) /\ c \in 1..dispatch_width
  <2>1. PICK m \in 1..dispatch_width : kinds \in [1..m -> Kind]
    BY DEF Bundles
  <2>2. m \in Nat
    BY Typing
  <2>3. kinds \in Seq(Kind) /\ Len(kinds) = m
    BY <2>1, <2>2, FunctionIsSequence
  <2> QED BY <1>0, <2>1, <2>3
<1>3. /\ n \in Nat /\ M \in Nat \ {0} /\ dispatch_width \in Nat /\ dispatch_width <= M /\ n + c <= M
      /\ nextIndex \in PAYIndex
  BY <1>2, Typing, RenameBundleAssumption DEF TypeOK
<1>4. /\ AfterIndex(nextIndex, c) \in PAYIndex
      /\ AfterIndex(nextIndex, c) = nextIndex + c \/ AfterIndex(nextIndex, c) = nextIndex + c - M
  <2>1. c \in 0..M
    BY <1>2, <1>3
  <2> QED BY <1>3, <2>1, AfterIndexRing
<1>5. ASSUME NEW j \in 1..c
      PROVE  /\ AfterIndex(nextIndex, j - 1) \in PAYIndex
             /\ \/ AfterIndex(nextIndex, j - 1) = nextIndex + (j - 1)
                \/ AfterIndex(nextIndex, j - 1) = nextIndex + (j - 1) - M
  <2>1. j - 1 \in 0..M
    BY <1>2, <1>3
  <2> QED BY <1>3, <2>1, AfterIndexRing
<1>6. TypeOK'
  <2>1. fetch' \in {"active", "stopping", "drained"}
    BY DEF Rename1, TypeOK
  <2>2. slotIndex' \in [1..dispatch_width -> PAYIndex]
    <3> SUFFICES ASSUME NEW i \in 1..dispatch_width
                 PROVE  (IF i <= c THEN AfterIndex(nextIndex, i - 1) ELSE slotIndex[i]) \in PAYIndex
      BY <1>1
    <3>1. CASE i <= c
      <4>1. i \in 1..c
        BY <1>2, <1>3, <3>1
      <4> QED BY <1>5, <3>1, <4>1
    <3>2. CASE ~(i <= c)
      BY <3>2 DEF TypeOK
    <3> QED BY <3>1, <3>2
  <2> QED BY <1>0, <1>1, <1>2, <1>3, <1>4, <2>1, <2>2 DEF TypeOK
<1>7. Consecutive'
  <2>0. Len(bundle') = c /\ Len(bundle) = 0
    BY <1>0, <1>1
  <2>1. ASSUME NEW i \in 1..n PROVE Behind(inflight[i].index, n + c + 1 - i)'
    <3>1. Behind(inflight[i].index, n + 0 + 1 - i)
      BY <2>0 DEF Allocated, Consecutive
    <3>2. inflight[i].index \in 0..(M - 1) /\ nextIndex \in 0..(M - 1) /\ nextIndex' \in 0..(M - 1)
      BY <1>1, <1>3, <1>4, Typing DEF PAYIndex
    <3>3. PICK d \in 0..M : d = n + 0 + 1 - i
      BY <1>2, <1>3
    <3>4. PICK p \in 0..(M - 1) : p = inflight[i].index
      BY <3>2
    <3>5. /\ nextIndex = p + d \/ nextIndex = p + d - M
          /\ nextIndex' = nextIndex + c \/ nextIndex' = nextIndex + c - M
          /\ c \in 0..M /\ d + c <= M /\ d + c = n + c + 1 - i
      BY <1>1, <1>2, <1>3, <1>4, <3>1, <3>3, <3>4 DEF Behind
    <3>6. nextIndex' = p + (d + c) \/ nextIndex' = p + (d + c) - M
      <4> HIDE DEF M
      <4> QED BY <1>3, <3>2, <3>5, RingDistances
    <3> QED BY <1>1, <3>4, <3>5, <3>6 DEF Behind
  <2>2. ASSUME NEW j \in 1..c PROVE Behind(slotIndex[j], c + 1 - j)'
    <3>1. slotIndex'[j] = AfterIndex(nextIndex, j - 1)
      <4>1. j \in 1..dispatch_width /\ j <= c
        BY <1>2, <1>3
      <4> QED BY <1>1, <4>1
    <3>2. slotIndex'[j] \in 0..(M - 1) /\ nextIndex \in 0..(M - 1) /\ nextIndex' \in 0..(M - 1)
      BY <1>1, <1>3, <1>4, <1>5, <3>1 DEF PAYIndex
    <3>3. PICK d \in 0..M : d = j - 1
      BY <1>2, <1>3
    <3>4. PICK p \in 0..(M - 1) : p = slotIndex'[j]
      BY <3>2
    <3>5. /\ p = nextIndex + d \/ p = nextIndex + d - M
          /\ nextIndex' = nextIndex + c \/ nextIndex' = nextIndex + c - M
          /\ c \in 0..M /\ d <= c /\ c - d = c + 1 - j
      BY <1>1, <1>2, <1>3, <1>4, <1>5, <3>1, <3>3, <3>4
    <3>6. nextIndex' = p + (c - d) \/ nextIndex' = p + (c - d) - M
      <4> HIDE DEF M
      <4> QED BY <1>3, <3>2, <3>5, RingDistances
    <3> QED BY <1>1, <3>4, <3>5, <3>6 DEF Behind
  <2>3. n' = n /\ inflight' = inflight
    BY <1>1
  <2> QED BY <2>0, <2>1, <2>2, <2>3 DEF Consecutive
<1>8. Ordered(vpQueue_Head, vpQueue_Tail)' /\ TailsInside' /\ TailsInOrder' /\ BranchesPushNothing'
  BY <1>1, TailsUnchanged
<1> QED BY <1>6, <1>7, <1>8 DEF Allocated

\* A stalled bundle has set its own flags.
LEMMA Rename2StallsStep ==
  ASSUME TypeOK, Allocated, Rename2Stalls
  PROVE  TypeOK' /\ Allocated'
<1>1. /\ isVPEligible' = Counted
      /\ UNCHANGED <<fetch, nextIndex, slotIndex, bundle, vpQueue_Head, vpQueue_Tail, inflight>>
  BY DEF Rename2Stalls
<1>2. TypeOK'
  BY <1>1, CountedFlags DEF Allocated, TypeOK
<1>3. Consecutive'
  BY <1>1 DEF Allocated, Consecutive, Behind
<1>4. \A i \in 1..Len(inflight) : isVPEligible'[inflight'[i].index] = isVPEligible[inflight[i].index]
  BY <1>1, CountedFlags DEF Allocated
<1>5. Ordered(vpQueue_Head, vpQueue_Tail)' /\ TailsInside' /\ TailsInOrder' /\ BranchesPushNothing'
  BY <1>1, <1>4, TailsUnchanged
<1> QED BY <1>2, <1>3, <1>5 DEF Allocated

\* A branch that resolves will restore nothing.
LEMMA ResolveCorrectStep ==
  ASSUME TypeOK, Allocated, NEW b \in 1..Len(inflight), ResolveCorrect(b)
  PROVE  TypeOK' /\ Allocated'
<1> DEFINE e == [inflight[b] EXCEPT !.resolved = TRUE]
<1>1. /\ inflight' = [inflight EXCEPT ![b] = e]
      /\ UNCHANGED <<fetch, nextIndex, slotIndex, bundle, isVPEligible, vpQueue_Head, vpQueue_Tail>>
  BY DEF ResolveCorrect
<1>2. /\ e \in Payload /\ e.index = inflight[b].index /\ e.kind = inflight[b].kind
      /\ e.VPQTail = inflight[b].VPQTail /\ e.resolved
  BY Typing DEF Payload
<1> HIDE DEF e
<1>3. /\ inflight' \in Seq(Payload) /\ Len(inflight') = Len(inflight)
      /\ \A j \in 1..Len(inflight) : inflight'[j] = IF j = b THEN e ELSE inflight[j]
  BY <1>1, <1>2, ExceptSeq DEF TypeOK
<1>4. \A j \in 1..Len(inflight) : /\ inflight'[j].index = inflight[j].index
                                  /\ inflight'[j].kind = inflight[j].kind
                                  /\ inflight'[j].VPQTail = inflight[j].VPQTail
                                  /\ inflight[j].resolved => inflight'[j].resolved
  BY <1>2, <1>3
<1>5. TypeOK'
  BY <1>1, <1>3 DEF TypeOK
<1>6. Consecutive'
  BY <1>1, <1>3, <1>4 DEF Allocated, Consecutive, Behind
<1>7. Ordered(vpQueue_Head, vpQueue_Tail)' /\ TailsInside' /\ TailsInOrder' /\ BranchesPushNothing'
  BY <1>1, <1>3, <1>4, TailsUnchanged
<1> QED BY <1>5, <1>6, <1>7 DEF Allocated

\* A misprediction restores the tail the branch recorded: what is older is inside it.
LEMMA MispredictStep ==
  ASSUME TypeOK, Allocated, NEW b \in 1..Len(inflight), Mispredict(b)
  PROVE  TypeOK' /\ Allocated'
<1> DEFINE n == Len(inflight)
           M == PAYLOAD_BUFFER_SIZE
           s == SubSeq(inflight, 1, b)
           e == [inflight[b] EXCEPT !.resolved = TRUE]
<1>1. /\ inflight[b].kind = "branch" /\ ~inflight[b].resolved
      /\ inflight' = [s EXCEPT ![b].resolved = TRUE]
      /\ vpQueue_Tail' = inflight[b].VPQTail /\ nextIndex' = AfterIndex(inflight[b].index, 1)
      /\ bundle' = <<>> /\ fetch' = "active"
      /\ UNCHANGED <<slotIndex, isVPEligible, vpQueue_Head>>
  BY DEF Mispredict
<1>2. n \in Nat /\ b \in Nat \ {0} /\ b <= n /\ \A j \in 1..b : j \in 1..n /\ inflight[j] \in Payload
  BY Typing
<1>3. s \in Seq(Payload) /\ Len(s) = b /\ \A j \in 1..b : s[j] = inflight[j]
  BY <1>2, SubSeqProperties
<1>4. /\ e \in Payload /\ e.index = inflight[b].index /\ e.kind = inflight[b].kind
      /\ e.VPQTail = inflight[b].VPQTail /\ e.resolved
  BY Typing DEF Payload
<1>5. inflight' = [s EXCEPT ![b] = e]
  <2>1. s[b] = inflight[b]
    BY <1>2, <1>3
  <2> QED BY <1>1, <2>1
<1> HIDE DEF s, e
<1>6. /\ inflight' \in Seq(Payload) /\ Len(inflight') = b
      /\ \A j \in 1..b : inflight'[j] = IF j = b THEN e ELSE s[j]
  <2>1. b \in 1..Len(s) /\ s \in Seq(Payload) /\ Len(s) = b /\ e \in Payload
    BY <1>2, <1>3, <1>4
  <2>2. /\ [s EXCEPT ![b] = e] \in Seq(Payload) /\ Len([s EXCEPT ![b] = e]) = Len(s)
        /\ \A j \in 1..Len(s) : [s EXCEPT ![b] = e][j] = IF j = b THEN e ELSE s[j]
    BY <2>1, ExceptSeq
  <2> QED BY <1>5, <2>1, <2>2
<1>7. \A j \in 1..b : /\ inflight'[j].index = inflight[j].index
                      /\ inflight'[j].kind = inflight[j].kind
                      /\ inflight'[j].VPQTail = inflight[j].VPQTail
                      /\ inflight[j].resolved => inflight'[j].resolved
                      /\ j = b => inflight'[j].resolved
  BY <1>3, <1>4, <1>6
<1>8. /\ M \in Nat \ {0} /\ nextIndex \in 0..(M - 1) /\ nextIndex' \in 0..(M - 1)
      /\ \A j \in 1..n : inflight[j].index \in 0..(M - 1)
      /\ nextIndex' = inflight[b].index + 1 \/ nextIndex' = inflight[b].index + 1 - M
      /\ n + Len(bundle) <= M /\ Len(bundle) \in Nat
  <2>1. inflight[b].index \in PAYIndex /\ 1 \in 0..M /\ M \in Nat \ {0}
    BY Typing
  <2> QED BY <1>1, <2>1, Typing, AfterIndexRing DEF PAYIndex, TypeOK
<1>9. TypeOK'
  <2>1. bundle' \in Seq(Kind) /\ Len(bundle') = 0 /\ dispatch_width \in Nat
    BY <1>1, EmptySeq, Typing
  <2>2. nextIndex' \in PAYIndex
    BY <1>8 DEF PAYIndex
  <2>3. vpQueue_Tail' \in Pointer(VPQsize)
    BY <1>1, Typing
  <2>4. Len(inflight') <= ActiveListSize
    BY <1>2, <1>6, RenameBundleAssumption DEF TypeOK
  <2> QED BY <1>1, <1>6, <2>1, <2>2, <2>3, <2>4 DEF TypeOK
<1>10. Consecutive'
  <2>1. ASSUME NEW i \in 1..b PROVE Behind(inflight[i].index, b + 0 + 1 - i)'
    <3>1. PICK d \in 0..M : d = n + Len(bundle) + 1 - i
      <4>1. n + Len(bundle) + 1 - i \in 0..M
        BY <1>2, <1>8
      <4> HIDE DEF M, n
      <4> QED BY <4>1
    <3>2. PICK f \in 0..M : f = n + Len(bundle) + 1 - b
      <4>1. n + Len(bundle) + 1 - b \in 0..M
        BY <1>2, <1>8
      <4> HIDE DEF M, n
      <4> QED BY <4>1
    <3>3. PICK p \in 0..(M - 1) : p = inflight[i].index
      BY <1>2, <1>8
    <3>4. PICK q \in 0..(M - 1) : q = inflight[b].index
      BY <1>8
    <3>5. i \in 1..n
      BY <1>2
    <3>6. /\ nextIndex = p + d \/ nextIndex = p + d - M
          /\ nextIndex = q + f \/ nextIndex = q + f - M
          /\ f <= d /\ d - f = b - i
      BY <1>2, <1>8, <3>1, <3>2, <3>3, <3>4, <3>5 DEF Allocated, Consecutive, Behind
    <3>7. q = p + (d - f) \/ q = p + (d - f) - M
      <4> HIDE DEF M
      <4> QED BY <1>8, <3>6, RingDistances
    <3>8. b - i \in 0..M /\ (b - i) + 1 <= M /\ (b - i) + 1 = b + 0 + 1 - i
      BY <1>2, <1>8
    <3>9. d - f \in 0..M /\ (d - f) + 1 <= M /\ (d - f) + 1 = b + 0 + 1 - i
      <4>1. d - f = b - i
        BY <3>6
      <4> HIDE DEF M, n
      <4> QED BY <3>8, <4>1, Zenon
    <3>10. PICK g \in 0..M : g = d - f
      <4> HIDE DEF M
      <4> QED BY <3>9
    <3>11. PICK u \in 0..M : u = 1
      <4>1. 1 \in 0..M
        BY <1>8
      <4> HIDE DEF M
      <4> QED BY <4>1
    <3>12. /\ q = p + g \/ q = p + g - M
           /\ nextIndex' = q + u \/ nextIndex' = q + u - M
           /\ g + u <= M /\ g + u = b + 0 + 1 - i
      BY <1>8, <3>4, <3>7, <3>9, <3>10, <3>11
    <3>13. nextIndex' = p + (g + u) \/ nextIndex' = p + (g + u) - M
      <4> HIDE DEF M
      <4> QED BY <1>8, <3>12, RingDistances
    <3> QED BY <1>7, <3>3, <3>12, <3>13 DEF Behind
  <2>2. Len(bundle') = 0
    BY <1>1
  <2>3. \A i \in 1..b : inflight'[i].index = inflight[i].index
    BY <1>7
  <2> QED BY <1>6, <2>1, <2>2, <2>3 DEF Consecutive
<1>11. b \in Pending /\ b \notin Owners
  BY <1>1 DEF Pending, Allocated, BranchesPushNothing
<1>12. Owners' \subseteq {i \in Owners : i < b} /\ Pending' \subseteq {i \in Pending : i < b}
  <2>1. ASSUME NEW i \in Owners' PROVE i \in Owners /\ i < b
    <3>1. i \in 1..b /\ i \in Owners
      BY <1>1, <1>2, <1>6, <1>7 DEF Owners
    <3> QED BY <1>2, <1>11, <3>1
  <2>2. ASSUME NEW i \in Pending' PROVE i \in Pending /\ i < b
    <3>1. i \in 1..b /\ i \in Pending /\ i # b
      BY <1>2, <1>6, <1>7 DEF Pending
    <3> QED BY <1>2, <3>1
  <2> QED BY <2>1, <2>2
<1>13. ASSUME NEW i \in Owners' \cup Pending'
       PROVE  /\ inflight'[i].VPQTail = inflight[i].VPQTail /\ inflight'[i].kind = inflight[i].kind
              /\ Distance(vpQueue_Head, inflight[i].VPQTail, VPQsize) <= Distance(vpQueue_Head, vpQueue_Tail', VPQsize)
              /\ i \in Owners' => Distance(vpQueue_Head, inflight[i].VPQTail, VPQsize)
                                    < Distance(vpQueue_Head, vpQueue_Tail', VPQsize)
  <2>1. i \in Owners \cup Pending /\ i < b /\ i \in 1..b /\ (i \in Owners' => i \in Owners)
    BY <1>2, <1>12, Typing
  <2> QED BY <1>1, <1>7, <1>11, <2>1 DEF Allocated, TailsInOrder, Ahead
<1>14. Ordered(vpQueue_Head, vpQueue_Tail')
  BY <1>1, <1>11 DEF Allocated, TailsInside
<1>15. Ordered(vpQueue_Head, vpQueue_Tail)' /\ TailsInside' /\ TailsInOrder' /\ BranchesPushNothing'
  <2>1. Owners' \subseteq Owners /\ Pending' \subseteq Pending /\ vpQueue_Head' = vpQueue_Head
    BY <1>1, <1>12
  <2> QED BY <1>13, <1>14, <2>1, TailsStay
<1> QED BY <1>9, <1>10, <1>15 DEF Allocated

\* The head passes the entry of a flagged instruction, which is the oldest one.
LEMMA RetireStep ==
  ASSUME TypeOK, Allocated, Retire
  PROVE  TypeOK' /\ Allocated'
<1> DEFINE n == Len(inflight)
<1>1. /\ inflight # <<>> /\ inflight' = Tail(inflight)
      /\ isVPEligible[Head(inflight).index] => Head(inflight).VPQTail.idx = vpQueue_Head.idx
      /\ vpQueue_Head' = IF isVPEligible[Head(inflight).index] THEN Advance(vpQueue_Head, VPQsize) ELSE vpQueue_Head
      /\ UNCHANGED <<nextIndex, slotIndex, bundle, isVPEligible, vpQueue_Tail>>
  BY DEF Retire, OwnsHead
<1>2. /\ n \in Nat \ {0} /\ n <= ActiveListSize /\ ActiveListSize \in Nat
      /\ inflight' \in Seq(Payload) /\ Len(inflight') = n - 1
      /\ \A j \in 1..(n - 1) : inflight'[j] = inflight[j + 1]
      /\ Head(inflight) = inflight[1] /\ 1 \in 1..n
  BY <1>1, EmptySeq, HeadTailProperties, RenameBundleAssumption DEF TypeOK
<1>3. \A j \in 1..(n - 1) : j + 1 \in 1..n /\ 1 < j + 1
  BY <1>2
<1>4. \A j : /\ j \in Owners' => j \in 1..(n - 1) /\ j + 1 \in Owners
             /\ j \in Pending' => j \in 1..(n - 1) /\ j + 1 \in Pending
  BY <1>1, <1>2, <1>3 DEF Owners, Pending
<1>5. /\ VPQsize \in Nat \ {0} /\ vpQueue_Head \in Pointer(VPQsize) /\ vpQueue_Tail \in Pointer(VPQsize)
      /\ \A i \in 1..n : inflight[i].VPQTail \in Pointer(VPQsize)
  BY Typing
<1>6. TypeOK'
  <2>1. vpQueue_Head' \in Pointer(VPQsize)
    BY <1>1, <1>5, AdvanceType
  <2>2. fetch' \in {"active", "stopping", "drained"}
    BY DEF Retire, TypeOK
  <2>3. Len(inflight') <= ActiveListSize
    BY <1>2
  <2> QED BY <1>1, <1>2, <2>1, <2>2, <2>3 DEF TypeOK
<1>7. Consecutive'
  <2>1. ASSUME NEW j \in 1..(n - 1) PROVE Behind(inflight'[j].index, (n - 1) + Len(bundle) + 1 - j)
    <3>1. Behind(inflight[j + 1].index, n + Len(bundle) + 1 - (j + 1))
      BY <1>3 DEF Allocated, Consecutive
    <3>2. n + Len(bundle) + 1 - (j + 1) = (n - 1) + Len(bundle) + 1 - j
      BY <1>2, Typing
    <3> QED BY <1>2, <3>1, <3>2
  <2>2. \A j \in 1..Len(bundle) : Behind(slotIndex[j], Len(bundle) + 1 - j)
    BY DEF Allocated, Consecutive
  <2> QED BY <1>1, <1>2, <2>1, <2>2 DEF Consecutive, Behind
<1>8. BranchesPushNothing'
  BY <1>2, <1>4 DEF Allocated, BranchesPushNothing
<1>9. ASSUME NEW i \in Owners \cup Pending
      PROVE  /\ i \in 1..n /\ i \in Int /\ inflight[i].VPQTail \in Pointer(VPQsize)
             /\ Ordered(vpQueue_Head, inflight[i].VPQTail) /\ Ahead(inflight[i].VPQTail) \in 0..VPQsize
  <2>1. i \in 1..n
    BY Typing
  <2>2. inflight[i].VPQTail \in Pointer(VPQsize) /\ Ordered(vpQueue_Head, inflight[i].VPQTail)
    BY <1>5, <2>1 DEF Allocated, TailsInside
  <2> QED BY <1>5, <2>1, <2>2, DistanceType DEF Ahead
<1>10. Ahead(vpQueue_Tail) \in 0..VPQsize /\ Ordered(vpQueue_Head, vpQueue_Tail)
  BY <1>5, DistanceType DEF Ahead, Allocated
<1>11. CASE isVPEligible[inflight[1].index]
  <2>1. 1 \in Owners /\ vpQueue_Head' = Advance(vpQueue_Head, VPQsize) /\ inflight[1].VPQTail.idx = vpQueue_Head.idx
    BY <1>1, <1>2, <1>11 DEF Owners
  <2>2. Ahead(inflight[1].VPQTail) < Ahead(vpQueue_Tail)
    BY <2>1 DEF Allocated, TailsInside
  <2>3. Ahead(inflight[1].VPQTail) = 0
    <3>1. Ordered(vpQueue_Head, vpQueue_Head) /\ Distance(vpQueue_Head, vpQueue_Head, VPQsize) = 0
      BY <1>5, DistanceZero
    <3>2. /\ inflight[1].VPQTail \in Pointer(VPQsize) /\ Ordered(vpQueue_Head, inflight[1].VPQTail)
          /\ Distance(vpQueue_Head, inflight[1].VPQTail, VPQsize) < VPQsize
      BY <1>9, <1>10, <2>1, <2>2, <1>5 DEF Ahead
    <3> QED BY <1>5, <2>1, <3>1, <3>2, SameSlot DEF Ahead
  <2>4. /\ Ordered(vpQueue_Head', vpQueue_Tail)
        /\ Distance(vpQueue_Head', vpQueue_Tail, VPQsize) = Ahead(vpQueue_Tail) - 1
    BY <1>5, <1>10, <2>1, <2>2, <2>3, HeadPasses DEF Ahead
  <2>5. ASSUME NEW i \in Owners \cup Pending, 1 < i
        PROVE  /\ Ordered(vpQueue_Head', inflight[i].VPQTail)
               /\ Distance(vpQueue_Head', inflight[i].VPQTail, VPQsize) = Ahead(inflight[i].VPQTail) - 1
    <3>1. Ahead(inflight[1].VPQTail) < Ahead(inflight[i].VPQTail)
      BY <2>1, <2>5 DEF Allocated, TailsInOrder
    <3> QED BY <1>5, <1>9, <2>1, <2>3, <3>1, HeadPasses DEF Ahead
  <2>6. TailsInside'
    <3> SUFFICES ASSUME NEW j \in Owners' \cup Pending'
                 PROVE  /\ Ordered(vpQueue_Head', inflight'[j].VPQTail)
                        /\ Distance(vpQueue_Head', inflight'[j].VPQTail, VPQsize)
                             <= Distance(vpQueue_Head', vpQueue_Tail, VPQsize)
                        /\ j \in Owners' => Distance(vpQueue_Head', inflight'[j].VPQTail, VPQsize)
                                              < Distance(vpQueue_Head', vpQueue_Tail, VPQsize)
      BY <1>1 DEF TailsInside, Ahead
    <3>1. PICK i : /\ i = j + 1 /\ i \in Owners \cup Pending /\ 1 < i /\ inflight'[j] = inflight[i]
                   /\ j \in Owners' => i \in Owners
      BY <1>2, <1>3, <1>4
    <3>2. /\ Ahead(inflight[i].VPQTail) <= Ahead(vpQueue_Tail)
          /\ i \in Owners => Ahead(inflight[i].VPQTail) < Ahead(vpQueue_Tail)
      BY <3>1 DEF Allocated, TailsInside
    <3> QED BY <1>9, <1>10, <2>4, <2>5, <3>1, <3>2
  <2>7. TailsInOrder'
    <3> SUFFICES ASSUME NEW j \in Owners' \cup Pending', NEW k \in Owners' \cup Pending', j < k
                 PROVE  /\ Distance(vpQueue_Head', inflight'[j].VPQTail, VPQsize)
                             <= Distance(vpQueue_Head', inflight'[k].VPQTail, VPQsize)
                        /\ j \in Owners' => Distance(vpQueue_Head', inflight'[j].VPQTail, VPQsize)
                                              < Distance(vpQueue_Head', inflight'[k].VPQTail, VPQsize)
      BY DEF TailsInOrder, Ahead
    <3>1. PICK i : /\ i = j + 1 /\ i \in Owners \cup Pending /\ 1 < i /\ inflight'[j] = inflight[i]
                   /\ j \in Owners' => i \in Owners
      BY <1>2, <1>3, <1>4
    <3>2. PICK m : m = k + 1 /\ m \in Owners \cup Pending /\ 1 < m /\ inflight'[k] = inflight[m]
      BY <1>2, <1>3, <1>4
    <3>3. i < m
      <4>1. j \in 1..(n - 1) /\ k \in 1..(n - 1)
        BY <1>4
      <4> QED BY <1>2, <3>1, <3>2, <4>1
    <3>4. /\ Ahead(inflight[i].VPQTail) <= Ahead(inflight[m].VPQTail)
          /\ i \in Owners => Ahead(inflight[i].VPQTail) < Ahead(inflight[m].VPQTail)
      BY <3>1, <3>2, <3>3 DEF Allocated, TailsInOrder
    <3> QED BY <1>9, <2>5, <3>1, <3>2, <3>4
  <2> QED BY <1>1, <1>6, <1>7, <1>8, <2>4, <2>6, <2>7 DEF Allocated
<1>12. CASE ~isVPEligible[inflight[1].index]
  <2>1. vpQueue_Head' = vpQueue_Head /\ vpQueue_Tail' = vpQueue_Tail
    BY <1>1, <1>2, <1>12
  <2>2. ASSUME NEW j \in Owners' \cup Pending'
        PROVE  /\ j \in 1..(n - 1) /\ j + 1 \in Owners \cup Pending /\ inflight'[j] = inflight[j + 1]
               /\ j \in Owners' => j + 1 \in Owners
    BY <1>2, <1>4
  <2>3. TailsInside'
    BY <2>1, <2>2 DEF Allocated, TailsInside, Ahead
  <2>4. TailsInOrder'
    <3> SUFFICES ASSUME NEW j \in Owners' \cup Pending', NEW k \in Owners' \cup Pending', j < k
                 PROVE  /\ Ahead(inflight'[j].VPQTail)  <= Ahead(inflight'[k].VPQTail)
                        /\ j \in Owners' => Ahead(inflight'[j].VPQTail) < Ahead(inflight'[k].VPQTail)
      BY <2>1 DEF TailsInOrder, Ahead
    <3>1. j + 1 < k + 1
      BY <1>2, <2>2
    <3> QED BY <2>2, <3>1 DEF Allocated, TailsInOrder
  <2> QED BY <1>6, <1>7, <1>8, <1>10, <2>1, <2>3, <2>4 DEF Allocated
<1> QED BY <1>11, <1>12

\* A squash empties the VPQ at its head.
LEMMA SquashStep ==
  ASSUME TypeOK, Allocated, RetireMispredicted \/ SquashComplete
  PROVE  TypeOK' /\ Allocated'
<1>1. vpQueue_Head' \in Pointer(VPQsize)
  BY Typing, AdvanceType DEF RetireMispredicted, SquashComplete
<1>2. EmptyPipeline'
  BY <1>1 DEF RetireMispredicted, SquashComplete, SquashAll, EmptyPipeline, TypeOK
<1> QED BY <1>2, EmptyAllocated, PTL

\* The slots of a bundle that push an entry.
Pushing == {j \in 1..Len(bundle) : isVPEligible'[slotIndex[j]]}

\* The dropping loop clears flags and sets none, under policy 0 it clears none, and under policy
\* 1 it leaves flagged no more slots than the VPQ has free entries.
LEMMA DroppedFlags ==
  ASSUME TypeOK, Consecutive, Ordered(vpQueue_Head, vpQueue_Tail), Rename2
  PROVE  /\ isVPEligible' \in [PAYIndex -> BOOLEAN]
         /\ \A p \in PAYIndex : isVPEligible'[p] => Counted[p]
         /\ Pushing \in SUBSET (1..Len(bundle))
         /\ Cardinality(Pushing) \in Nat
         /\ Ahead(vpQueue_Tail) + Cardinality(Pushing) <= VPQsize
<1> DEFINE slots == 1..dispatch_width
           E == {i \in slots : Counted[slotIndex[i]]}
           k == Available(vpQueue_Head, vpQueue_Tail, VPQsize)
           G == {i \in E : Count(E, i) < k}
           b == Len(bundle)
<1>1. isVPEligible' = Dropped(Counted) /\ ~stall_value /\ Counted \in [PAYIndex -> BOOLEAN]
  BY CountedFlags DEF Rename2
<1>2. /\ isVPEligible' \in [PAYIndex -> BOOLEAN]
      /\ \A p \in PAYIndex : isVPEligible'[p] => Counted[p]
  <2>1. CASE VPQ_full_policy = 0
    BY <1>1, <2>1 DEF Dropped
  <2>2. CASE VPQ_full_policy # 0
    <3>1. isVPEligible' = [p \in PAYIndex |->
             Counted[p] /\ \A i \in slots \ Granted(Counted, slots) : slotIndex[i] # p]
      BY <1>1, <2>2 DEF Dropped
    <3> HIDE DEF slots
    <3> QED BY <3>1, Zenon
  <2> QED BY <2>1, <2>2
<1>3. /\ dispatch_width \in Nat /\ b \in Nat /\ b <= dispatch_width
      /\ Ahead(vpQueue_Tail) \in 0..VPQsize /\ k = VPQsize - Ahead(vpQueue_Tail) /\ k \in Nat
      /\ \A j \in 1..b : j \in slots /\ slotIndex[j] \in PAYIndex
  <2>1. /\ Ahead(vpQueue_Tail) \in 0..VPQsize /\ k = VPQsize - Ahead(vpQueue_Tail)
        /\ VPQsize \in Nat \ {0}
    BY Typing, DistanceType DEF Ahead
  <2> QED BY <2>1, Typing
<1>4. Pushing \in SUBSET (1..b) /\ IsFiniteSet(Pushing) /\ Cardinality(Pushing) \in Nat
  <2>1. Pushing \in SUBSET (1..b)
    BY DEF Pushing
  <2>2. 1 \in Int /\ Pushing \in SUBSET (1..b) /\ b \in Nat
    BY <1>3, <2>1
  <2>3. IsFiniteSet(Pushing) /\ Cardinality(Pushing) \in 0..b
    <3> HIDE DEF b
    <3> QED BY <2>2, CountType
  <2> QED BY <1>3, <2>1, <2>3
<1>5. Cardinality(Pushing) <= k
  <2>1. CASE VPQ_full_policy = 0
    <3>1. isVPEligible' = Counted
      BY <1>1, <2>1 DEF Dropped
    <3>2. Pushing = {i \in 1..Len(bundle) : bundle[i] = "value"}
      BY <3>1, CountedFlags DEF Pushing
    <3>3. ~(k < Cardinality(Pushing))
      BY <1>1, <2>1, <3>2 DEF stall_value, getAvailableEntriesInVPQ, EligibleCount
    <3> QED BY <1>3, <1>4, <3>3
  <2>2. CASE VPQ_full_policy # 0
    <3>1. isVPEligible' = [p \in PAYIndex |->
             Counted[p] /\ \A i \in slots \ Granted(Counted, slots) : slotIndex[i] # p]
      BY <1>1, <2>2 DEF Dropped
    <3>2. ASSUME NEW j \in Pushing PROVE j \in Granted(Counted, slots)
      <4>1. j \in slots /\ slotIndex[j] \in PAYIndex /\ isVPEligible'[slotIndex[j]]
        BY <1>3 DEF Pushing
      <4> HIDE DEF slots
      <4> QED BY <3>1, <4>1
    <3>3. Granted(Counted, slots) = G
      <4>1. \A i \in slots : {j \in slots : j < i /\ Counted[slotIndex[j]]} = {j \in E : j < i}
        OBVIOUS
      <4> QED BY <4>1 DEF Granted, Count, getAvailableEntriesInVPQ
    <3>4. E \in SUBSET (1..dispatch_width) /\ G \in SUBSET (1..dispatch_width)
      OBVIOUS
    <3>5. Cardinality(G) <= k
      <4> HIDE DEF E, k
      <4> QED BY <1>3, <3>4, FirstFew
    <3>6. IsFiniteSet(G) /\ Cardinality(G) \in Nat
      <4> HIDE DEF G
      <4>1. dispatch_width \in Nat /\ 1 \in Int
        BY <1>3
      <4>2. IsFiniteSet(G) /\ Cardinality(G) \in 0..dispatch_width
        BY <3>4, <4>1, CountType
      <4> QED BY <4>1, <4>2
    <3>7. Pushing \subseteq G
      BY <3>2, <3>3
    <3>8. Cardinality(Pushing) <= Cardinality(G)
      <4> HIDE DEF G
      <4> QED BY <3>6, <3>7, FS_Subset
    <3> QED BY <1>3, <1>4, <3>5, <3>6, <3>8
  <2> QED BY <2>1, <2>2
<1>6. Ahead(vpQueue_Tail) + Cardinality(Pushing) <= VPQsize
  <2>1. VPQsize \in Int
    BY Typing
  <2> HIDE DEF k
  <2> QED BY <1>3, <1>4, <1>5, <2>1
<1> QED BY <1>2, <1>4, <1>6

\* The bundle's b instructions go behind the n in flight, and those that push an entry or take a
\* checkpoint record the tail they find.
Renamed(n, b) ==
  /\ n \in Nat /\ b \in Nat
  /\ inflight' \in Seq(Payload) /\ Len(inflight') = n + b
  /\ \A i \in 1..n : inflight'[i] = inflight[i]
  /\ \A j \in 1..b : /\ n + j \in 1..(n + b)
                     /\ inflight'[n + j].index = slotIndex[j] /\ inflight'[n + j].kind = bundle[j]
                     /\ bundle[j] = "branch" \/ j \in Pushing
                          => inflight'[n + j].VPQTail = AdvanceBy(vpQueue_Tail, Count(Pushing, j), VPQsize)
  /\ vpQueue_Tail' = AdvanceBy(vpQueue_Tail, Cardinality(Pushing), VPQsize)
  /\ \A i \in 1..(n + b) : i \in 1..n \/ \E j \in 1..b : i = n + j

\* What a bundle that is renamed records.
LEMMA RenamedInflight ==
  ASSUME TypeOK, Allocated, Rename2, NEW n, n = Len(inflight), NEW b, b = Len(bundle)
  PROVE  Renamed(n, b)
<1> DEFINE Pushed(k) == {j \in 1..k : isVPEligible'[slotIndex[j]]}
           TailAt(k) == AdvanceBy(vpQueue_Tail, Cardinality(Pushed(k)), VPQsize)
           s == [i \in 1..Len(bundle) |->
                  [index |-> slotIndex[i], kind |-> bundle[i], resolved |-> FALSE,
                   VPQTail |-> IF bundle[i] = "branch" \/ isVPEligible'[slotIndex[i]]
                               THEN TailAt(i - 1) ELSE Origin]]
<1>1. inflight' = inflight \o s /\ vpQueue_Tail' = TailAt(Len(bundle))
  BY DEF Rename2
<1>2. n \in Nat /\ b \in Nat
  BY Typing
<1>3. /\ VPQsize \in Nat \ {0} /\ vpQueue_Head \in Pointer(VPQsize) /\ vpQueue_Tail \in Pointer(VPQsize)
      /\ Ordered(vpQueue_Head, vpQueue_Tail) /\ Ahead(vpQueue_Tail) \in 0..VPQsize
      /\ Pushing \in SUBSET (1..b) /\ Cardinality(Pushing) \in Nat
      /\ Ahead(vpQueue_Tail) + Cardinality(Pushing) <= VPQsize
  <2>1. Ahead(vpQueue_Tail) \in 0..VPQsize
    BY Typing, DistanceType DEF Ahead, Allocated
  <2> QED BY <2>1, Typing, DroppedFlags DEF Allocated
<1>4. ASSUME NEW j \in 1..(b + 1)
      PROVE  Pushed(j - 1) = {i \in Pushing : i < j}
  BY <1>2 DEF Pushing
<1>5. ASSUME NEW j \in 1..(b + 1)
      PROVE  TailAt(j - 1) = AdvanceBy(vpQueue_Tail, Count(Pushing, j), VPQsize)
  BY <1>4 DEF Count
<1>6. TailAt(b) = AdvanceBy(vpQueue_Tail, Cardinality(Pushing), VPQsize)
  BY DEF Pushing
<1>7. ASSUME NEW j \in 1..b
      PROVE  AdvanceBy(vpQueue_Tail, Count(Pushing, j), VPQsize) \in Pointer(VPQsize)
  <2>1. Count(Pushing, j) \in 0..Cardinality(Pushing)
    <3>1. j \in Int
      BY <1>2
    <3> QED BY <1>2, <1>3, <3>1, CountType
  <2>2. Count(Pushing, j) \in 0..VPQsize
    BY <1>3, <2>1
  <2> QED BY <1>3, <2>2, AdvanceByType
<1>8. \A j \in 1..b : j \in 1..Len(bundle) /\ j \in 1..(b + 1) /\ slotIndex[j] \in PAYIndex /\ bundle[j] \in Kind
  BY <1>2, Typing
<1>9. \A j \in 1..b : /\ s[j].index = slotIndex[j] /\ s[j].kind = bundle[j]
                      /\ bundle[j] = "branch" \/ j \in Pushing => s[j].VPQTail = TailAt(j - 1)
  BY <1>8 DEF Pushing
<1>10. s \in [1..b -> Payload]
  <2> SUFFICES ASSUME NEW j \in 1..b
               PROVE  [index |-> slotIndex[j], kind |-> bundle[j], resolved |-> FALSE,
                       VPQTail |-> IF bundle[j] = "branch" \/ isVPEligible'[slotIndex[j]]
                                   THEN TailAt(j - 1) ELSE Origin] \in Payload
    OBVIOUS
  <2>1. TailAt(j - 1) \in Pointer(VPQsize) /\ Origin \in Pointer(VPQsize)
    BY <1>3, <1>5, <1>7, <1>8, OriginType
  <2> HIDE DEF TailAt
  <2> QED BY <1>8, <2>1 DEF Payload
<1> HIDE DEF s, TailAt
<1>11. s \in Seq(Payload) /\ Len(s) = b
  BY <1>2, <1>10, FunctionIsSequence
<1>12. inflight \in Seq(Payload)
  BY DEF TypeOK
<1>13. /\ inflight' \in Seq(Payload) /\ Len(inflight') = n + b
       /\ \A i \in 1..(n + b) : inflight'[i] = IF i <= n THEN inflight[i] ELSE s[i - n]
  <2>1. /\ inflight \o s \in Seq(Payload) /\ Len(inflight \o s) = Len(inflight) + Len(s)
        /\ \A i \in 1..(Len(inflight) + Len(s)) :
             (inflight \o s)[i] = IF i <= Len(inflight) THEN inflight[i] ELSE s[i - Len(inflight)]
    BY <1>11, <1>12, ConcatProperties
  <2> QED BY <1>1, <1>11, <2>1
<1>14. \A i \in 1..n : inflight'[i] = inflight[i]
  BY <1>2, <1>13
<1>15. \A j \in 1..b : n + j \in 1..(n + b) /\ inflight'[n + j] = s[j]
  <2> SUFFICES ASSUME NEW j \in 1..b PROVE n + j \in 1..(n + b) /\ inflight'[n + j] = s[j]
    OBVIOUS
  <2>1. n + j \in 1..(n + b) /\ ~(n + j <= n) /\ (n + j) - n = j
    BY <1>2
  <2> QED BY <1>13, <2>1
<1>16. \A i \in 1..(n + b) : i \in 1..n \/ \E j \in 1..b : i = n + j
  <2> SUFFICES ASSUME NEW i \in 1..(n + b), i \notin 1..n PROVE \E j \in 1..b : i = n + j
    OBVIOUS
  <2>1. i - n \in 1..b /\ i = n + (i - n)
    BY <1>2
  <2> QED BY <2>1
<1> QED BY <1>1, <1>2, <1>5, <1>6, <1>8, <1>9, <1>13, <1>14, <1>15, <1>16 DEF Renamed

\* A bundle that is renamed takes entries the VPQ has.
LEMMA Rename2Step ==
  ASSUME TypeOK, Allocated, Rename2
  PROVE  TypeOK' /\ Allocated'
<1>0. PICK n : n = Len(inflight)
  OBVIOUS
<1>1. PICK b : b = Len(bundle)
  OBVIOUS
<1>2. /\ n \in Nat /\ b \in Nat
      /\ inflight' \in Seq(Payload) /\ Len(inflight') = n + b
      /\ \A i \in 1..n : inflight'[i] = inflight[i]
      /\ \A j \in 1..b : /\ n + j \in 1..(n + b)
                         /\ inflight'[n + j].index = slotIndex[j] /\ inflight'[n + j].kind = bundle[j]
                         /\ bundle[j] = "branch" \/ j \in Pushing
                              => inflight'[n + j].VPQTail = AdvanceBy(vpQueue_Tail, Count(Pushing, j), VPQsize)
      /\ vpQueue_Tail' = AdvanceBy(vpQueue_Tail, Cardinality(Pushing), VPQsize)
      /\ \A i \in 1..(n + b) : i \in 1..n \/ \E j \in 1..b : i = n + j
  <2>1. Renamed(n, b)
    BY <1>0, <1>1, RenamedInflight
  <2> QED BY <2>1 DEF Renamed
<1> DEFINE c == Cardinality(Pushing)
           tail2 == AdvanceBy(vpQueue_Tail, c, VPQsize)
           Live == Owners \cup Pending
<1>3. /\ isVPEligible' \in [PAYIndex -> BOOLEAN]
      /\ \A p \in PAYIndex : isVPEligible'[p] => Counted[p]
      /\ Pushing \in SUBSET (1..b) /\ c \in Nat /\ Ahead(vpQueue_Tail) + c <= VPQsize
  BY <1>1, DroppedFlags DEF Allocated
<1>4. /\ bundle' = <<>> /\ Len(inflight) + Len(bundle) <= ActiveListSize
      /\ UNCHANGED <<fetch, nextIndex, slotIndex, vpQueue_Head>>
  BY DEF Rename2
<1>5. /\ VPQsize \in Nat \ {0} /\ vpQueue_Head \in Pointer(VPQsize) /\ vpQueue_Tail \in Pointer(VPQsize)
      /\ Ordered(vpQueue_Head, vpQueue_Tail) /\ Ahead(vpQueue_Tail) \in 0..VPQsize
  <2>1. Ahead(vpQueue_Tail) \in 0..VPQsize
    BY Typing, DistanceType DEF Ahead, Allocated
  <2> QED BY <2>1, Typing DEF Allocated
<1>6. ASSUME NEW m \in 0..c
      PROVE  /\ AdvanceBy(vpQueue_Tail, m, VPQsize) \in Pointer(VPQsize)
             /\ Ordered(vpQueue_Head, AdvanceBy(vpQueue_Tail, m, VPQsize))
             /\ Ahead(AdvanceBy(vpQueue_Tail, m, VPQsize)) = Ahead(vpQueue_Tail) + m
  <2>1. m \in Nat /\ Distance(vpQueue_Head, vpQueue_Tail, VPQsize) + m <= VPQsize
    BY <1>3, <1>5 DEF Ahead
  <2> QED BY <1>5, <2>1, AdvanceByBehind DEF Ahead
<1>7. tail2 \in Pointer(VPQsize) /\ Ordered(vpQueue_Head, tail2) /\ Ahead(tail2) = Ahead(vpQueue_Tail) + c
  <2>1. c \in 0..c
    BY <1>3
  <2> HIDE DEF c
  <2> QED BY <1>6, <2>1
<1>8. ASSUME NEW j \in 1..b
      PROVE  /\ j \in Int /\ Count(Pushing, j) \in 0..c /\ (j \in Pushing => Count(Pushing, j) < c)
             /\ \A k \in 1..b : j < k => /\ Count(Pushing, j) <= Count(Pushing, k)
                                         /\ j \in Pushing => Count(Pushing, j) < Count(Pushing, k)
  <2>1. j \in Int /\ b + 1 \in Int /\ j <= b + 1 /\ j < b + 1
    BY <1>2
  <2>2. Count(Pushing, j) \in 0..c
    BY <1>2, <1>3, <2>1, CountType
  <2>3. Count(Pushing, b + 1) = c
    BY <1>2, <1>3, CountAll
  <2>4. j \in Pushing => Count(Pushing, j) < Count(Pushing, b + 1)
    BY <1>2, <1>3, <2>1, CountGrows
  <2>5. ASSUME NEW k \in 1..b, j < k
        PROVE  /\ Count(Pushing, j) <= Count(Pushing, k)
               /\ j \in Pushing => Count(Pushing, j) < Count(Pushing, k)
    <3>1. k \in Int /\ j <= k
      BY <2>1, <2>5
    <3> QED BY <1>2, <1>3, <2>1, <2>5, <3>1, CountGrows
  <2> QED BY <2>1, <2>2, <2>3, <2>4, <2>5
<1>9. TypeOK'
  <2>1. bundle' \in Seq(Kind) /\ Len(bundle') = 0
    BY <1>4, EmptySeq
  <2>2. Len(inflight') <= ActiveListSize
    BY <1>0, <1>1, <1>2, <1>4
  <2> QED BY <1>2, <1>3, <1>4, <1>7, <2>1, <2>2, Typing DEF TypeOK
<1>10. Consecutive'
  <2>1. ASSUME NEW i \in 1..(n + b) PROVE Behind(inflight'[i].index, n + b + 0 + 1 - i)
    <3>1. CASE i \in 1..n
      <4>1. Behind(inflight[i].index, n + b + 1 - i)
        BY <1>0, <1>1, <3>1 DEF Allocated, Consecutive
      <4>2. n + b + 1 - i = n + b + 0 + 1 - i
        BY <1>2
      <4> QED BY <1>2, <3>1, <4>1, <4>2
    <3>2. ASSUME NEW j \in 1..b, i = n + j PROVE Behind(inflight'[i].index, n + b + 0 + 1 - i)
      <4>1. Behind(slotIndex[j], b + 1 - j)
        BY <1>1 DEF Allocated, Consecutive
      <4>2. b + 1 - j = n + b + 0 + 1 - i
        BY <1>2, <3>2
      <4> QED BY <1>2, <3>2, <4>1, <4>2
    <3> QED BY <1>2, <3>1, <3>2
  <2>2. Len(bundle') = 0
    BY <1>4
  <2> QED BY <1>2, <1>4, <2>1, <2>2 DEF Consecutive, Behind
<1>11. ASSUME NEW i \in 1..n
       PROVE  (i \in Owners' => i \in Owners) /\ (i \in Pending' => i \in Pending)
  <2>1. inflight[i].index \in PAYIndex /\ inflight'[i] = inflight[i]
    BY <1>0, <1>2, Typing
  <2>2. isVPEligible'[inflight[i].index] => isVPEligible[inflight[i].index]
    <3>1. Counted[inflight[i].index] = isVPEligible[inflight[i].index]
      BY <1>0, CountedFlags DEF Allocated
    <3> QED BY <1>3, <2>1, <3>1
  <2> QED BY <1>0, <2>1, <2>2 DEF Owners, Pending
<1>12. ASSUME NEW j \in 1..b
       PROVE  /\ n + j \in Owners' => j \in Pushing /\ bundle[j] = "value"
              /\ n + j \in Pending' => bundle[j] = "branch"
  <2>1. slotIndex[j] \in PAYIndex /\ j \in 1..Len(bundle)
    BY <1>1, Typing
  <2>2. n + j \in Owners' => isVPEligible'[slotIndex[j]]
    BY <1>2 DEF Owners
  <2>3. Counted[slotIndex[j]] <=> bundle[j] = "value"
    BY <2>1, CountedFlags DEF Allocated
  <2>4. n + j \in Pending' => bundle[j] = "branch"
    BY <1>2 DEF Pending
  <2> QED BY <1>3, <2>1, <2>2, <2>3, <2>4 DEF Pushing
<1>13. ASSUME NEW i \in Live'
       PROVE  \/ i \in 1..n /\ i \in Live /\ (i \in Owners' => i \in Owners)
              \/ \E j \in 1..b : i = n + j
  BY <1>2, <1>11 DEF Owners, Pending
<1>14. ASSUME NEW j \in 1..b, n + j \in Live'
       PROVE  /\ Ordered(vpQueue_Head, inflight'[n + j].VPQTail)
              /\ Ahead(inflight'[n + j].VPQTail) = Ahead(vpQueue_Tail) + Count(Pushing, j)
  BY <1>2, <1>6, <1>8, <1>12, <1>14
<1>15. ASSUME NEW i \in Live, i \in 1..n
       PROVE  /\ Ordered(vpQueue_Head, inflight'[i].VPQTail)
              /\ inflight'[i].VPQTail = inflight[i].VPQTail
              /\ Ahead(inflight[i].VPQTail) \in 0..VPQsize
              /\ Ahead(inflight[i].VPQTail) <= Ahead(vpQueue_Tail)
              /\ i \in Owners => Ahead(inflight[i].VPQTail) < Ahead(vpQueue_Tail)
  <2>1. /\ inflight'[i] = inflight[i] /\ inflight[i].VPQTail \in Pointer(VPQsize)
        /\ Ordered(vpQueue_Head, inflight[i].VPQTail)
        /\ Ahead(inflight[i].VPQTail) <= Ahead(vpQueue_Tail)
        /\ i \in Owners => Ahead(inflight[i].VPQTail) < Ahead(vpQueue_Tail)
    BY <1>0, <1>2, <1>15, Typing DEF Allocated, TailsInside
  <2> QED BY <1>5, <2>1, DistanceType DEF Ahead
<1>16. BranchesPushNothing'
  <2> SUFFICES ASSUME NEW i \in Owners' PROVE inflight'[i].kind # "branch"
    BY DEF BranchesPushNothing
  <2>1. CASE i \in 1..n
    BY <1>2, <1>11, <2>1 DEF Allocated, BranchesPushNothing
  <2>2. ASSUME NEW j \in 1..b, i = n + j PROVE inflight'[i].kind # "branch"
    BY <1>2, <1>12, <2>2
  <2> QED BY <1>13, <2>1, <2>2
<1>17. TailsInside'
  <2> SUFFICES ASSUME NEW i \in Live'
               PROVE  /\ Ordered(vpQueue_Head, inflight'[i].VPQTail)
                      /\ Ahead(inflight'[i].VPQTail) <= Ahead(tail2)
                      /\ i \in Owners' => Ahead(inflight'[i].VPQTail) < Ahead(tail2)
    BY <1>2, <1>4 DEF TailsInside, Ahead
  <2> HIDE DEF tail2, c
  <2>1. CASE i \in 1..n /\ i \in Live /\ (i \in Owners' => i \in Owners)
    BY <1>3, <1>5, <1>7, <1>15, <2>1
  <2>2. ASSUME NEW j \in 1..b, i = n + j
        PROVE  /\ Ordered(vpQueue_Head, inflight'[i].VPQTail)
               /\ Ahead(inflight'[i].VPQTail) <= Ahead(tail2)
               /\ i \in Owners' => Ahead(inflight'[i].VPQTail) < Ahead(tail2)
    BY <1>3, <1>5, <1>7, <1>8, <1>12, <1>14, <2>2
  <2> QED BY <1>13, <2>1, <2>2
<1>18. TailsInOrder'
  <2> SUFFICES ASSUME NEW i \in Live', NEW k \in Live', i < k
               PROVE  /\ Ahead(inflight'[i].VPQTail) <= Ahead(inflight'[k].VPQTail)
                      /\ i \in Owners' => Ahead(inflight'[i].VPQTail) < Ahead(inflight'[k].VPQTail)
    BY <1>4 DEF TailsInOrder, Ahead
  <2> HIDE DEF tail2, c
  <2>1. CASE /\ i \in 1..n /\ i \in Live /\ (i \in Owners' => i \in Owners)
             /\ k \in 1..n /\ k \in Live
    BY <1>15, <2>1 DEF Allocated, TailsInOrder
  <2>2. ASSUME i \in 1..n, i \in Live, i \in Owners' => i \in Owners, NEW m \in 1..b, k = n + m
        PROVE  /\ Ahead(inflight'[i].VPQTail) <= Ahead(inflight'[k].VPQTail)
               /\ i \in Owners' => Ahead(inflight'[i].VPQTail) < Ahead(inflight'[k].VPQTail)
    <3>1. Ahead(inflight'[k].VPQTail) = Ahead(vpQueue_Tail) + Count(Pushing, m) /\ Count(Pushing, m) \in 0..c
      BY <1>8, <1>14, <2>2
    <3>2. /\ Ahead(inflight'[i].VPQTail) \in 0..VPQsize /\ Ahead(inflight'[i].VPQTail) <= Ahead(vpQueue_Tail)
          /\ i \in Owners' => Ahead(inflight'[i].VPQTail) < Ahead(vpQueue_Tail)
      BY <1>15, <2>2
    <3> QED BY <1>3, <1>5, <3>1, <3>2
  <2>3. ASSUME NEW j \in 1..b, i = n + j, k \in 1..n PROVE FALSE
    BY <1>2, <2>3
  <2>4. ASSUME NEW j \in 1..b, i = n + j, NEW m \in 1..b, k = n + m
        PROVE  /\ Ahead(inflight'[i].VPQTail) <= Ahead(inflight'[k].VPQTail)
               /\ i \in Owners' => Ahead(inflight'[i].VPQTail) < Ahead(inflight'[k].VPQTail)
    <3>1. j < m
      BY <1>2, <2>4
    <3>2. /\ Ahead(inflight'[i].VPQTail) = Ahead(vpQueue_Tail) + Count(Pushing, j)
          /\ Ahead(inflight'[k].VPQTail) = Ahead(vpQueue_Tail) + Count(Pushing, m)
          /\ i \in Owners' => j \in Pushing
      BY <1>12, <1>14, <2>4
    <3>3. /\ Count(Pushing, j) \in 0..c /\ Count(Pushing, m) \in 0..c
          /\ Count(Pushing, j) <= Count(Pushing, m)
          /\ j \in Pushing => Count(Pushing, j) < Count(Pushing, m)
      BY <1>8, <3>1
    <3> QED BY <1>3, <1>5, <3>2, <3>3
  <2> QED BY <1>13, <2>1, <2>2, <2>3, <2>4
<1>19. Ordered(vpQueue_Head, vpQueue_Tail)'
  BY <1>2, <1>4, <1>7
<1> QED BY <1>9, <1>10, <1>16, <1>17, <1>18, <1>19 DEF Allocated

-----------------------------------------------------------------------------

\* Every step keeps the invariant.
LEMMA AllocatedStep == TypeOK /\ Allocated /\ [Next]_vars => (TypeOK /\ Allocated)'
<1> SUFFICES ASSUME TypeOK, Allocated, [Next]_vars
             PROVE  TypeOK' /\ Allocated'
  OBVIOUS
<1>1. CASE FetchStops
  BY <1>1, FetchStopsStep
<1>2. ASSUME NEW kinds \in Bundles, Rename1(kinds) PROVE TypeOK' /\ Allocated'
  BY <1>2, Rename1Step
<1>3. CASE Rename2
  BY <1>3, Rename2Step
<1>4. CASE Rename2Stalls
  BY <1>4, Rename2StallsStep
<1>5. ASSUME NEW i \in 1..Len(inflight), ResolveCorrect(i) PROVE TypeOK' /\ Allocated'
  BY <1>5, ResolveCorrectStep
<1>6. ASSUME NEW i \in 1..Len(inflight), Mispredict(i) PROVE TypeOK' /\ Allocated'
  BY <1>6, MispredictStep
<1>7. CASE Retire
  BY <1>7, RetireStep
<1>8. CASE RetireMispredicted \/ SquashComplete
  BY <1>8, SquashStep
<1>9. CASE UNCHANGED vars
  <2>1. TypeOK'
    BY <1>9 DEF vars, TypeOK
  <2>2. Consecutive'
    BY <1>9 DEF vars, Allocated, Consecutive, Behind
  <2>3. Ordered(vpQueue_Head, vpQueue_Tail)' /\ TailsInside' /\ TailsInOrder' /\ BranchesPushNothing'
    BY <1>9, TailsUnchanged DEF vars
  <2> QED BY <2>1, <2>2, <2>3 DEF Allocated
<1> QED BY <1>1, <1>2, <1>3, <1>4, <1>5, <1>6, <1>7, <1>8, <1>9 DEF Next

\* The invariant holds in every reachable state.
LEMMA BundleInvariant == Spec => [](TypeOK /\ Allocated)
<1>1. Init => TypeOK /\ Allocated
  <2>1. ASSUME Init PROVE EmptyPipeline
    <3>1. Origin \in Pointer(VPQsize)
      BY OriginType, RenameBundleAssumption
    <3>2. isVPEligible \in [PAYIndex -> BOOLEAN]
      BY <2>1 DEF Init
    <3> QED BY <2>1, <3>1, <3>2 DEF Init, EmptyPipeline
  <2> QED BY <2>1, EmptyAllocated
<1> QED BY <1>1, AllocatedStep, PTL DEF Spec

\* The types of what the rename stage and the VPQ keep: indexes stay inside PAY, and the two
\* pointers inside the VPQ.
THEOREM TypeCorrect == Spec => []TypeOK
BY BundleInvariant, PTL

\* Under either policy, for bundles, queues and active lists of every size, the VPQ never
\* overflows: each instruction in flight that is flagged eligible has an entry of its own, also
\* after the dropping loop has taken the flags of others that were in flight.
THEOREM NoOverflow == Spec => []EntryOfItsOwn
<1>1. TypeOK /\ Allocated => EntryOfItsOwn
  BY AllocatedIsEntryOfItsOwn
<1> QED BY <1>1, BundleInvariant, PTL
=============================================================================
