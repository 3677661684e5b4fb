---------------------------- MODULE Renamer_proof ----------------------------
(***************************************************************************)
(* Proofs about Renamer, for sizes that agree: its type invariant, that no *)
(* physical register is lost or held twice, that every map is the one      *)
(* program order calls for, that branch masks name the older branches, and *)
(* that the active list is in program order.                               *)
(***************************************************************************)
EXTENDS Renamer, PhaseQueue_proof

-----------------------------------------------------------------------------
(* The inductive invariant *)

\* What the theorems suppose of the sizes.  The tail of the active list wraps around at the size
\* of the free list, and a shift of an int has no bits for more checkpoints than it has bits.
SizesAgree == freeListSize = activeListSize /\ noOfCheckpoint <= IntBits

\* The IDs of branches that a checkpoint can be found for.
CheckpointID == 0..(noOfCheckpoint - 1)

\* How many instructions the active list holds.
Dispatched == Distance(activeList_Head, activeList_Tail, activeListSize)

\* The instructions in the active list are the oldest ones, at consecutive entries.
DispatchedFirst ==
  /\ Ordered(activeList_Head, activeList_Tail)
  /\ Dispatched <= Len(inflight)
  /\ \A i \in 1..Len(inflight) :
       inflight[i].AL_index = IF i <= Dispatched THEN (activeList_Head.idx + i - 1) % activeListSize
                              ELSE NotDispatched

\* Where the free list's head was before the oldest instruction in flight was renamed: the whole
\* size of the list behind its tail.
CommitHead == [idx |-> freeList_Tail.idx, phase |-> 1 - freeList_Tail.phase]

\* Where it was before the i-th one was.
HeadBefore(i) == AdvanceBy(CommitHead, Count(WithDest, i), freeListSize)

\* The free list still holds, behind its head and in program order, the registers it gave to the
\* instructions in flight: the checkpoints roll back to one of them.
FreeListInOrder ==
  /\ Cardinality(WithDest) <= freeListSize
  /\ freeList_Head = HeadBefore(Len(inflight) + 1)
  /\ \A i \in WithDest : inflight[i].destPhys = freeListEntry[HeadBefore(i).idx]
  /\ \A i \in Unresolved(Len(inflight)) :
       branchCheckpointTable[inflight[i].branch_ID].freeListHead = HeadBefore(i + 1)

\* Every register is in an entry of the free list, free or not, or is architectural.
EveryRegisterHeld ==
  {freeListEntry[s] : s \in 0..(freeListSize - 1)} \cup ArchitecturalRegisters = PhysReg

\* What rename2 has left to rename finds a register and a checkpoint wherever it needs one.
EnoughForBundle ==
  /\ Cardinality({k \in 1..Len(RENAME2) : RENAME2[k].dest # NoReg})
       <= freeListSize - Cardinality(WithDest)
  /\ Cardinality({k \in 1..Len(RENAME2) : RENAME2[k].checkpoint}) <= Cardinality(FreeBits)

\* The unresolved branches have an ID each and a checkpoint each, and the masks name the older.
BranchesNamed ==
  /\ \A i \in Unresolved(Len(inflight)) : inflight[i].branch_ID \in CheckpointID
  /\ \A i, j \in Unresolved(Len(inflight)) :
       inflight[i].branch_ID = inflight[j].branch_ID => i = j
  /\ DOMAIN branchCheckpointTable = BranchIDs(Len(inflight))
  /\ Named(GBM) = BranchIDs(Len(inflight))
  /\ \A i \in 1..Len(inflight) : Named(inflight[i].branch_mask) = BranchIDs(i - 1)
  /\ \A i \in Unresolved(Len(inflight)) :
       Named(branchCheckpointTable[inflight[i].branch_ID].gbm) = BranchIDs(i - 1)

\* The inductive invariant of the theorems below.
Renamed ==
  /\ TypeOK
  /\ DispatchedFirst
  /\ FreeListInOrder
  /\ EveryRegisterHeld
  /\ EnoughForBundle
  /\ BranchesNamed
  /\ MapsFollowProgramOrder

\* The sizes the lemmas compute with.
LEMMA Sizes ==
  ASSUME SizesAgree
  PROVE  /\ freeListSize \in Nat \ {0} /\ activeListSize = freeListSize
         /\ logicalRegSize \in Nat \ {0} /\ PRFsize \in Nat /\ PRFsize = logicalRegSize + freeListSize
         /\ noOfCheckpoint \in Nat \ {0} /\ noOfCheckpoint <= IntBits
         /\ IntBits \in Nat \ {0} /\ GBMBits \in Nat /\ IntBits <= GBMBits
BY RenamerAssumption DEF SizesAgree, freeListSize


-----------------------------------------------------------------------------
(* The map after some instructions *)

\* MapAfter of any instructions, on top of any map.
MapOf(A, s, n) ==
  [l \in LogReg |->
    LET writers == {i \in 1..n : s[i].dest = l}
    IN  IF writers = {} THEN A[l]
        ELSE s[CHOOSE i \in writers : \A j \in writers : j <= i].destPhys]

\* The i-th of n instructions is the last to write l.
LastWriter(s, n, l, i) ==
  /\ i \in 1..n
  /\ s[i].dest = l
  /\ \A j \in 1..n : s[j].dest = l => j <= i

\* What the map says of a register that has a last writer, and of one that none wrote.
LEMMA MapOfAt ==
  ASSUME NEW A, NEW s, NEW n \in Nat, NEW l \in LogReg
  PROVE  /\ \A i : LastWriter(s, n, l, i) => MapOf(A, s, n)[l] = s[i].destPhys
         /\ (\A i \in 1..n : s[i].dest # l) => MapOf(A, s, n)[l] = A[l]
<1> DEFINE writers == {i \in 1..n : s[i].dest = l}
           last == CHOOSE i \in writers : \A j \in writers : j <= i
<1>1. MapOf(A, s, n)[l] = IF writers = {} THEN A[l] ELSE s[last].destPhys
  BY DEF MapOf
<1>2. \A i : LastWriter(s, n, l, i) => i = last /\ writers # {}
  <2> SUFFICES ASSUME NEW i, LastWriter(s, n, l, i) PROVE i = last /\ writers # {}
    OBVIOUS
  <2>1. i \in writers /\ \A j \in writers : j <= i
    BY DEF LastWriter
  <2>2. last \in writers /\ \A j \in writers : j <= last
    BY <2>1
  <2>3. i <= last /\ last <= i /\ i \in Int /\ last \in Int
    BY <2>1, <2>2
  <2> QED BY <2>1, <2>3
<1>3. (\A i \in 1..n : s[i].dest # l) => writers = {}
  OBVIOUS
<1> HIDE DEF writers, last
<1> QED BY <1>1, <1>2, <1>3

\* A register that was written has a last writer.
LEMMA LastWriterExists ==
  ASSUME NEW s, NEW n \in Nat, NEW l, NEW i \in 1..n, s[i].dest = l
  PROVE  \E k : LastWriter(s, n, l, k)
<1> DEFINE T == {n - j : j \in {k \in 1..n : s[k].dest = l}}
<1>1. T \subseteq Nat /\ T # {}
  OBVIOUS
<1>2. PICK x \in T : \A y \in T : x <= y
  BY <1>1, LeastNat
<1>3. PICK k \in 1..n : x = n - k /\ s[k].dest = l
  BY <1>2
<1>4. \A j \in 1..n : s[j].dest = l => j <= k
  <2> SUFFICES ASSUME NEW j \in 1..n, s[j].dest = l PROVE j <= k
    OBVIOUS
  <2>1. n - j \in T
    OBVIOUS
  <2> HIDE DEF T
  <2>2. n - k <= n - j
    BY <1>2, <1>3, <2>1
  <2> QED BY <2>2
<1> QED BY <1>3, <1>4 DEF LastWriter

\* Instructions that agree on their destinations make the same map.
LEMMA MapOfSame ==
  ASSUME NEW A, NEW s, NEW t, NEW n \in Nat,
         \A i \in 1..n : t[i].dest = s[i].dest /\ t[i].destPhys = s[i].destPhys
  PROVE  MapOf(A, t, n) = MapOf(A, s, n)
<1> SUFFICES ASSUME NEW l \in LogReg PROVE MapOf(A, t, n)[l] = MapOf(A, s, n)[l]
  BY DEF MapOf
<1>1. CASE \A i \in 1..n : s[i].dest # l
  BY <1>1, MapOfAt
<1>2. CASE \E i \in 1..n : s[i].dest = l
  <2>1. PICK i : LastWriter(s, n, l, i)
    BY <1>2, LastWriterExists
  <2>2. LastWriter(t, n, l, i) /\ t[i].destPhys = s[i].destPhys
    BY <2>1 DEF LastWriter
  <2> QED BY <2>1, <2>2, MapOfAt
<1> QED BY <1>1, <1>2

\* After no instruction the map is the one it started as.
LEMMA MapOfNone ==
  ASSUME NEW S, NEW A \in [LogReg -> S], NEW s
  PROVE  MapOf(A, s, 0) = A
<1>1. \A l \in LogReg : MapOf(A, s, 0)[l] = A[l]
  <2> SUFFICES ASSUME NEW l \in LogReg PROVE MapOf(A, s, 0)[l] = A[l]
    OBVIOUS
  <2>1. 1..0 = {} /\ 0 \in Nat
    OBVIOUS
  <2> QED BY <2>1, MapOfAt
<1>2. MapOf(A, s, 0) = [l \in LogReg |-> MapOf(A, s, 0)[l]]
  BY DEF MapOf
<1> QED BY <1>1, <1>2

\* An instruction changes the map at its destination, if it has one.
LEMMA MapOfNext ==
  ASSUME NEW A, NEW s, NEW n \in Nat \ {0}, s[n].dest \in LogReg \cup {NoReg}
  PROVE  MapOf(A, s, n) = IF s[n].dest = NoReg THEN MapOf(A, s, n - 1)
                          ELSE [MapOf(A, s, n - 1) EXCEPT ![s[n].dest] = s[n].destPhys]
<1>0. NoReg \notin LogReg
  BY DEF NoReg, LogReg
<1>1. ASSUME NEW l \in LogReg, l # s[n].dest
      PROVE  MapOf(A, s, n)[l] = MapOf(A, s, n - 1)[l]
  <2>1. CASE \A i \in 1..n : s[i].dest # l
    <3>1. (\A i \in 1..(n - 1) : s[i].dest # l) /\ n - 1 \in Nat
      BY <2>1
    <3> QED BY <2>1, <3>1, MapOfAt
  <2>2. CASE \E i \in 1..n : s[i].dest = l
    <3>1. PICK i : LastWriter(s, n, l, i)
      BY <2>2, LastWriterExists
    <3>2. LastWriter(s, n - 1, l, i) /\ n - 1 \in Nat
      BY <1>1, <3>1 DEF LastWriter
    <3> QED BY <3>1, <3>2, MapOfAt
  <2> QED BY <2>1, <2>2
<1>2. ASSUME s[n].dest \in LogReg
      PROVE  MapOf(A, s, n)[s[n].dest] = s[n].destPhys
  <2>1. LastWriter(s, n, s[n].dest, n)
    BY DEF LastWriter
  <2> QED BY <1>2, <2>1, MapOfAt
<1>3. /\ MapOf(A, s, n) = [l \in LogReg |-> MapOf(A, s, n)[l]]
      /\ MapOf(A, s, n - 1) = [l \in LogReg |-> MapOf(A, s, n - 1)[l]]
  BY DEF MapOf
<1> DEFINE before == MapOf(A, s, n - 1)
           after == MapOf(A, s, n)
<1> HIDE DEF before, after
<1>4. CASE s[n].dest = NoReg
  <2>1. \A l \in LogReg : after[l] = before[l]
    BY <1>0, <1>1, <1>4 DEF before, after
  <2> QED BY <1>3, <1>4, <2>1 DEF before, after
<1>5. CASE s[n].dest \in LogReg
  <2>1. \A l \in LogReg : after[l] = IF l = s[n].dest THEN s[n].destPhys ELSE before[l]
    BY <1>1, <1>2, <1>5 DEF before, after
  <2>2. after = [l \in LogReg |-> after[l]] /\ before = [l \in LogReg |-> before[l]]
    BY <1>3 DEF before, after
  <2>3. after = [before EXCEPT ![s[n].dest] = s[n].destPhys]
    BY <1>5, <2>1, <2>2
  <2> QED BY <1>0, <1>5, <2>3 DEF before, after
<1> QED BY <1>4, <1>5

\* The map the oldest instruction commits to.
Committed(A, w) == IF w.dest = NoReg THEN A ELSE [A EXCEPT ![w.dest] = w.destPhys]

\* The others make, on top of the map the oldest one commits to, the map that all make.
LEMMA MapOfRest ==
  ASSUME NEW S, NEW A \in [LogReg -> S], NEW s, NEW t, NEW n \in Nat \ {0},
         \A i \in 1..(n - 1) : t[i] = s[i + 1],
         s[1].dest \in LogReg \cup {NoReg}
  PROVE  MapOf(Committed(A, s[1]), t, n - 1) = MapOf(A, s, n)
<1> DEFINE B == Committed(A, s[1])
<1>0. NoReg \notin LogReg
  BY DEF NoReg, LogReg
<1>1. \A l \in LogReg : B[l] = IF l = s[1].dest THEN s[1].destPhys ELSE A[l]
  BY <1>0 DEF Committed
<1> HIDE DEF B
<1> SUFFICES ASSUME NEW l \in LogReg PROVE MapOf(B, t, n - 1)[l] = MapOf(A, s, n)[l]
  BY DEF MapOf, B
<1>2. CASE \E i \in 1..(n - 1) : t[i].dest = l
  <2>1. PICK i : LastWriter(t, n - 1, l, i)
    BY <1>2, LastWriterExists
  <2>2. i \in 1..(n - 1) /\ t[i].dest = l /\ \A j \in 1..(n - 1) : t[j].dest = l => j <= i
    BY <2>1 DEF LastWriter
  <2>3. LastWriter(s, n, l, i + 1)
    <3>1. ASSUME NEW j \in 1..n, s[j].dest = l PROVE j <= i + 1
      <4>1. CASE j = 1
        BY <2>2, <4>1
      <4>2. CASE j # 1
        <5>1. j - 1 \in 1..(n - 1) /\ t[j - 1] = s[j]
          BY <4>2
        <5> QED BY <2>2, <3>1, <5>1
      <4> QED BY <4>1, <4>2
    <3>2. i + 1 \in 1..n /\ s[i + 1].dest = l
      BY <2>2
    <3> QED BY <3>1, <3>2 DEF LastWriter
  <2> QED BY <2>1, <2>2, <2>3, MapOfAt
<1>3. CASE \A i \in 1..(n - 1) : t[i].dest # l
  <2>1. \A j \in 1..n : s[j].dest = l => j = 1
    <3> SUFFICES ASSUME NEW j \in 1..n, s[j].dest = l, j # 1 PROVE FALSE
      OBVIOUS
    <3>1. j - 1 \in 1..(n - 1) /\ t[j - 1] = s[j]
      OBVIOUS
    <3> QED BY <1>3, <3>1
  <2>2. MapOf(B, t, n - 1)[l] = B[l]
    BY <1>3, MapOfAt
  <2>3. CASE s[1].dest = l
    <3>1. LastWriter(s, n, l, 1)
      BY <2>1, <2>3 DEF LastWriter
    <3> QED BY <1>1, <2>2, <2>3, <3>1, MapOfAt
  <2>4. CASE s[1].dest # l
    <3>1. \A j \in 1..n : s[j].dest # l
      BY <2>1, <2>4
    <3> QED BY <1>1, <2>2, <2>4, <3>1, MapOfAt
  <2> QED BY <2>3, <2>4
<1> QED BY <1>2, <1>3

-----------------------------------------------------------------------------
(* What the actions do to the instructions in flight *)

\* An unresolved branch.
Open(w) == w.checkpoint /\ ~w.resolved

\* The unresolved branches among the first n instructions.
LEMMA OpenOnes ==
  ASSUME NEW n
  PROVE  Unresolved(n) = {i \in 1..n : Open(inflight[i])}
BY Zenon DEF Unresolved, Open

\* The instructions in flight, their payload, and the types of its fields.
LEMMA InflightType ==
  ASSUME TypeOK
  PROVE  /\ Len(inflight) \in Nat
         /\ DOMAIN inflight = 1..Len(inflight)
         /\ \A i \in 1..Len(inflight) :
              /\ inflight[i] \in Payload
              /\ inflight[i].src \in LogReg
              /\ inflight[i].dest \in LogReg \cup {NoReg}
              /\ inflight[i].destPhys \in PhysReg
              /\ inflight[i].branch_mask \in SUBSET Bit
              /\ inflight[i].branch_ID \in CheckpointID \cup {NoCheckpoint}
<1>1. inflight \in Seq(Payload)
  BY DEF TypeOK
<1>2. Len(inflight) \in Nat /\ DOMAIN inflight = 1..Len(inflight)
  BY <1>1
<1>3. \A i \in 1..Len(inflight) : inflight[i] \in Payload
  BY <1>1
<1>4. \A w \in Payload : /\ w.src \in LogReg /\ w.dest \in LogReg \cup {NoReg}
                         /\ w.destPhys \in PhysReg /\ w.branch_mask \in SUBSET Bit
                         /\ w.branch_ID \in CheckpointID \cup {NoCheckpoint}
  BY DEF Payload, CheckpointID
<1> QED BY <1>2, <1>3, <1>4

\* Which of the instructions are dispatched, and how many are not.
LEMMA DispatchedOnes ==
  ASSUME SizesAgree, TypeOK, DispatchedFirst
  PROVE  /\ Dispatched \in 0..activeListSize /\ Dispatched <= Len(inflight)
         /\ \A i \in 1..Len(inflight) : inflight[i].AL_index # NotDispatched <=> i <= Dispatched
         /\ Undispatched = (Dispatched + 1)..Len(inflight)
         /\ Cardinality(Undispatched) = Len(inflight) - Dispatched
<1> DEFINE D == Dispatched
           n == Len(inflight)
<1>1. /\ activeList_Head \in Pointer(activeListSize) /\ activeList_Tail \in Pointer(activeListSize)
      /\ activeListSize \in Nat \ {0} /\ Ordered(activeList_Head, activeList_Tail)
  BY Sizes DEF TypeOK, DispatchedFirst
<1>2. D \in 0..activeListSize
  BY <1>1, DistanceType DEF Dispatched
<1>3. n \in Nat /\ D <= n
  BY InflightType DEF DispatchedFirst
<1>4. \A i \in 1..n : inflight[i].AL_index = IF i <= D THEN (activeList_Head.idx + i - 1) % activeListSize
                                             ELSE NotDispatched
  BY DEF DispatchedFirst
<1>5. activeList_Head.idx \in Nat
  BY <1>1 DEF Pointer
<1> HIDE DEF D, n
<1>6. \A i \in 1..n : inflight[i].AL_index # NotDispatched <=> i <= D
  <2> SUFFICES ASSUME NEW i \in 1..n PROVE inflight[i].AL_index # NotDispatched <=> i <= D
    OBVIOUS
  <2>1. PICK x \in Nat : x = activeList_Head.idx + i - 1
    BY <1>5
  <2>2. x % activeListSize \in Nat
    BY <1>1, <2>1
  <2> QED BY <1>4, <2>1, <2>2 DEF NotDispatched
<1>7. Undispatched = (D + 1)..n
  <2>1. Undispatched = {i \in 1..n : inflight[i].AL_index = NotDispatched}
    BY DEF Undispatched, n
  <2> QED BY <1>2, <1>3, <1>6, <2>1
<1>8. Cardinality((D + 1)..n) = n - D
  <2>1. PICK a \in Int : a = D + 1
    BY <1>2
  <2>2. PICK b \in Int : b = n
    BY <1>3
  <2>3. Cardinality(a..b) = IF a > b THEN 0 ELSE b - a + 1
    BY FS_Interval
  <2> QED BY <1>2, <1>3, <2>1, <2>2, <2>3
<1> QED BY <1>2, <1>3, <1>6, <1>7, <1>8 DEF D, n

\* What is renamed is appended.
LEMMA RenamedShape ==
  ASSUME TypeOK, RenameNext, TypeOK',
         NEW w, inflight' = Append(inflight, w)
  PROVE  /\ Len(inflight') = Len(inflight) + 1
         /\ \A j \in 1..Len(inflight) : inflight'[j] = inflight[j]
         /\ inflight'[Len(inflight) + 1] = w
<1>1. inflight \in Seq(Payload) /\ inflight' \in Seq(Payload)
  BY DEF TypeOK
<1> QED BY <1>1

\* Dispatch changes active list indexes, a correct resolution branch masks and the branch.
LEMMA DispatchShape ==
  ASSUME TypeOK, Dispatch
  PROVE  /\ Len(inflight') = Len(inflight)
         /\ \A j \in 1..Len(inflight) :
              /\ inflight'[j].src = inflight[j].src /\ inflight'[j].srcPhys = inflight[j].srcPhys
              /\ inflight'[j].dest = inflight[j].dest
              /\ inflight'[j].destPhys = inflight[j].destPhys
              /\ inflight'[j].branch_mask = inflight[j].branch_mask
              /\ inflight'[j].branch_ID = inflight[j].branch_ID
              /\ Open(inflight'[j]) <=> Open(inflight[j])
<1>1. DOMAIN inflight = 1..Len(inflight) /\ Len(inflight) \in Nat
  BY InflightType
<1>2. PICK first : inflight' = [i \in DOMAIN inflight |->
           IF i < first THEN inflight[i]
           ELSE [inflight[i] EXCEPT !.AL_index = advanceActiveListTail(i - first).idx]]
  BY DEF Dispatch
<1>3. Len(inflight') = Len(inflight)
  BY <1>1, <1>2
<1>4. \A i \in 1..Len(inflight) : inflight[i] \in Payload
  BY InflightType
<1> SUFFICES ASSUME NEW j \in 1..Len(inflight)
             PROVE  /\ inflight'[j].src = inflight[j].src /\ inflight'[j].srcPhys = inflight[j].srcPhys
                    /\ inflight'[j].dest = inflight[j].dest
                    /\ inflight'[j].destPhys = inflight[j].destPhys
                    /\ inflight'[j].branch_mask = inflight[j].branch_mask
                    /\ inflight'[j].branch_ID = inflight[j].branch_ID
                    /\ Open(inflight'[j]) <=> Open(inflight[j])
  BY <1>3
<1>5. PICK w, x : /\ w = inflight[j] /\ w \in Payload
                  /\ inflight'[j] = w \/ inflight'[j] = [w EXCEPT !.AL_index = x]
  BY <1>1, <1>2, <1>4
<1>6. LET u == [w EXCEPT !.AL_index = x]
      IN  /\ u.src = w.src /\ u.srcPhys = w.srcPhys /\ u.dest = w.dest /\ u.destPhys = w.destPhys
          /\ u.branch_mask = w.branch_mask /\ u.branch_ID = w.branch_ID
          /\ u.checkpoint = w.checkpoint /\ u.resolved = w.resolved
  BY <1>5 DEF Payload
<1>7. Open([w EXCEPT !.AL_index = x]) <=> Open(w)
  BY <1>6, Zenon DEF Open
<1> QED BY <1>5, <1>6, <1>7

\* A correct resolution (Renamer::resolve) only marks the branch and clears its bit in the masks.
LEMMA ResolveCorrectShape ==
  ASSUME TypeOK, NEW i \in 1..Len(inflight), ResolveCorrect(i)
  PROVE  /\ Len(inflight') = Len(inflight)
         /\ \A j \in 1..Len(inflight) :
              /\ inflight'[j].src = inflight[j].src /\ inflight'[j].srcPhys = inflight[j].srcPhys
              /\ inflight'[j].dest = inflight[j].dest
              /\ inflight'[j].destPhys = inflight[j].destPhys
              /\ inflight'[j].AL_index = inflight[j].AL_index
              /\ inflight'[j].branch_mask = inflight[j].branch_mask \ {inflight[i].branch_ID}
              /\ inflight'[j].branch_ID = inflight[j].branch_ID
              /\ Open(inflight'[j]) <=> Open(inflight[j]) /\ j # i
<1>1. DOMAIN inflight = 1..Len(inflight) /\ Len(inflight) \in Nat
  BY InflightType
<1>2. inflight' = [j \in DOMAIN inflight |->
                   [inflight[j] EXCEPT !.branch_mask = @ \ {inflight[i].branch_ID},
                                       !.resolved = @ \/ j = i]]
  BY DEF ResolveCorrect
<1>3. Len(inflight') = Len(inflight)
  <2>1. DOMAIN inflight' = 1..Len(inflight)
    BY <1>1, <1>2
  <2>2. inflight' = [j \in 1..Len(inflight) |-> inflight'[j]]
    BY <1>1, <1>2
  <2>3. inflight' \in [1..Len(inflight) -> {inflight'[j] : j \in 1..Len(inflight)}]
    BY <2>2
  <2> QED BY <1>1, <2>3, FunctionIsSequence
<1>4. \A j \in 1..Len(inflight) : inflight[j] \in Payload
  BY InflightType
<1> SUFFICES ASSUME NEW j \in 1..Len(inflight)
             PROVE  /\ inflight'[j].src = inflight[j].src /\ inflight'[j].srcPhys = inflight[j].srcPhys
                    /\ inflight'[j].dest = inflight[j].dest
                    /\ inflight'[j].destPhys = inflight[j].destPhys
                    /\ inflight'[j].AL_index = inflight[j].AL_index
                    /\ inflight'[j].branch_mask = inflight[j].branch_mask \ {inflight[i].branch_ID}
                    /\ inflight'[j].branch_ID = inflight[j].branch_ID
                    /\ Open(inflight'[j]) <=> Open(inflight[j]) /\ j # i
  BY <1>3
<1>5. PICK w, b, r : /\ w = inflight[j] /\ w \in Payload /\ b = inflight[i].branch_ID
                     /\ r = (w.resolved \/ j = i)
                     /\ inflight'[j] = [w EXCEPT !.branch_mask = @ \ {b}, !.resolved = r]
  <2>1. inflight'[j] = [inflight[j] EXCEPT !.branch_mask = @ \ {inflight[i].branch_ID},
                                           !.resolved = @ \/ j = i]
    BY <1>1, <1>2, Zenon
  <2>2. inflight'[j] = [inflight[j] EXCEPT !.branch_mask = @ \ {inflight[i].branch_ID},
                                           !.resolved = (inflight[j].resolved \/ j = i)]
    BY <2>1, <1>4 DEF Payload
  <2> QED BY <1>4, <2>2, Zenon
<1>6. LET u == [w EXCEPT !.branch_mask = @ \ {b}, !.resolved = r]
      IN  /\ u.src = w.src /\ u.srcPhys = w.srcPhys /\ u.dest = w.dest /\ u.destPhys = w.destPhys
          /\ u.AL_index = w.AL_index
          /\ u.branch_mask = w.branch_mask \ {b} /\ u.branch_ID = w.branch_ID
          /\ u.checkpoint = w.checkpoint /\ u.resolved = r
  BY <1>5 DEF Payload
<1>7. Open(inflight'[j]) <=> Open(w) /\ j # i
  BY <1>5, <1>6, Zenon DEF Open
<1> QED BY <1>5, <1>6, <1>7

\* The ID of an unresolved branch is among the older ones' of the instructions behind it.
LEMMA OlderBranches ==
  ASSUME TypeOK, BranchesNamed, NEW i \in Unresolved(Len(inflight)),
         NEW k \in 0..Len(inflight)
  PROVE  inflight[i].branch_ID \in BranchIDs(k) <=> i <= k
<1> DEFINE n == Len(inflight)
<1>1. n \in Nat
  BY InflightType
<1>2. \A m : \A j : j \in Unresolved(m) <=> j \in 1..m /\ Open(inflight[j])
  BY OpenOnes
<1>3. i \in 1..n /\ Open(inflight[i])
  BY <1>2
<1>4. \A j \in Unresolved(n) : inflight[i].branch_ID = inflight[j].branch_ID => i = j
  BY DEF BranchesNamed
<1>5. BranchIDs(k) = {inflight[j].branch_ID : j \in Unresolved(k)}
  BY DEF BranchIDs
<1> HIDE DEF n
<1>6. ASSUME inflight[i].branch_ID \in BranchIDs(k) PROVE i <= k
  <2>1. PICK j \in Unresolved(k) : inflight[j].branch_ID = inflight[i].branch_ID
    BY <1>5, <1>6
  <2>2. j \in 1..k /\ Open(inflight[j])
    BY <1>2, <2>1
  <2>3. j \in 1..n
    BY <1>1, <2>2 DEF n
  <2>4. j \in Unresolved(n)
    BY <1>2, <2>2, <2>3
  <2>5. i = j
    BY <1>4, <2>1, <2>4
  <2> QED BY <2>2, <2>5
<1>7. ASSUME i <= k PROVE inflight[i].branch_ID \in BranchIDs(k)
  <2>1. i \in 1..k
    BY <1>1, <1>3, <1>7 DEF n
  <2>2. i \in Unresolved(k)
    BY <1>2, <1>3, <2>1
  <2> QED BY <1>5, <2>2
<1> QED BY <1>6, <1>7

\* A branch that resolves is in the active list and has an ID.
LEMMA ResolvableOnes ==
  ASSUME SizesAgree, TypeOK, DispatchedFirst, BranchesNamed,
         NEW i \in 1..Len(inflight), Resolvable(i)
  PROVE  /\ i \in Unresolved(Len(inflight)) /\ Open(inflight[i])
         /\ i <= Dispatched
         /\ inflight[i].branch_ID \in CheckpointID
         /\ inflight[i].branch_ID \in DOMAIN branchCheckpointTable
<1>1. Open(inflight[i])
  BY Zenon DEF Resolvable, Open
<1>2. i \in Unresolved(Len(inflight))
  BY <1>1, OpenOnes
<1>3. i <= Dispatched
  BY DispatchedOnes DEF Resolvable
<1>4. inflight[i].branch_ID \in CheckpointID
  BY <1>2 DEF BranchesNamed
<1>5. inflight[i].branch_ID \in BranchIDs(Len(inflight))
  BY <1>2 DEF BranchIDs
<1>6. inflight[i].branch_ID \in DOMAIN branchCheckpointTable
  BY <1>5 DEF BranchesNamed
<1> QED BY <1>1, <1>2, <1>3, <1>4, <1>6

\* How many of the first i numbers there are, and which of them has k - 1 before it.
LEMMA FirstOnes ==
  ASSUME NEW i \in Nat
  PROVE  /\ Cardinality(1..i) = i
         /\ \A k \in 1..i : (CHOOSE j \in 1..i : Cardinality({x \in 1..i : x < j}) = k - 1) = k
<1>1. Cardinality(1..i) = i
  <2>1. 1 \in Int /\ i \in Int
    OBVIOUS
  <2>2. Cardinality(1..i) = IF 1 > i THEN 0 ELSE i - 1 + 1
    BY <2>1, FS_Interval
  <2> QED BY <2>2
<1>2. \A j \in 1..i : Cardinality({x \in 1..i : x < j}) = j - 1
  <2> SUFFICES ASSUME NEW j \in 1..i PROVE Cardinality({x \in 1..i : x < j}) = j - 1
    OBVIOUS
  <2>1. PICK a \in Int : a = j - 1
    OBVIOUS
  <2>2. {x \in 1..i : x < j} = 1..a
    BY <2>1
  <2>3. 1 \in Int /\ Cardinality(1..a) = IF 1 > a THEN 0 ELSE a - 1 + 1
    BY FS_Interval
  <2>4. Cardinality(1..a) = j - 1
    BY <2>1, <2>3
  <2> QED BY <2>2, <2>4, Zenon
<1>3. ASSUME NEW k \in 1..i
      PROVE  (CHOOSE j \in 1..i : Cardinality({x \in 1..i : x < j}) = k - 1) = k
  <2> DEFINE P(j) == Cardinality({x \in 1..i : x < j}) = k - 1
             c == CHOOSE j \in 1..i : P(j)
  <2>1. P(k)
    BY <1>2
  <2>2. \A j \in 1..i : P(j) => j - 1 = k - 1
    BY <1>2
  <2> HIDE DEF P
  <2>3. c \in 1..i /\ P(c)
    BY <2>1
  <2> HIDE DEF c
  <2>4. c = k
    BY <2>2, <2>3
  <2> QED BY <2>4 DEF c, P
<1> QED BY <1>1, <1>3

\* The elements of a sequence at some places, in order.
AtPlaces(s, kept) ==
  [k \in 1..Cardinality(kept) |-> s[CHOOSE j \in kept : Cardinality({x \in kept : x < j}) = k - 1]]

\* What is left of a sequence when the first i places are kept.
LEMMA AtFirstPlaces ==
  ASSUME NEW s, NEW i \in Nat
  PROVE  AtPlaces(s, 1..i) = [k \in 1..i |-> s[k]]
<1> DEFINE nth(k) == CHOOSE j \in 1..i : Cardinality({x \in 1..i : x < j}) = k - 1
<1>1. AtPlaces(s, 1..i) = [k \in 1..Cardinality(1..i) |-> s[nth(k)]]
  BY DEF AtPlaces
<1>2. Cardinality(1..i) = i /\ \A k \in 1..i : nth(k) = k
  BY FirstOnes
<1> HIDE DEF nth
<1> QED BY <1>1, <1>2

\* Only the oldest entry is at the head.
LEMMA OnlyFirstAtHead ==
  ASSUME NEW N \in Nat \ {0}, NEW h \in 0..(N - 1), NEW i \in 1..N, h = (h + i - 1) % N
  PROVE  i = 1
<1>1. PICK x \in 0..(2 * N - 1) : x = h + i - 1
  OBVIOUS
<1>2. x % N = IF x < N THEN x ELSE x - N
  BY ModOnce
<1> QED BY <1>1, <1>2

\* The instructions a misprediction leaves are those up to the branch.
LEMMA SurvivorsAreOlder ==
  ASSUME SizesAgree, TypeOK, DispatchedFirst, BranchesNamed,
         NEW i \in 1..Len(inflight), Resolvable(i)
  PROVE  Survivors(inflight[i].branch_ID) = [k \in 1..i |-> inflight[k]]
<1> DEFINE b == inflight[i].branch_ID
           n == Len(inflight)
           kept == {j \in 1..n : inflight[j].AL_index # NotDispatched
                                 /\ b \notin inflight[j].branch_mask}
<1>1. n \in Nat /\ Dispatched \in Nat /\ Dispatched <= n /\ i \in 1..n /\ i <= Dispatched
      /\ i \in Unresolved(n) /\ b \in CheckpointID
  BY InflightType, DispatchedOnes, ResolvableOnes
<1>2. \A j \in 1..n : inflight[j].AL_index # NotDispatched <=> j <= Dispatched
  BY DispatchedOnes
<1>3. \A j \in 1..n : b \in inflight[j].branch_mask <=> i < j
  <2> SUFFICES ASSUME NEW j \in 1..n PROVE b \in inflight[j].branch_mask <=> i < j
    OBVIOUS
  <2>1. Named(inflight[j].branch_mask) = BranchIDs(j - 1)
    BY DEF BranchesNamed
  <2>2. b \in inflight[j].branch_mask <=> b \in BranchIDs(j - 1)
    BY <1>1, <2>1 DEF Named, CheckpointID
  <2>3. PICK k \in 0..n : k = j - 1
    BY <1>1
  <2>4. b \in BranchIDs(k) <=> i <= k
    BY <1>1, OlderBranches
  <2>5. i <= k <=> i < j
    BY <1>1, <2>3
  <2> QED BY <2>2, <2>3, <2>4, <2>5
<1>4. Survivors(b) = AtPlaces(inflight, kept)
  BY DEF Survivors, AtPlaces
<1> HIDE DEF b, n
<1>5. kept = 1..i
  BY <1>1, <1>2, <1>3
<1> HIDE DEF kept
<1>6. i \in Nat
  BY <1>1
<1> QED BY <1>4, <1>5, <1>6, AtFirstPlaces DEF b

\* A misprediction leaves the instructions up to the branch, its bit cleared in their masks.
LEMMA MispredictShape ==
  ASSUME SizesAgree, TypeOK, DispatchedFirst, BranchesNamed,
         NEW i \in 1..Len(inflight), Mispredict(i)
  PROVE  /\ Len(inflight') = i
         /\ inflight' \in Seq(Payload)
         /\ \A j \in 1..i :
              /\ inflight'[j].src = inflight[j].src /\ inflight'[j].srcPhys = inflight[j].srcPhys
              /\ inflight'[j].dest = inflight[j].dest
              /\ inflight'[j].destPhys = inflight[j].destPhys
              /\ inflight'[j].AL_index = inflight[j].AL_index
              /\ inflight'[j].branch_mask = inflight[j].branch_mask
              /\ inflight'[j].branch_ID = inflight[j].branch_ID
              /\ Open(inflight'[j]) <=> Open(inflight[j]) /\ j # i
<1>1. DOMAIN inflight = 1..Len(inflight) /\ Len(inflight) \in Nat
      /\ \A j \in 1..Len(inflight) : inflight[j] \in Payload
  BY InflightType
<1>2. Resolvable(i)
  BY DEF Mispredict
<1>3. inflight' = [[k \in 1..i |-> inflight[k]] EXCEPT ![i].resolved = TRUE]
  BY <1>2, SurvivorsAreOlder DEF Mispredict
<1>4. DOMAIN inflight' = 1..i /\ inflight' = [j \in 1..i |-> inflight'[j]]
  BY <1>3
<1>5. \A j \in 1..i : inflight'[j] = IF j = i THEN [inflight[j] EXCEPT !.resolved = TRUE] ELSE inflight[j]
  BY <1>3
<1>6. \A j \in 1..i : inflight[j] \in Payload /\ inflight'[j] \in Payload
  <2> SUFFICES ASSUME NEW j \in 1..i PROVE inflight[j] \in Payload /\ inflight'[j] \in Payload
    OBVIOUS
  <2>1. inflight[j] \in Payload
    BY <1>1
  <2>2. [inflight[j] EXCEPT !.resolved = TRUE] \in Payload
    BY <2>1 DEF Payload
  <2> QED BY <1>5, <2>1, <2>2
<1>7. inflight' \in [1..i -> Payload]
  BY <1>4, <1>6
<1>8. Len(inflight') = i /\ inflight' \in Seq(Payload)
  BY <1>7, FunctionIsSequence
<1> SUFFICES ASSUME NEW j \in 1..i
             PROVE  /\ inflight'[j].src = inflight[j].src /\ inflight'[j].srcPhys = inflight[j].srcPhys
                    /\ inflight'[j].dest = inflight[j].dest
                    /\ inflight'[j].destPhys = inflight[j].destPhys
                    /\ inflight'[j].AL_index = inflight[j].AL_index
                    /\ inflight'[j].branch_mask = inflight[j].branch_mask
                    /\ inflight'[j].branch_ID = inflight[j].branch_ID
                    /\ Open(inflight'[j]) <=> Open(inflight[j]) /\ j # i
  BY <1>8
<1>9. PICK w \in Payload : w = inflight[j]
  BY <1>6
<1>10. LET u == [w EXCEPT !.resolved = TRUE]
       IN  /\ u.src = w.src /\ u.srcPhys = w.srcPhys /\ u.dest = w.dest /\ u.destPhys = w.destPhys
           /\ u.AL_index = w.AL_index
           /\ u.branch_mask = w.branch_mask /\ u.branch_ID = w.branch_ID
           /\ u.resolved = TRUE
  BY <1>9 DEF Payload
<1>11. ~Open([w EXCEPT !.resolved = TRUE])
  BY <1>10, Zenon DEF Open
<1> QED BY <1>5, <1>9, <1>10, <1>11

\* The instruction that retires is the oldest; the others move up by one.
LEMMA RetiresOldest ==
  ASSUME SizesAgree, TypeOK, DispatchedFirst, NEW i \in 1..Len(inflight), AtHead(i)
  PROVE  i = 1 /\ Dispatched > 0
<1>1. /\ activeList_Head \in Pointer(activeListSize) /\ activeList_Tail \in Pointer(activeListSize)
      /\ activeListSize \in Nat \ {0} /\ Ordered(activeList_Head, activeList_Tail)
  BY Sizes DEF TypeOK, DispatchedFirst
<1>2. Dispatched > 0 /\ Dispatched \in 0..activeListSize
  BY <1>1, DispatchedOnes DEF Dispatched, Distance, Pointer, Ordered, AtHead, IsEmpty
<1>3. activeList_Head.idx \in 0..(activeListSize - 1)
  BY <1>1 DEF Pointer
<1>4. inflight[i].AL_index = activeList_Head.idx
  BY DEF AtHead
<1>5. inflight[i].AL_index # NotDispatched
  BY <1>3, <1>4 DEF NotDispatched
<1>6. i <= Dispatched /\ i \in Nat
  BY <1>5, DispatchedOnes, InflightType
<1>7. activeList_Head.idx = (activeList_Head.idx + i - 1) % activeListSize
  BY <1>4, <1>6 DEF DispatchedFirst
<1>8. PICK h \in 0..(activeListSize - 1) : h = activeList_Head.idx
  BY <1>3
<1>9. i \in 1..activeListSize
  BY <1>1, <1>2, <1>6, DispatchedOnes
<1>10. i = 1
  BY <1>1, <1>7, <1>8, <1>9, OnlyFirstAtHead
<1> QED BY <1>2, <1>10

\* Only the oldest instruction commits, and no unresolved branch does.
LEMMA CommitShape ==
  ASSUME SizesAgree, TypeOK, DispatchedFirst, NEW i \in 1..Len(inflight), Commit(i)
  PROVE  /\ i = 1
         /\ inflight' = Tail(inflight)
         /\ inflight' \in Seq(Payload)
         /\ Len(inflight') = Len(inflight) - 1
         /\ \A j \in 1..(Len(inflight) - 1) : inflight'[j] = inflight[j + 1]
         /\ ~Open(inflight[1])
<1>1. i = 1
  BY RetiresOldest DEF Commit
<1>2. inflight \in Seq(Payload) /\ Len(inflight) > 0
  BY InflightType DEF TypeOK
<1>3. inflight' = SubSeq(inflight, 1, 0) \o SubSeq(inflight, 2, Len(inflight))
  BY <1>1 DEF Commit, RemoveAt
<1>4. SubSeq(inflight, 1, 0) = <<>>
  BY <1>2
<1>5. SubSeq(inflight, 2, Len(inflight)) = Tail(inflight)
  BY <1>2
<1>6. inflight' = Tail(inflight)
  BY <1>2, <1>3, <1>4, <1>5
<1>7. ~Open(inflight[1])
  BY <1>1, Zenon DEF Commit, AtHead, Open
<1> QED BY <1>1, <1>2, <1>6, <1>7

-----------------------------------------------------------------------------
(* What renaming an instruction does *)

\* An ID's bit is in the mask that is made of it, and no other ID's is.
LEMMA ShiftedBit ==
  ASSUME SizesAgree, NEW b \in CheckpointID
  PROVE  OneShifted(b) \subseteq Bit /\ Named(OneShifted(b)) = {b}
<1>1. /\ noOfCheckpoint \in Nat \ {0} /\ noOfCheckpoint <= IntBits
      /\ IntBits \in Nat \ {0} /\ GBMBits \in Nat /\ IntBits <= GBMBits
  BY Sizes
<1>2. b \in 0..(IntBits - 1) /\ b < noOfCheckpoint /\ b \in 0..(2 * IntBits - 1)
  BY <1>1 DEF CheckpointID
<1>3. b % IntBits = b
  BY <1>1, <1>2, ModOnce
<1>4. OneShifted(b) = IF b = IntBits - 1 THEN (IntBits - 1)..(GBMBits - 1) ELSE {b}
  BY <1>3 DEF OneShifted
<1> QED BY <1>1, <1>2, <1>4 DEF Bit, Named

\* A free bit is found if there is one.
LEMMA BitFound ==
  ASSUME FreeBits # {}
  PROVE  findFirstzeroBit \in FreeBits /\ findFirstzeroBit \in CheckpointID \ GBM
<1>1. noOfCheckpoint \in Nat /\ FreeBits \subseteq Nat
  BY RenamerAssumption DEF FreeBits
<1>2. \E b \in FreeBits : \A c \in FreeBits : b <= c
  BY <1>1, LeastNat
<1>3. findFirstzeroBit \in FreeBits
  BY <1>2 DEF findFirstzeroBit
<1> QED BY <1>3 DEF FreeBits, CheckpointID

\* Whether an instruction of the bundle takes a checkpoint.
Forks(w) == w.checkpoint

\* The instructions left in a bundle that need a register.
Wanting(s) == {k \in 1..Len(s) : s[k].dest # NoReg}
\* The same for checkpoints.
Forking(s) == {k \in 1..Len(s) : Forks(s[k])}

\* EnoughForBundle, in terms of these.
EnoughIs ==
  /\ Cardinality(Wanting(RENAME2)) <= freeListSize - Cardinality(WithDest)
  /\ Cardinality(Forking(RENAME2)) <= Cardinality(FreeBits)

\* It is the same condition.
LEMMA EnoughAlways == EnoughForBundle <=> EnoughIs
<1>1. Forking(RENAME2) = {k \in 1..Len(RENAME2) : RENAME2[k].checkpoint}
  BY Zenon DEF Forking, Forks
<1> QED BY <1>1 DEF EnoughForBundle, EnoughIs, Wanting

\* The same, with the cardinalities in sight.
LEMMA Enough ==
  EnoughForBundle <=> /\ Cardinality(Wanting(RENAME2)) <= freeListSize - Cardinality(WithDest)
                      /\ Cardinality(Forking(RENAME2)) <= Cardinality(FreeBits)
BY EnoughAlways DEF EnoughIs

\* Renaming takes the oldest of what is left.
LEMMA BundleShrinks ==
  ASSUME NEW S, NEW s \in Seq(S), s # <<>>
  PROVE  /\ Cardinality(Wanting(s)) \in Nat /\ Cardinality(Forking(s)) \in Nat
         /\ Tail(s) \in Seq(S) /\ Head(s) \in S
         /\ Cardinality(Wanting(Tail(s)))
              = Cardinality(Wanting(s)) - (IF Head(s).dest # NoReg THEN 1 ELSE 0)
         /\ Cardinality(Forking(Tail(s)))
              = Cardinality(Forking(s)) - (IF Forks(Head(s)) THEN 1 ELSE 0)
<1>1. /\ Len(s) \in Nat \ {0} /\ Len(Tail(s)) = Len(s) - 1 /\ Head(s) = s[1]
      /\ Tail(s) \in Seq(S) /\ Head(s) \in S
      /\ \A k \in 1..(Len(s) - 1) : Tail(s)[k] = s[k + 1]
  OBVIOUS
<1>2. PICK n \in Nat \ {0} : n = Len(s)
  BY <1>1
<1>3. /\ Wanting(s) \in SUBSET (1..n) /\ Wanting(Tail(s)) \in SUBSET (1..(n - 1))
      /\ Forking(s) \in SUBSET (1..n) /\ Forking(Tail(s)) \in SUBSET (1..(n - 1))
  BY <1>1, <1>2 DEF Wanting, Forking
<1>4. \A k \in 1..(n - 1) : k \in Wanting(Tail(s)) <=> k + 1 \in Wanting(s)
  BY <1>1, <1>2 DEF Wanting
<1>5. \A k \in 1..(n - 1) : k \in Forking(Tail(s)) <=> k + 1 \in Forking(s)
  BY <1>1, <1>2 DEF Forking
<1>6. 1 \in 1..n
  BY <1>2
<1>7. Cardinality(Wanting(Tail(s))) = Cardinality(Wanting(s)) - (IF 1 \in Wanting(s) THEN 1 ELSE 0)
  BY <1>3, <1>4, <1>6, CountShift
<1>8. Cardinality(Forking(Tail(s))) = Cardinality(Forking(s)) - (IF 1 \in Forking(s) THEN 1 ELSE 0)
  BY <1>3, <1>5, <1>6, CountShift
<1>9. 1 \in Wanting(s) <=> Head(s).dest # NoReg
  BY <1>1 DEF Wanting
<1>10. 1 \in Forking(s) <=> Forks(Head(s))
  BY <1>1 DEF Forking
<1>11. Cardinality(Wanting(s)) \in 0..n /\ Cardinality(Forking(s)) \in 0..n
  <2>1. n \in Nat /\ 1 \in Int
    OBVIOUS
  <2> QED BY <1>3, <2>1, CountType
<1> QED BY <1>1, <1>7, <1>8, <1>9, <1>10, <1>11

\* One iteration of the loop, with the checkpoint it has found.
RenamedAs(instr, phys, id, w) ==
  /\ instr \in Instruction /\ instr = Head(RENAME2)
  /\ phys = freeListEntry[freeList_Head.idx] /\ phys \in PhysReg
  /\ Forks(instr) => id \in CheckpointID \ GBM
  /\ ~Forks(instr) => id = NoCheckpoint
  /\ w \in Payload
  /\ w.src = instr.src /\ w.srcPhys = RMT[instr.src]
  /\ w.dest = instr.dest /\ (instr.dest # NoReg => w.destPhys = phys)
  /\ w.branch_mask = GBM /\ w.branch_ID = id /\ w.AL_index = NotDispatched
  /\ Open(w) <=> Forks(instr)
  /\ inflight' = Append(inflight, w)
  /\ RMT' = IF instr.dest # NoReg THEN [RMT EXCEPT ![instr.dest] = phys] ELSE RMT
  /\ freeList_Head' = IF instr.dest # NoReg THEN Advance(freeList_Head, freeListSize)
                      ELSE freeList_Head
  /\ Forks(instr) => branchCheckpointTable' =
       [b \in DOMAIN branchCheckpointTable \cup {id} |->
         IF b = id THEN [freeListHead |-> freeList_Head', gbm |-> GBM, shadowMapTable |-> RMT']
         ELSE branchCheckpointTable[b]]
  /\ Forks(instr) => GBM' = GBM \cup OneShifted(id)
  /\ ~Forks(instr) => UNCHANGED <<branchCheckpointTable, GBM>>
  /\ RENAME2' = Tail(RENAME2)
  /\ UNCHANGED <<AMT, freeListEntry, freeList_Tail, activeListVars>>

\* A step of rename2 takes a free register and a free checkpoint when its instruction needs them.
LEMMA RenameNextResult ==
  ASSUME SizesAgree, TypeOK, EnoughForBundle, RenameNext
  PROVE  \E instr, phys, id, w : RenamedAs(instr, phys, id, w)
<1> DEFINE instr == Head(RENAME2)
           phys == freeListEntry[freeList_Head.idx]
           id == IF instr.checkpoint THEN findFirstzeroBit ELSE NoCheckpoint
           w == [src |-> instr.src, srcPhys |-> RMT[instr.src],
                 dest |-> instr.dest, destPhys |-> IF instr.dest # NoReg THEN phys ELSE 0,
                 branch_mask |-> GBM, checkpoint |-> instr.checkpoint, branch_ID |-> id,
                 AL_index |-> NotDispatched, resolved |-> FALSE]
<1>1. RENAME2 # <<>> /\ RENAME2 \in Seq(Instruction) /\ RENAME2' = Tail(RENAME2)
  BY DEF RenameNext, TypeOK
<1>2. /\ instr \in Instruction
      /\ Cardinality(Forking(RENAME2)) \in Nat /\ Cardinality(Forking(Tail(RENAME2))) >= 0
      /\ Cardinality(Forking(Tail(RENAME2)))
              = Cardinality(Forking(RENAME2)) - (IF Forks(instr) THEN 1 ELSE 0)
  <2>1. instr \in Instruction /\ Tail(RENAME2) \in Seq(Instruction)
        /\ Cardinality(Forking(RENAME2)) \in Nat
        /\ Cardinality(Forking(Tail(RENAME2)))
              = Cardinality(Forking(RENAME2)) - (IF Forks(instr) THEN 1 ELSE 0)
    BY <1>1, BundleShrinks
  <2>2. PICK n \in Nat : n = Len(Tail(RENAME2))
    BY <2>1
  <2>3. Forking(Tail(RENAME2)) \in SUBSET (1..n) /\ 1 \in Int
    BY <2>2 DEF Forking
  <2>4. Cardinality(Forking(Tail(RENAME2))) \in 0..n
    BY <2>3, CountType
  <2> QED BY <2>1, <2>4
<1>3. Forks(instr) => FreeBits # {}
  <2>1. Cardinality(Forking(RENAME2)) <= Cardinality(FreeBits)
    BY Enough
  <2>2. Cardinality({}) = 0
    BY FS_EmptySet
  <2> QED BY <1>2, <2>1, <2>2
<1>4. Forks(instr) => id = findFirstzeroBit
  BY Zenon DEF Forks
<1>5. ~Forks(instr) => id = NoCheckpoint
  BY Zenon DEF Forks
<1>6. Forks(instr) => id \in CheckpointID \ GBM
  BY <1>3, <1>4, BitFound
<1>7. freeList_Head.idx \in 0..(freeListSize - 1) /\ freeListEntry \in [0..(freeListSize - 1) -> PhysReg]
  BY DEF TypeOK, Pointer
<1>8. phys \in PhysReg
  BY <1>7
<1>9. /\ instr.src \in LogReg /\ instr.dest \in LogReg \cup {NoReg} /\ instr.checkpoint \in BOOLEAN
      /\ RMT[instr.src] \in PhysReg /\ GBM \in SUBSET Bit /\ 0 \in PhysReg
  BY <1>2, RenamerAssumption DEF Instruction, TypeOK, PhysReg
<1>10. id \in CheckpointID \cup {NoCheckpoint}
  BY <1>5, <1>6
<1>11. /\ inflight' = Append(inflight, w)
       /\ RMT' = IF instr.dest # NoReg THEN [RMT EXCEPT ![instr.dest] = phys] ELSE RMT
       /\ freeList_Head' = IF instr.dest # NoReg THEN Advance(freeList_Head, freeListSize)
                           ELSE freeList_Head
       /\ UNCHANGED <<AMT, freeListEntry, freeList_Tail, activeListVars>>
  BY Zenon DEF RenameNext
<1>12. IF id = NoCheckpoint
       THEN UNCHANGED <<branchCheckpointTable, GBM>>
       ELSE /\ branchCheckpointTable' =
                 [b \in DOMAIN branchCheckpointTable \cup {id} |->
                   IF b = id
                   THEN [freeListHead |-> freeList_Head', gbm |-> GBM, shadowMapTable |-> RMT']
                   ELSE branchCheckpointTable[b]]
            /\ GBM' = GBM \cup OneShifted(id)
  BY Zenon DEF RenameNext
<1>13. Open(w) <=> Forks(instr)
  BY Zenon DEF Open, Forks
<1> HIDE DEF id
<1>14. w \in Payload
  BY <1>8, <1>9, <1>10 DEF Payload, CheckpointID
<1>15. /\ w.src = instr.src /\ w.srcPhys = RMT[instr.src]
       /\ w.dest = instr.dest /\ (instr.dest # NoReg => w.destPhys = phys)
       /\ w.branch_mask = GBM /\ w.branch_ID = id /\ w.AL_index = NotDispatched
  OBVIOUS
<1>16. NoCheckpoint \notin CheckpointID
  BY Sizes DEF NoCheckpoint, CheckpointID
<1> HIDE DEF w, phys, instr
<1>17. /\ Forks(instr) => branchCheckpointTable' =
            [b \in DOMAIN branchCheckpointTable \cup {id} |->
              IF b = id THEN [freeListHead |-> freeList_Head', gbm |-> GBM, shadowMapTable |-> RMT']
              ELSE branchCheckpointTable[b]]
       /\ Forks(instr) => GBM' = GBM \cup OneShifted(id)
       /\ ~Forks(instr) => UNCHANGED <<branchCheckpointTable, GBM>>
  BY <1>5, <1>6, <1>12, <1>16, Zenon
<1>18. instr = Head(RENAME2) /\ phys = freeListEntry[freeList_Head.idx]
  BY DEF instr, phys
<1>19. RenamedAs(instr, phys, id, w)
  BY <1>1, <1>2, <1>5, <1>6, <1>8, <1>11, <1>13, <1>14, <1>15, <1>17, <1>18, Zenon DEF RenamedAs
<1> QED BY <1>19

-----------------------------------------------------------------------------
(* Types *)

\* Everything but the instructions in flight and the checkpoints.
TypesOfTables ==
  /\ RMT \in [LogReg -> PhysReg]
  /\ AMT \in [LogReg -> PhysReg]
  /\ freeListEntry \in [0..(freeListSize - 1) -> PhysReg]
  /\ freeList_Head \in Pointer(freeListSize)
  /\ freeList_Tail \in Pointer(freeListSize)
  /\ activeList_Head \in Pointer(activeListSize)
  /\ activeList_Tail \in Pointer(activeListSize)
  /\ RENAME2 \in Seq(Instruction)

\* The types of the global mask and of the checkpoints.
TypesOfCheckpoints ==
  /\ GBM \in SUBSET Bit
  /\ DOMAIN branchCheckpointTable \subseteq GBM \cap CheckpointID
  /\ \A b \in DOMAIN branchCheckpointTable : branchCheckpointTable[b] \in Checkpoint

\* The type invariant in three parts.
LEMMA TypesOfAll == TypeOK <=> TypesOfTables /\ TypesOfCheckpoints /\ inflight \in Seq(Payload)
BY DEF TypeOK, TypesOfTables, TypesOfCheckpoints, CheckpointID

\* The same after a step.
LEMMA TypesOfAllNext ==
  TypeOK' <=> TypesOfTables' /\ TypesOfCheckpoints' /\ inflight' \in Seq(Payload)
BY DEF TypeOK, TypesOfTables, TypesOfCheckpoints, CheckpointID

\* rename2 keeps the type invariant.
LEMMA RenameNextType ==
  ASSUME SizesAgree, TypeOK, EnoughForBundle, RenameNext
  PROVE  TypeOK'
<1>1. PICK instr, phys, id, w : RenamedAs(instr, phys, id, w)
  BY RenameNextResult
<1>2. TypesOfTables /\ TypesOfCheckpoints /\ inflight \in Seq(Payload)
  BY TypesOfAll
<1>3. /\ instr \in Instruction /\ instr.dest \in LogReg \cup {NoReg} /\ phys \in PhysReg
      /\ RENAME2 # <<>>
  BY <1>1 DEF RenamedAs, Instruction, RenameNext
<1>4. TypesOfTables'
  <2>1. Advance(freeList_Head, freeListSize) \in Pointer(freeListSize)
    BY <1>2, Sizes, AdvanceType DEF TypesOfTables
  <2>2. Tail(RENAME2) \in Seq(Instruction)
    BY <1>2, <1>3 DEF TypesOfTables
  <2>3. RMT' \in [LogReg -> PhysReg]
    BY <1>1, <1>2, <1>3 DEF TypesOfTables, RenamedAs
  <2>4. freeList_Head' \in Pointer(freeListSize)
    BY <1>1, <1>2, <2>1 DEF TypesOfTables, RenamedAs
  <2> QED BY <1>1, <1>2, <2>2, <2>3, <2>4 DEF TypesOfTables, RenamedAs, activeListVars
<1>5. inflight' \in Seq(Payload)
  BY <1>1, <1>2 DEF RenamedAs
<1>6. TypesOfCheckpoints'
  <2>1. CASE ~Forks(instr)
    BY <1>1, <1>2, <2>1 DEF RenamedAs, TypesOfCheckpoints
  <2>2. CASE Forks(instr)
    <3>1. id \in CheckpointID \ GBM
      BY <1>1, <2>2 DEF RenamedAs
    <3>2. OneShifted(id) \subseteq Bit /\ id \in OneShifted(id)
      BY <3>1, ShiftedBit DEF Named
    <3>3. GBM' = GBM \cup OneShifted(id)
      BY <1>1, <2>2 DEF RenamedAs
    <3>4. PICK v : /\ v = [freeListHead |-> freeList_Head', gbm |-> GBM, shadowMapTable |-> RMT']
                   /\ branchCheckpointTable' = [b \in DOMAIN branchCheckpointTable \cup {id} |->
                                                 IF b = id THEN v ELSE branchCheckpointTable[b]]
      BY <1>1, <2>2 DEF RenamedAs
    <3>5. id \notin DOMAIN branchCheckpointTable
      BY <1>2, <3>1 DEF TypesOfCheckpoints
    <3>6. /\ DOMAIN branchCheckpointTable' = DOMAIN branchCheckpointTable \cup {id}
          /\ branchCheckpointTable'[id] = v
          /\ \A b \in DOMAIN branchCheckpointTable : branchCheckpointTable'[b] = branchCheckpointTable[b]
      BY <3>4, <3>5
    <3>7. v \in Checkpoint
      BY <1>2, <1>4, <3>4 DEF Checkpoint, TypesOfTables, TypesOfCheckpoints
    <3> QED BY <1>2, <3>1, <3>2, <3>3, <3>6, <3>7 DEF TypesOfCheckpoints
  <2> QED BY <2>1, <2>2
<1> QED BY <1>4, <1>5, <1>6, TypesOfAllNext

\* The tail of the active list after some more instructions.
LEMMA TailAdvances ==
  ASSUME SizesAgree, TypeOK, NEW n \in 0..activeListSize
  PROVE  advanceActiveListTail(n) = AdvanceBy(activeList_Tail, n, activeListSize)
         /\ advanceActiveListTail(n) \in Pointer(activeListSize)
<1>1. activeList_Tail \in Pointer(activeListSize) /\ activeListSize \in Nat \ {0}
      /\ freeListSize = activeListSize
  BY Sizes DEF TypeOK
<1> QED BY <1>1, AdvanceByType DEF advanceActiveListTail

\* What Dispatch makes of the active list and the instructions.
LEMMA DispatchResult ==
  ASSUME SizesAgree, TypeOK, DispatchedFirst, Dispatch
  PROVE  /\ Len(inflight) - Dispatched \in 1..activeListSize
         /\ Len(inflight) <= activeListSize
         /\ activeList_Tail' = AdvanceBy(activeList_Tail, Len(inflight) - Dispatched, activeListSize)
         /\ \A i \in 1..Len(inflight) :
              inflight'[i].AL_index =
                IF i <= Dispatched THEN inflight[i].AL_index
                ELSE AdvanceBy(activeList_Tail, i - (Dispatched + 1), activeListSize).idx
         /\ inflight' \in Seq(Payload)
<1> DEFINE D == Dispatched
           n == Len(inflight)
<1>1. /\ n \in Nat /\ D \in 0..activeListSize /\ D <= n /\ activeListSize \in Nat \ {0}
      /\ Cardinality(Undispatched) = n - D /\ Undispatched = (D + 1)..n
      /\ DOMAIN inflight = 1..n /\ \A i \in 1..n : inflight[i] \in Payload
  BY InflightType, DispatchedOnes, Sizes
<1>2. Undispatched # {} /\ ~stall_dispatch(n - D)
  BY <1>1 DEF Dispatch
<1>3. D < n
  BY <1>1, <1>2
<1>4. ~(activeListSize - D < n - D)
  BY <1>2 DEF stall_dispatch, Dispatched
<1> HIDE DEF D, n
<1>5. n - D \in 1..activeListSize /\ n <= activeListSize
  BY <1>1, <1>3, <1>4
<1>6. activeList_Tail' = AdvanceBy(activeList_Tail, n - D, activeListSize)
  <2>1. PICK k \in 0..activeListSize : k = n - D
    BY <1>5
  <2>2. activeList_Tail' = advanceActiveListTail(k)
    BY <1>1, <2>1 DEF Dispatch
  <2> QED BY <2>1, <2>2, TailAdvances
<1>7. PICK first : /\ first = n - (n - D) + 1
                   /\ inflight' = [i \in DOMAIN inflight |->
                        IF i < first THEN inflight[i]
                        ELSE [inflight[i] EXCEPT !.AL_index = advanceActiveListTail(i - first).idx]]
  BY <1>1 DEF Dispatch, n
<1>8. first = D + 1
  BY <1>1, <1>7
<1>9. \A i \in 1..n : /\ i < first => inflight'[i] = inflight[i]
                      /\ ~(i < first) => inflight'[i] =
                           [inflight[i] EXCEPT !.AL_index = advanceActiveListTail(i - first).idx]
  BY <1>1, <1>7
<1>10. \A i \in 1..n : ~(i < first) =>
         /\ advanceActiveListTail(i - first) = AdvanceBy(activeList_Tail, i - (D + 1), activeListSize)
         /\ advanceActiveListTail(i - first).idx \in 0..(activeListSize - 1)
  <2> SUFFICES ASSUME NEW i \in 1..n, ~(i < first)
               PROVE  /\ advanceActiveListTail(i - first)
                           = AdvanceBy(activeList_Tail, i - (D + 1), activeListSize)
                      /\ advanceActiveListTail(i - first).idx \in 0..(activeListSize - 1)
    OBVIOUS
  <2>1. PICK k \in 0..activeListSize : k = i - first /\ k = i - (D + 1)
    BY <1>1, <1>5, <1>8
  <2>2. /\ advanceActiveListTail(k) = AdvanceBy(activeList_Tail, k, activeListSize)
        /\ advanceActiveListTail(k) \in Pointer(activeListSize)
    BY TailAdvances
  <2> QED BY <2>1, <2>2 DEF Pointer
<1>11. \A i \in 1..n : inflight'[i] \in Payload
  <2> SUFFICES ASSUME NEW i \in 1..n PROVE inflight'[i] \in Payload
    OBVIOUS
  <2>1. CASE i < first
    BY <1>1, <1>9, <2>1
  <2>2. CASE ~(i < first)
    <3>1. PICK x \in 0..(activeListSize - 1) : x = advanceActiveListTail(i - first).idx
      BY <1>10, <2>2
    <3>2. inflight'[i] = [inflight[i] EXCEPT !.AL_index = x] /\ inflight[i] \in Payload
      BY <1>1, <1>9, <2>2, <3>1
    <3> QED BY <3>2 DEF Payload
  <2> QED BY <2>1, <2>2
<1>12. inflight' \in Seq(Payload)
  <2>1. inflight' \in [1..n -> Payload]
    BY <1>1, <1>7, <1>11
  <2> QED BY <1>1, <2>1, FunctionIsSequence
<1>13. \A i \in 1..n : inflight'[i].AL_index =
                IF i <= D THEN inflight[i].AL_index
                ELSE AdvanceBy(activeList_Tail, i - (D + 1), activeListSize).idx
  <2> SUFFICES ASSUME NEW i \in 1..n
               PROVE inflight'[i].AL_index = IF i <= D THEN inflight[i].AL_index
                ELSE AdvanceBy(activeList_Tail, i - (D + 1), activeListSize).idx
    OBVIOUS
  <2>1. CASE i <= D
    <3>1. i < first
      BY <1>1, <1>8, <2>1
    <3> QED BY <1>9, <2>1, <3>1
  <2>2. CASE ~(i <= D)
    <3>1. ~(i < first)
      BY <1>1, <1>8, <2>2
    <3>2. PICK x : x = advanceActiveListTail(i - first).idx
      OBVIOUS
    <3>3. inflight'[i] = [inflight[i] EXCEPT !.AL_index = x] /\ inflight[i] \in Payload
      BY <1>1, <1>9, <3>1, <3>2
    <3>4. inflight'[i].AL_index = x
      BY <3>3 DEF Payload
    <3> QED BY <1>10, <2>2, <3>1, <3>2, <3>4
  <2> QED BY <2>1, <2>2
<1> QED BY <1>5, <1>6, <1>12, <1>13 DEF D, n

\* Dispatch keeps the type invariant.
LEMMA DispatchType ==
  ASSUME SizesAgree, TypeOK, DispatchedFirst, Dispatch
  PROVE  TypeOK'
<1>1. TypesOfTables /\ TypesOfCheckpoints /\ inflight' \in Seq(Payload)
  BY TypesOfAll, DispatchResult
<1>2. activeList_Tail' \in Pointer(activeListSize)
  <2>1. PICK k \in 0..activeListSize : k = Len(inflight) - Dispatched
    BY DispatchResult
  <2>2. activeList_Tail \in Pointer(activeListSize) /\ activeListSize \in Nat \ {0}
    BY <1>1, Sizes DEF TypesOfTables
  <2>3. AdvanceBy(activeList_Tail, k, activeListSize) \in Pointer(activeListSize)
    BY <2>2, AdvanceByType
  <2> QED BY <2>1, <2>3, DispatchResult
<1>3. TypesOfTables' /\ TypesOfCheckpoints'
  BY <1>1, <1>2 DEF Dispatch, TypesOfTables, TypesOfCheckpoints, freeListVars
<1> QED BY <1>1, <1>3, TypesOfAllNext

\* What is left of the checkpoints when a branch resolves.
LEMMA ClearedType ==
  ASSUME TypeOK, NEW mask
  PROVE  /\ DOMAIN ClearedCheckpoints(mask) = DOMAIN branchCheckpointTable \ mask
         /\ \A b \in DOMAIN branchCheckpointTable \ mask :
              /\ ClearedCheckpoints(mask)[b] \in Checkpoint
              /\ ClearedCheckpoints(mask)[b].gbm = branchCheckpointTable[b].gbm \ mask
              /\ ClearedCheckpoints(mask)[b].freeListHead = branchCheckpointTable[b].freeListHead
              /\ ClearedCheckpoints(mask)[b].shadowMapTable = branchCheckpointTable[b].shadowMapTable
<1>1. DOMAIN ClearedCheckpoints(mask) = DOMAIN branchCheckpointTable \ mask
  BY DEF ClearedCheckpoints
<1> SUFFICES ASSUME NEW b \in DOMAIN branchCheckpointTable \ mask
             PROVE  /\ ClearedCheckpoints(mask)[b] \in Checkpoint
                    /\ ClearedCheckpoints(mask)[b].gbm = branchCheckpointTable[b].gbm \ mask
                    /\ ClearedCheckpoints(mask)[b].freeListHead = branchCheckpointTable[b].freeListHead
                    /\ ClearedCheckpoints(mask)[b].shadowMapTable = branchCheckpointTable[b].shadowMapTable
  BY <1>1
<1>2. PICK c \in Checkpoint : c = branchCheckpointTable[b]
  BY DEF TypeOK
<1>3. ClearedCheckpoints(mask)[b] = [c EXCEPT !.gbm = @ \ mask]
  BY <1>2 DEF ClearedCheckpoints
<1> QED BY <1>2, <1>3 DEF Checkpoint

\* A correct resolution keeps the type invariant.
LEMMA ResolveCorrectType ==
  ASSUME SizesAgree, TypeOK, NEW i \in 1..Len(inflight), ResolveCorrect(i)
  PROVE  TypeOK'
<1>1. TypesOfTables /\ TypesOfCheckpoints /\ inflight \in Seq(Payload)
  BY TypesOfAll
<1>2. TypesOfTables'
  BY <1>1 DEF ResolveCorrect, TypesOfTables, freeListVars, activeListVars
<1>3. PICK mask : GBM' = GBM \ mask /\ branchCheckpointTable' = ClearedCheckpoints(mask)
  BY DEF ResolveCorrect
<1>4. TypesOfCheckpoints'
  BY <1>1, <1>3, ClearedType DEF TypesOfCheckpoints
<1>5. inflight' \in Seq(Payload)
  <2>1. /\ DOMAIN inflight = 1..Len(inflight) /\ Len(inflight) \in Nat
        /\ \A j \in 1..Len(inflight) : inflight[j] \in Payload
    BY InflightType
  <2>2. inflight' = [j \in 1..Len(inflight) |->
                   [inflight[j] EXCEPT !.branch_mask = @ \ {inflight[i].branch_ID},
                                       !.resolved = @ \/ j = i]]
    BY <2>1 DEF ResolveCorrect
  <2>3. \A j \in 1..Len(inflight) : inflight'[j] \in Payload
    <3> SUFFICES ASSUME NEW j \in 1..Len(inflight) PROVE inflight'[j] \in Payload
      OBVIOUS
    <3>1. PICK w \in Payload : w = inflight[j]
      BY <2>1
    <3>2. PICK r \in BOOLEAN : r = (w.resolved \/ j = i)
      BY Zenon
    <3>3. inflight'[j] = [w EXCEPT !.branch_mask = @ \ {inflight[i].branch_ID}, !.resolved = r]
      BY <2>2, <3>1, <3>2
    <3> QED BY <3>1, <3>2, <3>3 DEF Payload
  <2>4. inflight' \in [1..Len(inflight) -> Payload]
    BY <2>2, <2>3
  <2> QED BY <2>1, <2>4, FunctionIsSequence
<1> QED BY <1>2, <1>4, <1>5, TypesOfAllNext

\* The tail behind an entry is a pointer.
LEMMA TailBehindType ==
  ASSUME TypeOK, NEW e \in 0..(activeListSize - 1)
  PROVE  TailBehind(e) \in Pointer(activeListSize)
<1>1. activeList_Head \in Pointer(activeListSize) /\ activeListSize \in Nat \ {0}
  BY RenamerAssumption DEF TypeOK
<1> QED BY <1>1 DEF TailBehind, Pointer

\* A misprediction keeps the type invariant: what a checkpoint restores has the types it had.
LEMMA MispredictType ==
  ASSUME SizesAgree, TypeOK, DispatchedFirst, BranchesNamed,
         NEW i \in 1..Len(inflight), Mispredict(i)
  PROVE  TypeOK'
<1>1. TypesOfTables /\ TypesOfCheckpoints /\ inflight' \in Seq(Payload)
  BY TypesOfAll, MispredictShape
<1>2. PICK b : b = inflight[i].branch_ID
  OBVIOUS
<1>3. Resolvable(i) /\ b \in DOMAIN branchCheckpointTable
  BY <1>2, ResolvableOnes DEF Mispredict
<1>4. PICK c \in Checkpoint : c = branchCheckpointTable[b]
  BY <1>1, <1>3 DEF TypesOfCheckpoints
<1>5. /\ c.gbm \in SUBSET Bit /\ c.shadowMapTable \in [LogReg -> PhysReg]
      /\ c.freeListHead \in Pointer(freeListSize)
  BY DEF Checkpoint
<1>6. /\ GBM' = c.gbm \ OneShifted(b) /\ RMT' = c.shadowMapTable /\ freeList_Head' = c.freeListHead
      /\ branchCheckpointTable' =
              Restrict(branchCheckpointTable, DOMAIN branchCheckpointTable \cap GBM')
      /\ activeList_Tail' = TailBehind(inflight[i].AL_index)
      /\ UNCHANGED <<AMT, freeListEntry, freeList_Tail, activeList_Head, RENAME2>>
  BY <1>2, <1>4 DEF Mispredict
<1>7. inflight[i].AL_index \in 0..(activeListSize - 1)
  <2>1. inflight[i] \in Payload /\ inflight[i].AL_index # NotDispatched
    BY <1>3, InflightType DEF Resolvable
  <2> QED BY <2>1 DEF Payload
<1>8. activeList_Tail' \in Pointer(activeListSize)
  BY <1>6, <1>7, TailBehindType
<1>9. TypesOfTables'
  BY <1>1, <1>5, <1>6, <1>8 DEF TypesOfTables
<1>10. TypesOfCheckpoints'
  BY <1>1, <1>5, <1>6 DEF TypesOfCheckpoints, Restrict
<1> QED BY <1>1, <1>9, <1>10, TypesOfAllNext

\* What committing the oldest instruction does to the tables.
LEMMA CommitRegistersType ==
  ASSUME SizesAgree, TypeOK, NEW i \in 1..Len(inflight), CommitRegisters(inflight[i])
  PROVE  /\ AMT' \in [LogReg -> PhysReg]
         /\ freeListEntry' \in [0..(freeListSize - 1) -> PhysReg]
         /\ freeList_Tail' \in Pointer(freeListSize)
         /\ activeList_Head' \in Pointer(activeListSize)
<1>1. TypesOfTables
  BY TypesOfAll
<1>2. PICK w \in Payload : w = inflight[i]
  BY InflightType
<1>3. w.dest \in LogReg \cup {NoReg} /\ w.destPhys \in PhysReg
  BY DEF Payload
<1>4. /\ Advance(freeList_Tail, freeListSize) \in Pointer(freeListSize)
      /\ Advance(activeList_Head, activeListSize) \in Pointer(activeListSize)
      /\ freeList_Tail.idx \in 0..(freeListSize - 1)
  BY <1>1, Sizes, AdvanceType DEF TypesOfTables, Pointer
<1>5. activeList_Head' \in Pointer(activeListSize)
  BY <1>4 DEF CommitRegisters
<1>6. CASE w.dest = NoReg
  BY <1>1, <1>2, <1>5, <1>6 DEF CommitRegisters, TypesOfTables
<1>7. CASE w.dest # NoReg
  <2>1. /\ freeListEntry' = [freeListEntry EXCEPT ![freeList_Tail.idx] = AMT[w.dest]]
        /\ freeList_Tail' = Advance(freeList_Tail, freeListSize)
        /\ AMT' = [AMT EXCEPT ![w.dest] = w.destPhys]
    BY <1>2, <1>7 DEF CommitRegisters
  <2>2. AMT[w.dest] \in PhysReg
    BY <1>1, <1>3, <1>7 DEF TypesOfTables
  <2> QED BY <1>1, <1>3, <1>4, <1>5, <2>1, <2>2 DEF TypesOfTables
<1> QED BY <1>6, <1>7

\* Committing an instruction keeps the type invariant.
LEMMA CommitType ==
  ASSUME SizesAgree, TypeOK, DispatchedFirst, NEW i \in 1..Len(inflight), Commit(i)
  PROVE  TypeOK'
<1>1. TypesOfTables /\ TypesOfCheckpoints /\ inflight' \in Seq(Payload)
  BY TypesOfAll, CommitShape
<1>2. CommitRegisters(inflight[i])
  BY DEF Commit
<1>3. TypesOfTables'
  BY <1>1, <1>2, CommitRegistersType DEF TypesOfTables, Commit
<1>4. TypesOfCheckpoints'
  BY <1>1 DEF TypesOfCheckpoints, Commit
<1> QED BY <1>1, <1>3, <1>4, TypesOfAllNext

\* A complete squash, whether the oldest instruction commits first or not.
Squashed ==
  /\ SquashRenamer
  /\ UNCHANGED RENAME2
  /\ \/ /\ Len(inflight) > 0 /\ inflight[1].dest # NoReg /\ CommitRegisters(inflight[1])
     \/ UNCHANGED <<AMT, freeListEntry, freeList_Tail, activeList_Head>>

\* A complete squash, whichever instruction at the head causes it.
LEMMA SquashedBy ==
  ASSUME SizesAgree, TypeOK, DispatchedFirst, NEW i \in 1..Len(inflight),
         CommitMispredicted(i) \/ SquashHead(i)
  PROVE  Squashed /\ RENAME2 = <<>>
<1>1. AtHead(i) /\ RENAME2 = <<>>
  BY DEF CommitMispredicted, SquashHead, AtHead
<1>2. i = 1 /\ Len(inflight) > 0
  BY <1>1, RetiresOldest, InflightType
<1>3. CASE CommitMispredicted(i)
  BY <1>1, <1>2, <1>3 DEF CommitMispredicted, Squashed
<1>4. CASE SquashHead(i)
  BY <1>1, <1>4 DEF SquashHead, Squashed
<1> QED BY <1>3, <1>4

\* A complete squash keeps the type invariant.
LEMMA SquashType ==
  ASSUME SizesAgree, TypeOK, DispatchedFirst, Squashed
  PROVE  TypeOK'
<1>1. TypesOfTables
  BY TypesOfAll
<1>2. /\ AMT' \in [LogReg -> PhysReg]
      /\ freeListEntry' \in [0..(freeListSize - 1) -> PhysReg]
      /\ freeList_Tail' \in Pointer(freeListSize)
      /\ activeList_Head' \in Pointer(activeListSize)
  <2>1. CASE Len(inflight) > 0 /\ CommitRegisters(inflight[1])
    <3>1. PICK i \in 1..Len(inflight) : i = 1
      BY <2>1, InflightType
    <3> QED BY <2>1, <3>1, CommitRegistersType
  <2>2. CASE UNCHANGED <<AMT, freeListEntry, freeList_Tail, activeList_Head>>
    BY <1>1, <2>2 DEF TypesOfTables
  <2> QED BY <2>1, <2>2 DEF Squashed
<1>3. freeList_Head' \in Pointer(freeListSize)
  <2>1. freeList_Tail'.idx \in 0..(freeListSize - 1) /\ freeList_Tail'.phase \in {0, 1}
    BY <1>2 DEF Pointer
  <2>2. 1 - freeList_Tail'.phase \in {0, 1}
    BY <2>1
  <2> QED BY <2>1, <2>2 DEF Squashed, SquashRenamer, Pointer
<1>4. TypesOfTables'
  BY <1>1, <1>2, <1>3 DEF TypesOfTables, Squashed, SquashRenamer
<1>5. TypesOfCheckpoints'
  BY DEF TypesOfCheckpoints, Squashed, SquashRenamer, NoCheckpoints
<1>6. inflight' \in Seq(Payload)
  BY DEF Squashed, SquashRenamer
<1> QED BY <1>4, <1>5, <1>6, TypesOfAllNext

\* The next-state relation, one disjunct for each way a step is reasoned about.
LEMMA Steps ==
  ASSUME SizesAgree, TypeOK, DispatchedFirst, Next
  PROVE  \/ \E bundle \in Bundles : Rename2(bundle)
         \/ RenameNext
         \/ Dispatch
         \/ \E i \in 1..Len(inflight) : ResolveCorrect(i)
         \/ \E i \in 1..Len(inflight) : Mispredict(i)
         \/ \E i \in 1..Len(inflight) : Commit(i)
         \/ Squashed /\ RENAME2 = <<>>
BY SquashedBy DEF Next

\* A bundle is a sequence of instructions.
LEMMA BundleIsSequence ==
  ASSUME NEW bundle \in Bundles
  PROVE  bundle \in Seq(Instruction)
<1>1. PICK n \in 1..dispatch_width : bundle \in [1..n -> Program]
  BY DEF Bundles
<1>2. n \in Nat /\ bundle \in [1..n -> Instruction]
  BY <1>1, ProgramAssumption, RenamerAssumption
<1> QED BY <1>2, FunctionIsSequence

\* Every step keeps the type invariant.
LEMMA TypeStep ==
  ASSUME SizesAgree, Renamed, [Next]_vars
  PROVE  TypeOK'
<1>0. TypeOK /\ DispatchedFirst /\ BranchesNamed /\ EnoughForBundle
  BY DEF Renamed
<1>1. CASE Next
  <2>1. CASE \E bundle \in Bundles : Rename2(bundle)
    <3>1. PICK bundle \in Bundles : Rename2(bundle)
      BY <2>1
    <3>2. bundle \in Seq(Instruction)
      BY BundleIsSequence
    <3> QED BY <1>0, <3>1, <3>2 DEF Rename2, TypeOK, freeListVars, activeListVars
  <2>2. CASE RenameNext
    BY <1>0, <2>2, RenameNextType
  <2>3. CASE Dispatch
    BY <1>0, <2>3, DispatchType
  <2>4. CASE \E i \in 1..Len(inflight) : ResolveCorrect(i)
    BY <1>0, <2>4, ResolveCorrectType
  <2>5. CASE \E i \in 1..Len(inflight) : Mispredict(i)
    BY <1>0, <2>5, MispredictType
  <2>6. CASE \E i \in 1..Len(inflight) : Commit(i)
    BY <1>0, <2>6, CommitType
  <2>7. CASE Squashed /\ RENAME2 = <<>>
    BY <1>0, <2>7, SquashType
  <2> QED BY <1>0, <1>1, <2>1, <2>2, <2>3, <2>4, <2>5, <2>6, <2>7, Steps
<1>2. CASE UNCHANGED vars
  BY <1>0, <1>2 DEF vars, TypeOK, freeListVars, activeListVars
<1> QED BY <1>1, <1>2

-----------------------------------------------------------------------------
(* The active list *)

\* The entry some way behind the head.
LEMMA AdvanceByIndex ==
  ASSUME NEW N \in Nat \ {0}, NEW p \in Pointer(N), NEW m \in 0..(N - 1)
  PROVE  AdvanceBy(p, m, N).idx = (p.idx + m) % N
<1>1. p.idx \in 0..(N - 1)
  BY DEF Pointer
<1>2. m \in 0..N
  OBVIOUS
<1>3. AdvanceBy(p, m, N).idx = IF p.idx + m < N THEN p.idx + m ELSE p.idx + m - N
  BY <1>2, AdvanceByIsOnward DEF Onward
<1>4. PICK x \in 0..(2 * N - 1) : x = p.idx + m
  BY <1>1
<1>5. x % N = IF x < N THEN x ELSE x - N
  BY ModOnce
<1> QED BY <1>1, <1>3, <1>4, <1>5

\* The tail the code infers from an entry and the head is the one behind that entry.
LEMMA TailBehindIsOnward ==
  ASSUME TypeOK, NEW i \in 1..activeListSize
  PROVE  TailBehind((activeList_Head.idx + i - 1) % activeListSize)
           = AdvanceBy(activeList_Head, i, activeListSize)
<1>1. activeList_Head \in Pointer(activeListSize) /\ activeListSize \in Nat \ {0}
  BY RenamerAssumption DEF TypeOK
<1>2. PICK N \in Nat \ {0} : N = activeListSize
  BY <1>1
<1>3. PICK h \in Pointer(N) : h = activeList_Head
  BY <1>1, <1>2
<1>4. h.idx \in 0..(N - 1) /\ i \in 1..N
  BY <1>2 DEF Pointer
<1>5. PICK x \in 0..(2 * N - 1) : x = h.idx + i - 1
  BY <1>4
<1>6. x % N = IF x < N THEN x ELSE x - N
  BY ModOnce
<1>7. PICK e : e = x % N
  OBVIOUS
<1>8. (IF e # N - 1 THEN e + 1 ELSE 0) = IF h.idx + i < N THEN h.idx + i ELSE h.idx + i - N
  BY <1>4, <1>5, <1>6, <1>7
<1>9. TailBehind(e) = [idx |-> IF h.idx + i < N THEN h.idx + i ELSE h.idx + i - N,
                       phase |-> IF h.idx + i < N THEN h.phase ELSE 1 - h.phase]
  <2>1. PICK idx : idx = IF e # N - 1 THEN e + 1 ELSE 0
    OBVIOUS
  <2>2. TailBehind(e) = [idx |-> idx, phase |-> IF idx <= h.idx THEN 1 - h.phase ELSE h.phase]
    BY <1>2, <1>3, <2>1 DEF TailBehind
  <2>3. idx = IF h.idx + i < N THEN h.idx + i ELSE h.idx + i - N
    BY <1>8, <2>1
  <2>4. idx <= h.idx <=> ~(h.idx + i < N)
    BY <1>4, <2>3
  <2> QED BY <2>2, <2>3, <2>4
<1>10. i \in 0..N
  BY <1>4
<1>11. AdvanceBy(h, i, N) = Onward(h, i, N)
  BY <1>10, AdvanceByIsOnward
<1>12. TailBehind(e) = AdvanceBy(h, i, N)
  BY <1>9, <1>11 DEF Onward
<1> QED BY <1>2, <1>3, <1>5, <1>7, <1>12

\* DispatchedFirst of any active list and any n instructions.
ActiveListOf(head, tail, n, w) ==
  /\ Ordered(head, tail)
  /\ Distance(head, tail, activeListSize) <= n
  /\ \A i \in 1..n :
       w[i].AL_index = IF i <= Distance(head, tail, activeListSize)
                       THEN (head.idx + i - 1) % activeListSize
                       ELSE NotDispatched

\* DispatchedFirst, before a step and after it.
LEMMA DispatchedFirstAlways ==
  /\ DispatchedFirst <=> ActiveListOf(activeList_Head, activeList_Tail, Len(inflight), inflight)
  /\ DispatchedFirst' <=>
       ActiveListOf(activeList_Head', activeList_Tail', Len(inflight'), inflight')
BY DEF DispatchedFirst, ActiveListOf, Dispatched

\* Dispatch puts the oldest undispatched instruction at the tail.
LEMMA DispatchKeepsActiveList ==
  ASSUME SizesAgree, TypeOK, DispatchedFirst, Dispatch
  PROVE  DispatchedFirst'
<1>1. PICK n \in Nat : n = Len(inflight)
  BY InflightType
<1>2. PICK N \in Nat \ {0} : N = activeListSize
  BY Sizes
<1>3. PICK h \in Pointer(N), t \in Pointer(N) : h = activeList_Head /\ t = activeList_Tail
  BY <1>2 DEF TypeOK
<1>4. PICK D \in 0..N : D = Dispatched
  BY <1>2, DispatchedOnes
<1>5. /\ Ordered(h, t) /\ D = Distance(h, t, N) /\ D <= n
      /\ \A i \in 1..n : inflight[i].AL_index = IF i <= D THEN (h.idx + i - 1) % N ELSE NotDispatched
  BY <1>1, <1>2, <1>3, <1>4, DispatchedFirstAlways DEF ActiveListOf, Dispatched
<1>6. /\ n - D \in 1..N /\ n <= N
      /\ activeList_Tail' = AdvanceBy(t, n - D, N)
      /\ \A i \in 1..n : inflight'[i].AL_index =
           IF i <= D THEN inflight[i].AL_index ELSE AdvanceBy(t, i - (D + 1), N).idx
  BY <1>1, <1>2, <1>3, <1>4, DispatchResult
<1>7. activeList_Head' = h /\ Len(inflight') = n
  BY <1>1, <1>3, DispatchShape DEF Dispatch
<1>8. h.idx \in 0..(N - 1)
  BY DEF Pointer
<1>9. \A k \in 0..(N - D) : /\ AdvanceBy(t, k, N) \in Pointer(N)
                            /\ Ordered(h, AdvanceBy(t, k, N))
                            /\ Distance(h, AdvanceBy(t, k, N), N) = D + k
  <2> SUFFICES ASSUME NEW k \in 0..(N - D)
               PROVE  /\ AdvanceBy(t, k, N) \in Pointer(N)
                      /\ Ordered(h, AdvanceBy(t, k, N))
                      /\ Distance(h, AdvanceBy(t, k, N), N) = D + k
    OBVIOUS
  <2>1. k \in Nat /\ Distance(h, t, N) + k <= N
    BY <1>5
  <2> QED BY <1>5, <2>1, AdvanceByBehind
<1>10. \A i \in (D + 1)..n : AdvanceBy(t, i - (D + 1), N).idx = (h.idx + i - 1) % N
  <2> SUFFICES ASSUME NEW i \in (D + 1)..n
               PROVE  AdvanceBy(t, i - (D + 1), N).idx = (h.idx + i - 1) % N
    OBVIOUS
  <2>1. PICK k \in 0..(N - D) : k = i - (D + 1)
    BY <1>6
  <2>2. PICK m \in 0..(N - 1) : m = D + k /\ m = i - 1
    BY <1>6, <2>1
  <2>3. PICK c \in Pointer(N) : c = AdvanceBy(t, k, N)
    BY <1>9
  <2>4. Ordered(h, c) /\ Distance(h, c, N) = m
    BY <1>9, <2>2, <2>3
  <2>5. c = AdvanceBy(h, m, N)
    BY <2>4, AdvanceByOwnDistance
  <2>6. c.idx = (h.idx + m) % N
    BY <2>5, AdvanceByIndex
  <2>7. h.idx + m = h.idx + i - 1
    BY <1>8, <2>2
  <2> QED BY <2>1, <2>3, <2>6, <2>7
<1>11. PICK t2 : t2 = activeList_Tail'
  OBVIOUS
<1>12. Ordered(h, t2) /\ Distance(h, t2, N) = n
  <2>1. PICK k \in 0..(N - D) : k = n - D
    BY <1>6
  <2> QED BY <1>6, <1>9, <1>11, <2>1
<1>13. \A i \in 1..n : inflight'[i].AL_index = (h.idx + i - 1) % N
  BY <1>5, <1>6, <1>10
<1>14. ActiveListOf(h, t2, n, inflight')
  BY <1>2, <1>12, <1>13 DEF ActiveListOf
<1> QED BY <1>7, <1>11, <1>14, DispatchedFirstAlways

\* A misprediction rolls the tail back to just behind the branch.
LEMMA MispredictKeepsActiveList ==
  ASSUME SizesAgree, TypeOK, DispatchedFirst, BranchesNamed,
         NEW i \in 1..Len(inflight), Mispredict(i)
  PROVE  DispatchedFirst'
<1>1. PICK N \in Nat \ {0} : N = activeListSize
  BY Sizes
<1>2. PICK h \in Pointer(N) : h = activeList_Head
  BY <1>1 DEF TypeOK
<1>3. i <= Dispatched /\ Dispatched \in 0..N
  BY <1>1, ResolvableOnes, DispatchedOnes DEF Mispredict
<1>4. i \in 1..N /\ i \in 0..N
  BY <1>3, InflightType
<1>5. \A j \in 1..i : inflight[j].AL_index = (h.idx + j - 1) % N
  BY <1>1, <1>2, <1>3, InflightType DEF DispatchedFirst
<1>6. inflight[i].AL_index = (h.idx + i - 1) % N
  BY <1>4, <1>5
<1>7. activeList_Tail' = AdvanceBy(h, i, N)
  BY <1>1, <1>2, <1>4, <1>6, TailBehindIsOnward DEF Mispredict
<1>8. Ordered(h, AdvanceBy(h, i, N)) /\ Distance(h, AdvanceBy(h, i, N), N) = i
  BY <1>4, AdvanceByDistance
<1>9. /\ activeList_Head' = h /\ Len(inflight') = i
      /\ \A j \in 1..i : inflight'[j].AL_index = inflight[j].AL_index
  BY <1>2, MispredictShape DEF Mispredict
<1>10. ActiveListOf(h, AdvanceBy(h, i, N), i, inflight')
  BY <1>1, <1>4, <1>5, <1>8, <1>9 DEF ActiveListOf
<1> QED BY <1>7, <1>9, <1>10, DispatchedFirstAlways

\* Committing takes the entry at the head.
LEMMA CommitKeepsActiveList ==
  ASSUME SizesAgree, TypeOK, DispatchedFirst, NEW i \in 1..Len(inflight), Commit(i)
  PROVE  DispatchedFirst'
<1>1. PICK N \in Nat \ {0} : N = activeListSize
  BY Sizes
<1>2. PICK h \in Pointer(N), t \in Pointer(N) : h = activeList_Head /\ t = activeList_Tail
  BY <1>1 DEF TypeOK
<1>3. PICK n \in Nat \ {0} : n = Len(inflight)
  <2>1. Len(inflight) \in Nat
    BY InflightType
  <2>2. Len(inflight) # 0
    BY <2>1
  <2> QED BY <2>1, <2>2
<1>4. PICK D \in 0..N : D = Dispatched
  BY <1>1, DispatchedOnes
<1>5. /\ Ordered(h, t) /\ D = Distance(h, t, N) /\ D <= n /\ D > 0
      /\ \A j \in 1..n : inflight[j].AL_index = IF j <= D THEN (h.idx + j - 1) % N ELSE NotDispatched
  BY <1>1, <1>2, <1>3, <1>4, DispatchedFirstAlways, RetiresOldest
     DEF ActiveListOf, Dispatched, Commit
<1>6. PICK h2 \in Pointer(N) : h2 = Advance(h, N)
  BY AdvanceType
<1>7. Ordered(h2, t) /\ Distance(h2, t, N) = D - 1
  BY <1>5, <1>6, AdvanceHead
<1>8. /\ activeList_Head' = h2 /\ activeList_Tail' = t /\ Len(inflight') = n - 1
      /\ \A j \in 1..(n - 1) : inflight'[j] = inflight[j + 1]
  BY <1>1, <1>2, <1>3, <1>6, CommitShape DEF Commit, CommitRegisters
<1>9. /\ h.idx \in 0..(N - 1)
      /\ h2.idx = IF h.idx + 1 = N THEN 0 ELSE h.idx + 1
  BY <1>6 DEF Pointer, Advance
<1>10. \A j \in 1..(D - 1) : (h2.idx + j - 1) % N = (h.idx + j) % N
  <2> SUFFICES ASSUME NEW j \in 1..(D - 1) PROVE (h2.idx + j - 1) % N = (h.idx + j) % N
    OBVIOUS
  <2>1. PICK x \in 0..(2 * N - 1), y \in 0..(2 * N - 1) : x = h2.idx + j - 1 /\ y = h.idx + j
    BY <1>9
  <2>2. x % N = (IF x < N THEN x ELSE x - N) /\ y % N = (IF y < N THEN y ELSE y - N)
    BY ModOnce
  <2>3. x = y \/ (x = y - N /\ x < N)
    BY <1>9, <2>1
  <2> QED BY <2>1, <2>2, <2>3
<1>11. \A j \in 1..(n - 1) :
         inflight'[j].AL_index = IF j <= D - 1 THEN (h2.idx + j - 1) % N ELSE NotDispatched
  <2> SUFFICES ASSUME NEW j \in 1..(n - 1)
               PROVE  inflight'[j].AL_index
                        = IF j <= D - 1 THEN (h2.idx + j - 1) % N ELSE NotDispatched
    OBVIOUS
  <2>1. PICK k \in 1..n : k = j + 1
    OBVIOUS
  <2>2. inflight'[j].AL_index = IF k <= D THEN (h.idx + k - 1) % N ELSE NotDispatched
    BY <1>5, <1>8, <2>1
  <2>3. k <= D <=> j <= D - 1
    BY <2>1
  <2>4. h.idx + k - 1 = h.idx + j
    BY <1>9, <2>1
  <2> QED BY <1>10, <2>2, <2>3, <2>4
<1>12. ActiveListOf(h2, t, n - 1, inflight')
  BY <1>1, <1>5, <1>7, <1>11 DEF ActiveListOf
<1> QED BY <1>8, <1>12, DispatchedFirstAlways

\* Every step keeps the active list in order.
LEMMA ActiveListStep ==
  ASSUME SizesAgree, Renamed, [Next]_vars, TypeOK'
  PROVE  DispatchedFirst'
<1>0. TypeOK /\ DispatchedFirst /\ BranchesNamed /\ EnoughForBundle
  BY DEF Renamed
<1>1. CASE Next
  <2>1. CASE \E bundle \in Bundles : Rename2(bundle)
    BY <1>0, <2>1, DispatchedFirstAlways DEF Rename2, activeListVars
  <2>2. CASE RenameNext
    <3>1. PICK instr, phys, id, w : RenamedAs(instr, phys, id, w)
      BY <1>0, <2>2, RenameNextResult
    <3>2. inflight' = Append(inflight, w) /\ w.AL_index = NotDispatched
          /\ UNCHANGED <<activeList_Head, activeList_Tail>>
      BY <3>1 DEF RenamedAs, activeListVars
    <3>3. PICK n \in Nat : n = Len(inflight)
      BY <1>0, InflightType
    <3>4. /\ Len(inflight') = n + 1 /\ inflight'[n + 1] = w
          /\ \A j \in 1..n : inflight'[j] = inflight[j]
      BY <1>0, <2>2, <3>2, <3>3, RenamedShape
    <3>5. PICK D \in Nat : D = Distance(activeList_Head, activeList_Tail, activeListSize) /\ D <= n
      BY <1>0, <3>3, DispatchedOnes DEF Dispatched
    <3>6. ActiveListOf(activeList_Head, activeList_Tail, n, inflight)
      BY <1>0, <3>3, DispatchedFirstAlways
    <3>7. ActiveListOf(activeList_Head, activeList_Tail, n + 1, inflight')
      <4>1. \A i \in 1..(n + 1) :
              inflight'[i].AL_index = IF i <= D THEN (activeList_Head.idx + i - 1) % activeListSize
                                      ELSE NotDispatched
        <5> SUFFICES ASSUME NEW i \in 1..(n + 1)
                     PROVE  inflight'[i].AL_index
                              = IF i <= D THEN (activeList_Head.idx + i - 1) % activeListSize
                                ELSE NotDispatched
          OBVIOUS
        <5>1. CASE i \in 1..n
          BY <3>4, <3>5, <3>6, <5>1 DEF ActiveListOf
        <5>2. CASE i = n + 1
          BY <3>2, <3>4, <3>5, <5>2
        <5> QED BY <5>1, <5>2
      <4> QED BY <3>5, <3>6, <4>1 DEF ActiveListOf
    <3> QED BY <3>2, <3>4, <3>7, DispatchedFirstAlways
  <2>3. CASE Dispatch
    BY <1>0, <2>3, DispatchKeepsActiveList
  <2>4. CASE \E i \in 1..Len(inflight) : ResolveCorrect(i)
    <3>1. PICK i \in 1..Len(inflight) : ResolveCorrect(i)
      BY <2>4
    <3>2. /\ Len(inflight') = Len(inflight)
          /\ \A j \in 1..Len(inflight) : inflight'[j].AL_index = inflight[j].AL_index
          /\ UNCHANGED <<activeList_Head, activeList_Tail>>
      BY <1>0, <3>1, ResolveCorrectShape DEF ResolveCorrect, activeListVars
    <3> QED BY <1>0, <3>2, DispatchedFirstAlways DEF ActiveListOf
  <2>5. CASE \E i \in 1..Len(inflight) : Mispredict(i)
    BY <1>0, <2>5, MispredictKeepsActiveList
  <2>6. CASE \E i \in 1..Len(inflight) : Commit(i)
    BY <1>0, <2>6, CommitKeepsActiveList
  <2>7. CASE Squashed /\ RENAME2 = <<>>
    <3>1. inflight' = <<>> /\ activeList_Tail' = activeList_Head'
      BY <2>7 DEF Squashed, SquashRenamer
    <3>2. activeList_Head' \in Pointer(activeListSize) /\ activeListSize \in Nat \ {0}
      BY RenamerAssumption DEF TypeOK
    <3>3. PICK p \in Pointer(activeListSize) : p = activeList_Head'
      BY <3>2
    <3>4. Ordered(p, p) /\ Distance(p, p, activeListSize) = 0
      BY <3>2, DistanceZero
    <3>5. Len(<<>>) = 0 /\ 1..0 = {}
      OBVIOUS
    <3>6. ActiveListOf(p, p, 0, <<>>)
      BY <3>4, <3>5 DEF ActiveListOf
    <3> QED BY <3>1, <3>3, <3>5, <3>6, DispatchedFirstAlways
  <2> QED BY <1>0, <1>1, <2>1, <2>2, <2>3, <2>4, <2>5, <2>6, <2>7, Steps
<1>2. CASE UNCHANGED vars
  BY <1>0, <1>2, DispatchedFirstAlways DEF vars, activeListVars
<1> QED BY <1>1, <1>2

-----------------------------------------------------------------------------
(* Branches, their IDs and the masks that name them *)

\* The IDs of the unresolved branches among the first k of some instructions.
IDsUpTo(w, k) == {w[j].branch_ID : j \in {m \in 1..k : Open(w[m])}}

\* BranchesNamed of any n instructions, checkpoints and global mask.
BranchesOf(w, n, table, gbm) ==
  /\ \A i \in 1..n : Open(w[i]) => w[i].branch_ID \in CheckpointID
  /\ \A i, j \in 1..n : Open(w[i]) /\ Open(w[j]) /\ w[i].branch_ID = w[j].branch_ID => i = j
  /\ DOMAIN table = IDsUpTo(w, n)
  /\ Named(gbm) = IDsUpTo(w, n)
  /\ \A i \in 1..n : Named(w[i].branch_mask) = IDsUpTo(w, i - 1)
  /\ \A i \in 1..n : Open(w[i]) => Named(table[w[i].branch_ID].gbm) = IDsUpTo(w, i - 1)

\* BranchIDs is IDsUpTo of the instructions in flight.
LEMMA IDsAlways ==
  ASSUME NEW k
  PROVE  BranchIDs(k) = IDsUpTo(inflight, k)
BY OpenOnes DEF BranchIDs, IDsUpTo

\* BranchesOf the state.
BranchesFollow == BranchesOf(inflight, Len(inflight), branchCheckpointTable, GBM)

\* BranchesNamed is BranchesOf the state.
LEMMA BranchesNamedIs == BranchesNamed <=> BranchesFollow
<1>1. Unresolved(Len(inflight)) = {i \in 1..Len(inflight) : Open(inflight[i])}
  BY OpenOnes
<1>2. \A k : BranchIDs(k) = IDsUpTo(inflight, k)
  BY IDsAlways
<1> QED BY <1>1, <1>2 DEF BranchesNamed, BranchesOf, BranchesFollow

\* BranchesNamed, before a step and after it.
LEMMA BranchesNamedAlways ==
  /\ BranchesNamed <=> BranchesOf(inflight, Len(inflight), branchCheckpointTable, GBM)
  /\ BranchesNamed' <=> BranchesOf(inflight', Len(inflight'), branchCheckpointTable', GBM')
<1>1. BranchesNamed' <=> BranchesFollow'
  BY BranchesNamedIs, PTL
<1>2. BranchesFollow' <=> BranchesOf(inflight', Len(inflight'), branchCheckpointTable', GBM')
  BY DEF BranchesFollow
<1> QED BY <1>1, <1>2, BranchesNamedIs DEF BranchesFollow

\* What it takes to be the ID of an unresolved branch.
LEMMA InIDs ==
  ASSUME NEW w, NEW k, NEW x
  PROVE  x \in IDsUpTo(w, k) <=> \E j \in 1..k : Open(w[j]) /\ w[j].branch_ID = x
BY DEF IDsUpTo

\* The branches do not change.
LEMMA BranchesKept ==
  ASSUME NEW n \in Nat, NEW w, NEW w2, NEW table, NEW gbm, BranchesOf(w, n, table, gbm),
         \A j \in 1..n : /\ w2[j].branch_mask = w[j].branch_mask
                         /\ w2[j].branch_ID = w[j].branch_ID
                         /\ Open(w2[j]) <=> Open(w[j])
  PROVE  BranchesOf(w2, n, table, gbm)
<1>1. ASSUME NEW k \in 0..n PROVE IDsUpTo(w2, k) = IDsUpTo(w, k)
  <2>1. \A j \in 1..k : j \in 1..n
    OBVIOUS
  <2>2. \A x : x \in IDsUpTo(w2, k) <=> x \in IDsUpTo(w, k)
    BY <2>1, InIDs
  <2> QED BY <2>2
<1>2. n \in 0..n /\ \A i \in 1..n : i - 1 \in 0..n
  OBVIOUS
<1>3. \A i \in 1..n : IDsUpTo(w2, i - 1) = IDsUpTo(w, i - 1)
  BY <1>1, <1>2
<1>4. IDsUpTo(w2, n) = IDsUpTo(w, n)
  BY <1>1, <1>2
<1> QED BY <1>3, <1>4 DEF BranchesOf

\* An instruction that is no branch is renamed.
LEMMA BranchesRename ==
  ASSUME NEW n \in Nat, NEW w, NEW w2, NEW table, NEW gbm, BranchesOf(w, n, table, gbm),
         \A j \in 1..n : w2[j] = w[j],
         w2[n + 1].branch_mask = gbm, ~Open(w2[n + 1])
  PROVE  BranchesOf(w2, n + 1, table, gbm)
<1>1. ASSUME NEW k \in 0..n PROVE IDsUpTo(w2, k) = IDsUpTo(w, k)
  <2>1. \A j \in 1..k : j \in 1..n
    OBVIOUS
  <2>2. \A x : x \in IDsUpTo(w2, k) <=> x \in IDsUpTo(w, k)
    BY <2>1, InIDs
  <2> QED BY <2>2
<1>2. n \in 0..n /\ (\A i \in 1..n : i - 1 \in 0..n) /\ n + 1 - 1 = n
      /\ \A i \in 1..(n + 1) : i \in 1..n \/ i = n + 1
  OBVIOUS
<1>3. \A i \in 1..n : IDsUpTo(w2, i - 1) = IDsUpTo(w, i - 1)
  BY <1>1, <1>2
<1>4. IDsUpTo(w2, n) = IDsUpTo(w, n)
  BY <1>1, <1>2
<1>5. IDsUpTo(w2, n + 1) = IDsUpTo(w, n)
  <2>1. \A x : x \in IDsUpTo(w2, n + 1) <=> x \in IDsUpTo(w2, n)
    <3> SUFFICES ASSUME NEW x PROVE x \in IDsUpTo(w2, n + 1) <=> x \in IDsUpTo(w2, n)
      OBVIOUS
    <3>1. x \in IDsUpTo(w2, n + 1) <=> \E j \in 1..(n + 1) : Open(w2[j]) /\ w2[j].branch_ID = x
      BY InIDs
    <3>2. x \in IDsUpTo(w2, n) <=> \E j \in 1..n : Open(w2[j]) /\ w2[j].branch_ID = x
      BY InIDs
    <3>3. \A j \in 1..n : j \in 1..(n + 1)
      OBVIOUS
    <3> QED BY <1>2, <3>1, <3>2, <3>3
  <2> QED BY <1>4, <2>1
<1>6. Named(gbm) = IDsUpTo(w, n)
  BY DEF BranchesOf
<1>7. \A i \in 1..(n + 1) : Open(w2[i]) => i \in 1..n /\ Open(w[i]) /\ w2[i] = w[i]
  BY <1>2
<1>8. \A i \in 1..(n + 1) : Named(w2[i].branch_mask) = IDsUpTo(w2, i - 1)
  BY <1>2, <1>3, <1>4, <1>6 DEF BranchesOf
<1> QED BY <1>3, <1>5, <1>7, <1>8 DEF BranchesOf

\* A branch is renamed after n instructions, under an ID that was free.
ForkedAs(n, w, w2, id, table, table2, gbm, gbm2) ==
  /\ \A j \in 1..n : w2[j] = w[j]
  /\ w2[n + 1].branch_mask = gbm /\ Open(w2[n + 1]) /\ w2[n + 1].branch_ID = id
  /\ id \in CheckpointID \ gbm
  /\ DOMAIN table2 = DOMAIN table \cup {id}
  /\ \A b \in DOMAIN table : table2[b] = table[b]
  /\ table2[id].gbm = gbm
  /\ gbm2 = gbm \cup OneShifted(id)

\* A new instruction, with an unused ID if it is a branch, keeps the branches named.
LEMMA BranchesFork ==
  ASSUME SizesAgree,
         NEW n \in Nat, NEW w, NEW w2, NEW id, NEW table, NEW table2, NEW gbm, NEW gbm2,
         BranchesOf(w, n, table, gbm), ForkedAs(n, w, w2, id, table, table2, gbm, gbm2)
  PROVE  BranchesOf(w2, n + 1, table2, gbm2)
<1> USE DEF ForkedAs
<1>1. ASSUME NEW k \in 0..n PROVE IDsUpTo(w2, k) = IDsUpTo(w, k)
  <2>1. \A j \in 1..k : j \in 1..n
    OBVIOUS
  <2>2. \A x : x \in IDsUpTo(w2, k) <=> x \in IDsUpTo(w, k)
    BY <2>1, InIDs
  <2> QED BY <2>2
<1>2. n \in 0..n /\ (\A i \in 1..n : i - 1 \in 0..n) /\ n + 1 - 1 = n
      /\ \A i \in 1..(n + 1) : i \in 1..n \/ i = n + 1
  OBVIOUS
<1>3. \A i \in 1..n : IDsUpTo(w2, i - 1) = IDsUpTo(w, i - 1)
  BY <1>1, <1>2
<1>4. IDsUpTo(w2, n) = IDsUpTo(w, n)
  BY <1>1, <1>2
<1>5. IDsUpTo(w2, n + 1) = IDsUpTo(w, n) \cup {id}
  <2>1. \A x : x \in IDsUpTo(w2, n + 1) <=> x \in IDsUpTo(w2, n) \/ x = id
    <3> SUFFICES ASSUME NEW x PROVE x \in IDsUpTo(w2, n + 1) <=> x \in IDsUpTo(w2, n) \/ x = id
      OBVIOUS
    <3>1. x \in IDsUpTo(w2, n + 1) <=> \E j \in 1..(n + 1) : Open(w2[j]) /\ w2[j].branch_ID = x
      BY InIDs
    <3>2. x \in IDsUpTo(w2, n) <=> \E j \in 1..n : Open(w2[j]) /\ w2[j].branch_ID = x
      BY InIDs
    <3>3. (\A j \in 1..n : j \in 1..(n + 1)) /\ n + 1 \in 1..(n + 1)
      OBVIOUS
    <3> QED BY <1>2, <3>1, <3>2, <3>3
  <2> QED BY <1>4, <2>1
<1>6. Named(gbm) = IDsUpTo(w, n) /\ DOMAIN table = IDsUpTo(w, n)
  BY DEF BranchesOf
<1>7. Named(gbm \cup OneShifted(id)) = Named(gbm) \cup {id}
  <2>1. id \in CheckpointID
    OBVIOUS
  <2>2. Named(OneShifted(id)) = {id}
    BY <2>1, ShiftedBit
  <2> QED BY <2>2 DEF Named
<1>8. id \notin IDsUpTo(w, n)
  BY <1>6 DEF Named
<1>9. \A j \in 1..n : Open(w[j]) => w[j].branch_ID \in DOMAIN table /\ w[j].branch_ID # id
  BY <1>6, <1>8, InIDs
<1>10. \A i, j \in 1..(n + 1) :
         Open(w2[i]) /\ Open(w2[j]) /\ w2[i].branch_ID = w2[j].branch_ID => i = j
  BY <1>2, <1>9 DEF BranchesOf
<1>11. \A i \in 1..(n + 1) : Named(w2[i].branch_mask) = IDsUpTo(w2, i - 1)
  BY <1>2, <1>3, <1>4, <1>6 DEF BranchesOf
<1>12. \A i \in 1..(n + 1) : Open(w2[i]) => Named(table2[w2[i].branch_ID].gbm) = IDsUpTo(w2, i - 1)
  <2>1. ASSUME NEW i \in 1..n, Open(w2[i])
        PROVE  Named(table2[w2[i].branch_ID].gbm) = IDsUpTo(w2, i - 1)
    BY <1>3, <1>9, <2>1 DEF BranchesOf
  <2>2. Named(table2[w2[n + 1].branch_ID].gbm) = IDsUpTo(w2, n)
    BY <1>4, <1>6
  <2> QED BY <1>2, <2>1, <2>2
<1>13. \A i \in 1..(n + 1) : Open(w2[i]) => w2[i].branch_ID \in CheckpointID
  BY <1>2 DEF BranchesOf
<1>14. DOMAIN table2 = IDsUpTo(w2, n + 1) /\ Named(gbm \cup OneShifted(id)) = IDsUpTo(w2, n + 1)
  BY <1>5, <1>6, <1>7
<1> QED BY <1>10, <1>11, <1>12, <1>13, <1>14 DEF BranchesOf

\* A branch resolves: its bit goes, from wherever it was.
ResolvedAs(n, w, w2, i, id, table, table2, gbm, gbm2) ==
  /\ Open(w[i]) /\ id = w[i].branch_ID
  /\ \A j \in 1..n : /\ w2[j].branch_mask = w[j].branch_mask \ {id}
                     /\ w2[j].branch_ID = w[j].branch_ID
                     /\ Open(w2[j]) <=> Open(w[j]) /\ j # i
  /\ DOMAIN table2 = DOMAIN table \ OneShifted(id)
  /\ \A b \in DOMAIN table2 : table2[b].gbm = table[b].gbm \ OneShifted(id)
  /\ gbm2 = gbm \ OneShifted(id)

\* So does taking a correctly predicted branch and its ID out of everything.
LEMMA BranchesResolve ==
  ASSUME SizesAgree,
         NEW n \in Nat, NEW w, NEW w2, NEW i \in 1..n, NEW id,
         NEW table, NEW table2, NEW gbm, NEW gbm2,
         BranchesOf(w, n, table, gbm), ResolvedAs(n, w, w2, i, id, table, table2, gbm, gbm2)
  PROVE  BranchesOf(w2, n, table2, gbm2)
<1> USE DEF ResolvedAs
<1>0. id \in CheckpointID /\ Named(OneShifted(id)) = {id}
  <2>1. id \in CheckpointID
    BY DEF BranchesOf
  <2> QED BY <2>1, ShiftedBit
<1>1. ASSUME NEW m
      PROVE  Named(m \ OneShifted(id)) = Named(m) \ {id} /\ Named(m \ {id}) = Named(m) \ {id}
  BY <1>0 DEF Named
<1>2. ASSUME NEW k \in 0..n PROVE IDsUpTo(w2, k) = IDsUpTo(w, k) \ {id}
  <2>1. \A j \in 1..k : j \in 1..n
    OBVIOUS
  <2>2. \A x : x \in IDsUpTo(w2, k) <=> x \in IDsUpTo(w, k) /\ x # id
    <3> SUFFICES ASSUME NEW x PROVE x \in IDsUpTo(w2, k) <=> x \in IDsUpTo(w, k) /\ x # id
      OBVIOUS
    <3>1. x \in IDsUpTo(w2, k) <=> \E j \in 1..k : Open(w[j]) /\ j # i /\ w[j].branch_ID = x
      BY <2>1, InIDs
    <3>2. x \in IDsUpTo(w, k) <=> \E j \in 1..k : Open(w[j]) /\ w[j].branch_ID = x
      BY InIDs
    <3>3. \A j \in 1..k : Open(w[j]) => (j # i <=> w[j].branch_ID # id)
      BY <2>1 DEF BranchesOf
    <3> QED BY <3>1, <3>2, <3>3
  <2> QED BY <2>2
<1>3. n \in 0..n /\ \A j \in 1..n : j - 1 \in 0..n
  OBVIOUS
<1>4. \A j \in 1..n : IDsUpTo(w2, j - 1) = IDsUpTo(w, j - 1) \ {id}
  BY <1>2, <1>3
<1>5. IDsUpTo(w2, n) = IDsUpTo(w, n) \ {id}
  BY <1>2, <1>3
<1>6. DOMAIN table = IDsUpTo(w, n) /\ Named(gbm) = IDsUpTo(w, n)
  BY DEF BranchesOf
<1>7. DOMAIN table2 = IDsUpTo(w2, n)
  <2>1. DOMAIN table = Named(DOMAIN table)
    BY <1>6 DEF Named
  <2>2. DOMAIN table \ OneShifted(id) = Named(DOMAIN table \ OneShifted(id))
    BY <2>1 DEF Named
  <2> QED BY <1>1, <1>5, <1>6, <2>1, <2>2
<1>8. Named(gbm \ OneShifted(id)) = IDsUpTo(w2, n)
  BY <1>1, <1>5, <1>6
<1>9. \A j \in 1..n : Named(w2[j].branch_mask) = IDsUpTo(w2, j - 1)
  <2> SUFFICES ASSUME NEW j \in 1..n PROVE Named(w2[j].branch_mask) = IDsUpTo(w2, j - 1)
    OBVIOUS
  <2>1. PICK m : m = w[j].branch_mask
    OBVIOUS
  <2>2. Named(m) = IDsUpTo(w, j - 1) /\ w2[j].branch_mask = m \ {id}
    BY <2>1 DEF BranchesOf
  <2>3. Named(m \ {id}) = Named(m) \ {id}
    BY <1>1
  <2> QED BY <1>4, <2>2, <2>3
<1>10. ASSUME NEW j \in 1..n, Open(w2[j])
       PROVE  Named(table2[w2[j].branch_ID].gbm) = IDsUpTo(w2, j - 1)
  <2>1. Open(w[j]) /\ w2[j].branch_ID = w[j].branch_ID
    BY <1>10
  <2>2. w2[j].branch_ID \in IDsUpTo(w2, n)
    BY <1>10, InIDs
  <2>3. table2[w[j].branch_ID].gbm = table[w[j].branch_ID].gbm \ OneShifted(id)
    BY <1>7, <2>1, <2>2
  <2>4. PICK m : m = table[w[j].branch_ID].gbm
    OBVIOUS
  <2>5. Named(m) = IDsUpTo(w, j - 1)
    BY <2>1, <2>4 DEF BranchesOf
  <2>6. Named(m \ OneShifted(id)) = Named(m) \ {id}
    BY <1>1
  <2> QED BY <1>4, <2>1, <2>3, <2>4, <2>5, <2>6
<1>11. \A j \in 1..n : Open(w2[j]) => w2[j].branch_ID \in CheckpointID
  BY DEF BranchesOf
<1>12. \A j, k \in 1..n :
         Open(w2[j]) /\ Open(w2[k]) /\ w2[j].branch_ID = w2[k].branch_ID => j = k
  BY DEF BranchesOf
<1> QED BY <1>7, <1>8, <1>9, <1>10, <1>11, <1>12 DEF BranchesOf

\* A branch was mispredicted: the older ones are left.
RestoredTo(w, w2, i, id, table, table2, gbm2) ==
  /\ Open(w[i]) /\ id = w[i].branch_ID
  /\ \A j \in 1..i : /\ w2[j].branch_mask = w[j].branch_mask
                     /\ w2[j].branch_ID = w[j].branch_ID
                     /\ Open(w2[j]) <=> Open(w[j]) /\ j # i
  /\ gbm2 = table[id].gbm \ OneShifted(id)
  /\ DOMAIN table2 = DOMAIN table \cap gbm2
  /\ \A b \in DOMAIN table2 : table2[b] = table[b]

\* So does going back to the checkpoint of a mispredicted branch.
LEMMA BranchesRestore ==
  ASSUME SizesAgree,
         NEW n \in Nat, NEW w, NEW w2, NEW i \in 1..n, NEW id,
         NEW table, NEW table2, NEW gbm, NEW gbm2,
         BranchesOf(w, n, table, gbm), RestoredTo(w, w2, i, id, table, table2, gbm2)
  PROVE  BranchesOf(w2, i, table2, gbm2)
<1> USE DEF RestoredTo
<1>0. id \in CheckpointID /\ Named(OneShifted(id)) = {id}
  <2>1. id \in CheckpointID
    BY DEF BranchesOf
  <2> QED BY <2>1, ShiftedBit
<1>1. ASSUME NEW k \in 0..i PROVE IDsUpTo(w2, k) = IDsUpTo(w, k) \ {id}
  <2>1. \A j \in 1..k : j \in 1..n /\ j \in 1..i
    OBVIOUS
  <2>2. \A x : x \in IDsUpTo(w2, k) <=> x \in IDsUpTo(w, k) /\ x # id
    <3> SUFFICES ASSUME NEW x PROVE x \in IDsUpTo(w2, k) <=> x \in IDsUpTo(w, k) /\ x # id
      OBVIOUS
    <3>1. x \in IDsUpTo(w2, k) <=> \E j \in 1..k : Open(w[j]) /\ j # i /\ w[j].branch_ID = x
      BY <2>1, InIDs
    <3>2. x \in IDsUpTo(w, k) <=> \E j \in 1..k : Open(w[j]) /\ w[j].branch_ID = x
      BY InIDs
    <3>3. \A j \in 1..k : Open(w[j]) => (j # i <=> w[j].branch_ID # id)
      BY <2>1 DEF BranchesOf
    <3> QED BY <3>1, <3>2, <3>3
  <2> QED BY <2>2
<1>2. i \in 0..i /\ (\A j \in 1..i : j - 1 \in 0..i /\ j \in 1..n) /\ i - 1 \in 0..i
  OBVIOUS
<1>3. \A k \in 0..(i - 1) : id \notin IDsUpTo(w, k)
  <2> SUFFICES ASSUME NEW k \in 0..(i - 1), id \in IDsUpTo(w, k) PROVE FALSE
    OBVIOUS
  <2>1. PICK j \in 1..k : Open(w[j]) /\ w[j].branch_ID = id
    BY InIDs
  <2>2. j \in 1..n /\ j # i
    OBVIOUS
  <2> QED BY <2>1, <2>2 DEF BranchesOf
<1>4. \A j \in 1..i : IDsUpTo(w2, j - 1) = IDsUpTo(w, j - 1)
  <2> SUFFICES ASSUME NEW j \in 1..i PROVE IDsUpTo(w2, j - 1) = IDsUpTo(w, j - 1)
    OBVIOUS
  <2>1. j - 1 \in 0..i /\ j - 1 \in 0..(i - 1)
    OBVIOUS
  <2>2. IDsUpTo(w2, j - 1) = IDsUpTo(w, j - 1) \ {id}
    BY <1>1, <2>1
  <2>3. id \notin IDsUpTo(w, j - 1)
    BY <1>3, <2>1
  <2> QED BY <2>2, <2>3
<1>5. IDsUpTo(w2, i) = IDsUpTo(w, i - 1)
  <2>1. \A x : x \in IDsUpTo(w2, i) <=> x \in IDsUpTo(w2, i - 1)
    <3> SUFFICES ASSUME NEW x PROVE x \in IDsUpTo(w2, i) <=> x \in IDsUpTo(w2, i - 1)
      OBVIOUS
    <3>1. x \in IDsUpTo(w2, i) <=> \E j \in 1..i : Open(w2[j]) /\ w2[j].branch_ID = x
      BY InIDs
    <3>2. x \in IDsUpTo(w2, i - 1) <=> \E j \in 1..(i - 1) : Open(w2[j]) /\ w2[j].branch_ID = x
      BY InIDs
    <3>3. \A j \in 1..i : j # i <=> j \in 1..(i - 1)
      OBVIOUS
    <3>4. \A j \in 1..(i - 1) : j \in 1..i
      OBVIOUS
    <3> QED BY <3>1, <3>2, <3>3, <3>4
  <2>2. IDsUpTo(w2, i) = IDsUpTo(w2, i - 1)
    BY <2>1
  <2>3. IDsUpTo(w2, i - 1) = IDsUpTo(w, i - 1)
    BY <1>4
  <2> QED BY <2>2, <2>3
<1>6. Named(gbm2) = IDsUpTo(w2, i)
  <2>1. Named(table[id].gbm) = IDsUpTo(w, i - 1)
    BY DEF BranchesOf
  <2>2. Named(gbm2) = Named(table[id].gbm) \ {id}
    BY <1>0 DEF Named
  <2>3. id \notin IDsUpTo(w, i - 1)
    <3>1. i - 1 \in 0..(i - 1)
      OBVIOUS
    <3> QED BY <1>3, <3>1
  <2>4. Named(table[id].gbm) \ {id} = IDsUpTo(w, i - 1)
    BY <2>1, <2>3
  <2> QED BY <1>5, <2>2, <2>4
<1>7. DOMAIN table2 = IDsUpTo(w2, i)
  <2>1. DOMAIN table = IDsUpTo(w, n) /\ Named(gbm) = IDsUpTo(w, n)
    BY DEF BranchesOf
  <2>2. DOMAIN table \cap gbm2 = DOMAIN table \cap Named(gbm2)
    BY <2>1 DEF Named
  <2>3. IDsUpTo(w, i - 1) \subseteq IDsUpTo(w, n)
    <3> SUFFICES ASSUME NEW x \in IDsUpTo(w, i - 1) PROVE x \in IDsUpTo(w, n)
      OBVIOUS
    <3>1. PICK j \in 1..(i - 1) : Open(w[j]) /\ w[j].branch_ID = x
      BY InIDs
    <3>2. j \in 1..n
      OBVIOUS
    <3> QED BY <3>1, <3>2, InIDs
  <2> QED BY <1>5, <1>6, <2>1, <2>2, <2>3
<1>8. \A j \in 1..i : Named(w2[j].branch_mask) = IDsUpTo(w2, j - 1)
  BY <1>2, <1>4 DEF BranchesOf
<1>9. ASSUME NEW j \in 1..i, Open(w2[j])
      PROVE  Named(table2[w2[j].branch_ID].gbm) = IDsUpTo(w2, j - 1)
  <2>1. Open(w[j]) /\ w2[j].branch_ID = w[j].branch_ID /\ j \in 1..n
    BY <1>2, <1>9
  <2>2. w2[j].branch_ID \in IDsUpTo(w2, i)
    BY <1>9, InIDs
  <2>3. table2[w[j].branch_ID] = table[w[j].branch_ID]
    BY <1>7, <2>1, <2>2
  <2>4. Named(table[w[j].branch_ID].gbm) = IDsUpTo(w, j - 1)
    BY <2>1 DEF BranchesOf
  <2> QED BY <1>4, <2>1, <2>3, <2>4
<1>10. \A j \in 1..i : Open(w2[j]) => w2[j].branch_ID \in CheckpointID
  BY <1>2 DEF BranchesOf
<1>11. \A j, k \in 1..i :
         Open(w2[j]) /\ Open(w2[k]) /\ w2[j].branch_ID = w2[k].branch_ID => j = k
  BY <1>2 DEF BranchesOf
<1> QED BY <1>6, <1>7, <1>8, <1>9, <1>10, <1>11 DEF BranchesOf

\* The oldest instruction leaves, and is no unresolved branch.
LEMMA BranchesMoveUp ==
  ASSUME NEW n \in Nat \ {0}, NEW w, NEW w2, NEW table, NEW gbm, BranchesOf(w, n, table, gbm),
         ~Open(w[1]), \A j \in 1..(n - 1) : w2[j] = w[j + 1]
  PROVE  BranchesOf(w2, n - 1, table, gbm)
<1>1. ASSUME NEW k \in 0..(n - 1) PROVE IDsUpTo(w2, k) = IDsUpTo(w, k + 1)
  <2>1. \A x : x \in IDsUpTo(w2, k) <=> x \in IDsUpTo(w, k + 1)
    <3> SUFFICES ASSUME NEW x PROVE x \in IDsUpTo(w2, k) <=> x \in IDsUpTo(w, k + 1)
      OBVIOUS
    <3>1. x \in IDsUpTo(w2, k) <=> \E j \in 1..k : Open(w[j + 1]) /\ w[j + 1].branch_ID = x
      <4>1. \A j \in 1..k : j \in 1..(n - 1)
        OBVIOUS
      <4> QED BY <4>1, InIDs
    <3>2. x \in IDsUpTo(w, k + 1) <=> \E j \in 1..(k + 1) : Open(w[j]) /\ w[j].branch_ID = x
      BY InIDs
    <3>3. ASSUME NEW j \in 1..(k + 1), Open(w[j])
          PROVE  j - 1 \in 1..k /\ j = (j - 1) + 1
      BY <3>3
    <3>4. \A j \in 1..k : j + 1 \in 1..(k + 1)
      OBVIOUS
    <3> QED BY <3>1, <3>2, <3>3, <3>4
  <2> QED BY <2>1
<1>2. \A j \in 1..(n - 1) : j - 1 \in 0..(n - 1) /\ j - 1 + 1 = j /\ j + 1 \in 1..n /\ j + 1 - 1 = j
  OBVIOUS
<1>3. \A j \in 1..(n - 1) : IDsUpTo(w2, j - 1) = IDsUpTo(w, j)
  BY <1>1, <1>2
<1>4. IDsUpTo(w2, n - 1) = IDsUpTo(w, n)
  <2>1. n - 1 \in 0..(n - 1) /\ n - 1 + 1 = n
    OBVIOUS
  <2> QED BY <1>1, <2>1
<1>5. \A j \in 1..(n - 1) : Named(w2[j].branch_mask) = IDsUpTo(w2, j - 1)
  <2> SUFFICES ASSUME NEW j \in 1..(n - 1) PROVE Named(w2[j].branch_mask) = IDsUpTo(w2, j - 1)
    OBVIOUS
  <2>1. PICK k \in 1..n : k = j + 1
    OBVIOUS
  <2>2. Named(w[k].branch_mask) = IDsUpTo(w, k - 1)
    BY DEF BranchesOf
  <2>3. k - 1 = j
    BY <2>1
  <2> QED BY <1>3, <2>1, <2>2, <2>3
<1>6. \A j \in 1..(n - 1) : Open(w2[j]) => Named(table[w2[j].branch_ID].gbm) = IDsUpTo(w2, j - 1)
  <2> SUFFICES ASSUME NEW j \in 1..(n - 1), Open(w2[j])
               PROVE  Named(table[w2[j].branch_ID].gbm) = IDsUpTo(w2, j - 1)
    OBVIOUS
  <2>1. PICK k \in 1..n : k = j + 1
    OBVIOUS
  <2>2. Open(w[k]) => Named(table[w[k].branch_ID].gbm) = IDsUpTo(w, k - 1)
    BY DEF BranchesOf
  <2>3. k - 1 = j
    BY <2>1
  <2> QED BY <1>3, <2>1, <2>2, <2>3
<1>7. \A j \in 1..(n - 1) : Open(w2[j]) => w2[j].branch_ID \in CheckpointID
  BY <1>2 DEF BranchesOf
<1>8. \A j, k \in 1..(n - 1) :
         Open(w2[j]) /\ Open(w2[k]) /\ w2[j].branch_ID = w2[k].branch_ID => j = k
  <2> SUFFICES ASSUME NEW j \in 1..(n - 1), NEW k \in 1..(n - 1),
                      Open(w2[j]), Open(w2[k]), w2[j].branch_ID = w2[k].branch_ID
               PROVE  j = k
    OBVIOUS
  <2>1. j + 1 = k + 1
    BY <1>2 DEF BranchesOf
  <2> QED BY <2>1
<1>9. DOMAIN table = IDsUpTo(w2, n - 1) /\ Named(gbm) = IDsUpTo(w2, n - 1)
  BY <1>4 DEF BranchesOf
<1> QED BY <1>5, <1>6, <1>7, <1>8, <1>9 DEF BranchesOf

\* Every step keeps the branches named.
LEMMA BranchesStep ==
  ASSUME SizesAgree, Renamed, [Next]_vars
  PROVE  BranchesNamed'
<1>0. TypeOK /\ DispatchedFirst /\ BranchesNamed /\ EnoughForBundle
  BY DEF Renamed
<1>1. PICK n \in Nat, table \in {branchCheckpointTable} : n = Len(inflight) /\ table = branchCheckpointTable
  BY <1>0, InflightType
<1>2. BranchesOf(inflight, n, table, GBM)
  BY <1>0, <1>1, BranchesNamedAlways
<1>3. CASE Next
  <2>1. CASE \E bundle \in Bundles : Rename2(bundle)
    BY <1>1, <1>2, <2>1, BranchesNamedAlways DEF Rename2
  <2>2. CASE RenameNext
    <3>1. PICK instr, phys, id, w : RenamedAs(instr, phys, id, w)
      BY <1>0, <2>2, RenameNextResult
    <3>2. inflight' = Append(inflight, w)
          /\ w.branch_mask = GBM /\ w.branch_ID = id /\ (Open(w) <=> Forks(instr))
      BY <3>1 DEF RenamedAs
    <3>3. /\ Len(inflight') = n + 1 /\ inflight'[n + 1] = w
          /\ \A j \in 1..n : inflight'[j] = inflight[j]
      <4>1. inflight \in Seq(Payload) /\ w \in Payload
        BY <1>0, <3>1 DEF TypeOK, RenamedAs
      <4> QED BY <1>1, <3>2, <4>1
    <3>4. CASE ~Forks(instr)
      <4>1. GBM' = GBM /\ branchCheckpointTable' = table
        BY <1>1, <3>1, <3>4 DEF RenamedAs
      <4>2. BranchesOf(inflight', n + 1, table, GBM)
        BY <1>2, <3>2, <3>3, <3>4, BranchesRename
      <4> QED BY <3>3, <4>1, <4>2, BranchesNamedAlways
    <3>5. CASE Forks(instr)
      <4>1. id \in CheckpointID \ GBM /\ GBM' = GBM \cup OneShifted(id)
        BY <3>1, <3>5 DEF RenamedAs
      <4>2. PICK v : /\ v = [freeListHead |-> freeList_Head', gbm |-> GBM, shadowMapTable |-> RMT']
                     /\ branchCheckpointTable' = [b \in DOMAIN table \cup {id} |->
                                                   IF b = id THEN v ELSE table[b]]
        <5>1. PICK v : v = [freeListHead |-> freeList_Head', gbm |-> GBM, shadowMapTable |-> RMT']
          OBVIOUS
        <5> QED BY <1>1, <3>1, <3>5, <5>1 DEF RenamedAs
      <4>3. id \notin DOMAIN table
        BY <1>0, <1>1, <4>1 DEF TypeOK
      <4>4. /\ DOMAIN branchCheckpointTable' = DOMAIN table \cup {id}
            /\ branchCheckpointTable'[id].gbm = GBM
            /\ \A b \in DOMAIN table : branchCheckpointTable'[b] = table[b]
        BY <4>2, <4>3
      <4>5. inflight'[n + 1].branch_mask = GBM /\ inflight'[n + 1].branch_ID = id
            /\ Open(inflight'[n + 1])
        BY <3>2, <3>3, <3>5
      <4>6. ForkedAs(n, inflight, inflight', id, table, branchCheckpointTable', GBM, GBM')
        BY <3>3, <4>1, <4>4, <4>5, Zenon DEF ForkedAs
      <4>7. BranchesOf(inflight', n + 1, branchCheckpointTable', GBM')
        BY <1>2, <4>6, BranchesFork
      <4> QED BY <3>3, <4>7, BranchesNamedAlways
    <3> QED BY <3>4, <3>5
  <2>3. CASE Dispatch
    <3>1. /\ Len(inflight') = n
          /\ \A j \in 1..n : /\ inflight'[j].branch_mask = inflight[j].branch_mask
                             /\ inflight'[j].branch_ID = inflight[j].branch_ID
                             /\ Open(inflight'[j]) <=> Open(inflight[j])
      BY <1>0, <1>1, <2>3, DispatchShape
    <3>2. BranchesOf(inflight', n, table, GBM)
      BY <1>2, <3>1, BranchesKept
    <3>3. GBM' = GBM /\ branchCheckpointTable' = table
      BY <1>1, <2>3 DEF Dispatch
    <3> QED BY <3>1, <3>2, <3>3, BranchesNamedAlways
  <2>4. CASE \E i \in 1..Len(inflight) : ResolveCorrect(i)
    <3>1. PICK i \in 1..n : ResolveCorrect(i)
      BY <1>1, <2>4
    <3>2. PICK id : id = inflight[i].branch_ID
      OBVIOUS
    <3>3. /\ Len(inflight') = n
          /\ \A j \in 1..n : /\ inflight'[j].branch_mask = inflight[j].branch_mask \ {id}
                             /\ inflight'[j].branch_ID = inflight[j].branch_ID
                             /\ Open(inflight'[j]) <=> Open(inflight[j]) /\ j # i
      BY <1>0, <1>1, <3>1, <3>2, ResolveCorrectShape
    <3>4. /\ GBM' = GBM \ OneShifted(id)
          /\ branchCheckpointTable' = ClearedCheckpoints(OneShifted(id))
          /\ Resolvable(i)
      BY <3>1, <3>2 DEF ResolveCorrect
    <3>5. Open(inflight[i])
      BY <1>0, <1>1, <3>4, ResolvableOnes
    <3>6. PICK table2 : table2 = ClearedCheckpoints(OneShifted(id))
      OBVIOUS
    <3>7. /\ DOMAIN table2 = DOMAIN table \ OneShifted(id)
          /\ \A b \in DOMAIN table2 : table2[b].gbm = table[b].gbm \ OneShifted(id)
      BY <1>0, <1>1, <3>6, ClearedType
    <3>8. ResolvedAs(n, inflight, inflight', i, id, table, table2, GBM, GBM')
      BY <3>2, <3>3, <3>4, <3>5, <3>7, Zenon DEF ResolvedAs
    <3>9. BranchesOf(inflight', n, table2, GBM')
      BY <1>2, <3>8, BranchesResolve
    <3> QED BY <3>3, <3>4, <3>6, <3>9, BranchesNamedAlways
  <2>5. CASE \E i \in 1..Len(inflight) : Mispredict(i)
    <3>1. PICK i \in 1..n : Mispredict(i)
      BY <1>1, <2>5
    <3>2. PICK id : id = inflight[i].branch_ID
      OBVIOUS
    <3>3. /\ Len(inflight') = i
          /\ \A j \in 1..i : /\ inflight'[j].branch_mask = inflight[j].branch_mask
                             /\ inflight'[j].branch_ID = inflight[j].branch_ID
                             /\ Open(inflight'[j]) <=> Open(inflight[j]) /\ j # i
      BY <1>0, <1>1, <3>1, MispredictShape
    <3>4. /\ GBM' = table[id].gbm \ OneShifted(id)
          /\ branchCheckpointTable' = Restrict(table, DOMAIN table \cap GBM')
          /\ Resolvable(i)
      BY <1>1, <3>1, <3>2 DEF Mispredict
    <3>5. Open(inflight[i])
      BY <1>0, <1>1, <3>4, ResolvableOnes
    <3>6. /\ DOMAIN branchCheckpointTable' = DOMAIN table \cap GBM'
          /\ \A b \in DOMAIN branchCheckpointTable' : branchCheckpointTable'[b] = table[b]
      BY <3>4 DEF Restrict
    <3>7. PICK table2, gbm2 : table2 = branchCheckpointTable' /\ gbm2 = GBM'
      OBVIOUS
    <3>8. RestoredTo(inflight, inflight', i, id, table, table2, gbm2)
      BY <3>2, <3>3, <3>4, <3>5, <3>6, <3>7, Zenon DEF RestoredTo
    <3>9. BranchesOf(inflight', i, table2, gbm2)
      BY <1>2, <3>8, BranchesRestore
    <3> QED BY <3>3, <3>7, <3>9, BranchesNamedAlways
  <2>6. CASE \E i \in 1..Len(inflight) : Commit(i)
    <3>1. PICK i \in 1..Len(inflight) : Commit(i)
      BY <2>6
    <3>2. /\ Len(inflight') = n - 1 /\ ~Open(inflight[1])
          /\ \A j \in 1..(n - 1) : inflight'[j] = inflight[j + 1]
      BY <1>0, <1>1, <3>1, CommitShape
    <3>3. n \in Nat \ {0}
      BY <1>1, <3>1
    <3>4. BranchesOf(inflight', n - 1, table, GBM)
      BY <1>2, <3>2, <3>3, BranchesMoveUp
    <3>5. GBM' = GBM /\ branchCheckpointTable' = table
      BY <1>1, <3>1 DEF Commit
    <3> QED BY <3>2, <3>4, <3>5, BranchesNamedAlways
  <2>7. CASE Squashed /\ RENAME2 = <<>>
    <3>1. inflight' = <<>> /\ GBM' = {} /\ branchCheckpointTable' = NoCheckpoints
      BY <2>7 DEF Squashed, SquashRenamer
    <3>2. Len(<<>>) = 0 /\ 1..0 = {}
      OBVIOUS
    <3>3. IDsUpTo(<<>>, 0) = {}
      BY <3>2 DEF IDsUpTo
    <3>4. BranchesOf(<<>>, 0, NoCheckpoints, {})
      BY <3>2, <3>3 DEF BranchesOf, NoCheckpoints, Named
    <3> QED BY <3>1, <3>2, <3>4, BranchesNamedAlways
  <2> QED BY <1>0, <1>3, <2>1, <2>2, <2>3, <2>4, <2>5, <2>6, <2>7, Steps
<1>4. CASE UNCHANGED vars
  BY <1>1, <1>2, <1>4, BranchesNamedAlways DEF vars
<1> QED BY <1>3, <1>4

-----------------------------------------------------------------------------
(* Registers *)

\* Which of n instructions have a destination.
Writers(w, n) == {i \in 1..n : w[i].dest # NoReg}

\* WithDest is Writers of the instructions in flight.
LEMMA WithDestIs == WithDest = Writers(inflight, Len(inflight))
BY DEF WithDest, Writers

\* Which instructions write, and how many do.
LEMMA WritersType ==
  ASSUME NEW w, NEW n \in Nat
  PROVE  Writers(w, n) \in SUBSET (1..n) /\ Cardinality(Writers(w, n)) \in 0..n
<1>1. Writers(w, n) \in SUBSET (1..n)
  BY DEF Writers
<1>2. 1 \in Int
  OBVIOUS
<1> QED BY <1>1, <1>2, CountType

\* The number of writers among some more instructions, and among the others when the oldest leaves.
LEMMA WritersNext ==
  ASSUME NEW w, NEW w2, NEW n \in Nat, \A j \in 1..n : w2[j].dest = w[j].dest
  PROVE  /\ \A i \in 1..(n + 1) : Count(Writers(w2, n), i) = Count(Writers(w, n), i)
         /\ \A i \in 1..(n + 1) : Count(Writers(w2, n + 1), i) = Count(Writers(w, n), i)
         /\ Cardinality(Writers(w2, n)) = Cardinality(Writers(w, n))
         /\ Cardinality(Writers(w2, n + 1))
              = Cardinality(Writers(w, n)) + (IF w2[n + 1].dest # NoReg THEN 1 ELSE 0)
<1>1. /\ Writers(w, n) \in SUBSET (1..n) /\ Writers(w2, n) \in SUBSET (1..n)
      /\ Writers(w, n) \in SUBSET (1..(n + 1)) /\ Writers(w2, n + 1) \in SUBSET (1..(n + 1))
      /\ n + 1 \in Nat
  BY DEF Writers
<1>2. Writers(w2, n) = Writers(w, n)
  BY DEF Writers
<1>3. ASSUME NEW i \in 1..(n + 1)
      PROVE  Count(Writers(w2, n + 1), i) = Count(Writers(w, n), i)
  <2>1. PICK m \in Nat : m = n + 1
    BY <1>1
  <2>2. \A j \in 1..m : j < i => (j \in Writers(w2, m) <=> j \in Writers(w, n))
    BY <2>1 DEF Writers
  <2>3. Writers(w, n) \in SUBSET (1..m) /\ Writers(w2, m) \in SUBSET (1..m) /\ i \in Int
    BY <1>1, <2>1
  <2>4. Count(Writers(w2, m), i) = Count(Writers(w, n), i)
    BY <2>2, <2>3, CountSame
  <2> QED BY <2>1, <2>4
<1>4. Count(Writers(w2, n + 1), n + 1) = Cardinality(Writers(w, n))
  <2>1. n + 1 \in 1..(n + 1)
    OBVIOUS
  <2>2. Count(Writers(w, n), n + 1) = Cardinality(Writers(w, n))
    BY <1>1, CountAll
  <2> QED BY <1>3, <2>1, <2>2
<1>5. Cardinality(Writers(w2, n + 1))
        = Cardinality(Writers(w, n)) + (IF w2[n + 1].dest # NoReg THEN 1 ELSE 0)
  <2>1. PICK m \in Nat : m = n + 1 /\ m \in Int
    BY <1>1
  <2>2. Count(Writers(w2, m), m + 1) = Cardinality(Writers(w2, m))
    BY <1>1, <2>1, CountAll
  <2>3. Count(Writers(w2, m), m + 1)
          = Count(Writers(w2, m), m) + (IF m \in Writers(w2, m) THEN 1 ELSE 0)
    BY <1>1, <2>1, CountNext
  <2>4. m \in Writers(w2, m) <=> w2[m].dest # NoReg
    BY <2>1 DEF Writers
  <2> QED BY <1>4, <2>1, <2>2, <2>3, <2>4
<1> QED BY <1>2, <1>3, <1>5

\* The writers once the oldest instruction is gone.
LEMMA WritersMoveUp ==
  ASSUME NEW w, NEW w2, NEW n \in Nat \ {0}, \A j \in 1..(n - 1) : w2[j] = w[j + 1]
  PROVE  /\ \A i \in 1..n : Count(Writers(w2, n - 1), i)
                              = Count(Writers(w, n), i + 1) - (IF w[1].dest # NoReg THEN 1 ELSE 0)
         /\ Cardinality(Writers(w2, n - 1))
              = Cardinality(Writers(w, n)) - (IF w[1].dest # NoReg THEN 1 ELSE 0)
<1>1. Writers(w, n) \in SUBSET (1..n) /\ Writers(w2, n - 1) \in SUBSET (1..(n - 1))
  BY DEF Writers
<1>2. \A j \in 1..(n - 1) : j \in Writers(w2, n - 1) <=> j + 1 \in Writers(w, n)
  BY DEF Writers
<1>3. 1 \in Writers(w, n) <=> w[1].dest # NoReg
  BY DEF Writers
<1>4. ASSUME NEW i \in 1..n
      PROVE  /\ Count(Writers(w2, n - 1), i)
                  = Count(Writers(w, n), i + 1) - (IF 1 \in Writers(w, n) THEN 1 ELSE 0)
             /\ Cardinality(Writers(w2, n - 1))
                  = Cardinality(Writers(w, n)) - (IF 1 \in Writers(w, n) THEN 1 ELSE 0)
  BY <1>1, <1>2, CountShift
<1>5. 1 \in 1..n
  OBVIOUS
<1> QED BY <1>3, <1>4, <1>5

\* The pointer a whole queue behind.
Flipped(p) == [idx |-> p.idx, phase |-> 1 - p.phase]

\* Turning the phase bit of a pointer keeps its index, and commutes with advancing it.
LEMMA FlippedType ==
  ASSUME NEW N \in Nat \ {0}, NEW p \in Pointer(N)
  PROVE  /\ Flipped(p) \in Pointer(N) /\ Flipped(p).idx = p.idx
         /\ Advance(Flipped(p), N) = Flipped(Advance(p, N))
BY DEF Flipped, Pointer, Advance

\* The pointer k entries on from a whole queue behind the tail.
Behind(tail, k) == AdvanceBy(Flipped(tail), k, freeListSize)

\* Pointers behind the tail, and the slot of the tail itself.
LEMMA BehindType ==
  ASSUME SizesAgree, NEW t \in Pointer(freeListSize)
  PROVE  /\ \A k \in 0..freeListSize : Behind(t, k) \in Pointer(freeListSize)
         /\ Behind(t, 0) = Flipped(t)
         /\ \A k \in 0..(freeListSize - 1) :
              /\ Advance(Behind(t, k), freeListSize) = Behind(t, k + 1)
              /\ Behind(Advance(t, freeListSize), k) = Behind(t, k + 1)
         /\ \A k \in 1..(freeListSize - 1) : Behind(t, k).idx # t.idx
<1>1. PICK N \in Nat \ {0} : N = freeListSize
  BY Sizes
<1>2. PICK p \in Pointer(N) : p = Flipped(t) /\ p.idx = t.idx
      /\ Advance(p, N) = Flipped(Advance(t, N))
  BY <1>1, FlippedType
<1>3. \A k \in 0..N : AdvanceBy(p, k, N) \in Pointer(N)
  BY AdvanceByType
<1>4. AdvanceBy(p, 0, N) = p
  <2>1. 0 \in 0..N
    OBVIOUS
  <2> QED BY <2>1, AdvanceByType
<1>5. \A k \in 0..(N - 1) : /\ Advance(AdvanceBy(p, k, N), N) = AdvanceBy(p, k + 1, N)
                            /\ AdvanceBy(Advance(p, N), k, N) = AdvanceBy(p, k + 1, N)
  BY AdvanceByNext
<1>6. \A k \in 1..(N - 1) : AdvanceBy(p, k, N).idx # p.idx
  <2> SUFFICES ASSUME NEW k \in 1..(N - 1), AdvanceBy(p, k, N).idx = p.idx PROVE FALSE
    OBVIOUS
  <2>1. k \in 0..(N - 1) /\ 0 \in 0..(N - 1)
    OBVIOUS
  <2>2. AdvanceBy(p, k, N).idx = AdvanceBy(p, 0, N).idx
    BY <1>4
  <2>3. k = 0
    BY <2>1, <2>2, AdvanceByInjective
  <2> QED BY <2>3
<1> QED BY <1>1, <1>2, <1>3, <1>4, <1>5, <1>6 DEF Behind

\* The free list k entries on from a whole queue behind its tail: what is between and what is free.
LEMMA BehindDistance ==
  ASSUME SizesAgree, NEW t \in Pointer(freeListSize), NEW k \in 0..freeListSize
  PROVE  /\ Distance(Behind(t, k), t, freeListSize) = freeListSize - k
         /\ \A s \in 0..(freeListSize - 1) :
              \/ s \in Slots(Behind(t, k), t, freeListSize)
              \/ \E m \in 0..(k - 1) : Behind(t, m).idx = s
<1>1. PICK N \in Nat \ {0} : N = freeListSize
  BY Sizes
<1>2. PICK p \in Pointer(N) : p = Flipped(t)
  BY <1>1, FlippedType
<1>3. PICK h \in Pointer(N) : h = AdvanceBy(p, k, N)
  BY <1>1, AdvanceByType
<1>4. h = Behind(t, k)
  BY <1>1, <1>2, <1>3 DEF Behind
<1>5. /\ h.idx = IF t.idx + k < N THEN t.idx + k ELSE t.idx + k - N
      /\ h.phase = IF t.idx + k < N THEN 1 - t.phase ELSE 1 - (1 - t.phase)
  <2>1. p.idx = t.idx /\ p.phase = 1 - t.phase
    BY <1>2 DEF Flipped
  <2>2. h = Onward(p, k, N)
    BY <1>1, <1>3, AdvanceByIsOnward
  <2>3. h.idx = (IF p.idx + k < N THEN p.idx + k ELSE p.idx + k - N)
        /\ h.phase = (IF p.idx + k < N THEN p.phase ELSE 1 - p.phase)
    BY <2>2 DEF Onward
  <2> QED BY <2>1, <2>3
<1>6. t.idx \in 0..(N - 1) /\ t.phase \in {0, 1} /\ k \in 0..N
  BY <1>1 DEF Pointer
<1>7. Distance(h, t, N) = N - k
  BY <1>5, <1>6 DEF Distance
<1>8. Slots(p, h, N) = {AdvanceBy(p, m, N).idx : m \in 0..(k - 1)}
  BY <1>1, <1>3, AdvanceByDistance
<1>9. \A s \in 0..(N - 1) : s \in Slots(p, h, N) \/ s \in Slots(h, t, N)
  <2>1. p.idx = t.idx /\ p.phase = 1 - t.phase
    BY <1>2 DEF Flipped
  <2> QED BY <1>5, <1>6, <2>1 DEF Slots
<1>10. \A m \in 0..(k - 1) : Behind(t, m) = AdvanceBy(p, m, N)
  BY <1>1, <1>2 DEF Behind
<1> QED BY <1>1, <1>4, <1>7, <1>8, <1>9, <1>10

\* FreeListInOrder of any n instructions, checkpoints and free list.
FreeListOf(w, n, table, entry, head, tail) ==
  /\ Cardinality(Writers(w, n)) <= freeListSize
  /\ head = Behind(tail, Cardinality(Writers(w, n)))
  /\ \A i \in 1..n : w[i].dest # NoReg =>
       w[i].destPhys = entry[Behind(tail, Count(Writers(w, n), i)).idx]
  /\ \A i \in 1..n : Open(w[i]) =>
       table[w[i].branch_ID].freeListHead = Behind(tail, Count(Writers(w, n), i + 1))

\* FreeListOf the state.
FreeListFollows ==
  FreeListOf(inflight, Len(inflight), branchCheckpointTable, freeListEntry, freeList_Head, freeList_Tail)

\* FreeListInOrder is FreeListOf the state.
LEMMA FreeListInOrderIs ==
  ASSUME TypeOK
  PROVE  FreeListInOrder <=> FreeListFollows
<1>1. Unresolved(Len(inflight)) = {i \in 1..Len(inflight) : Open(inflight[i])}
  BY OpenOnes
<1>2. WithDest = Writers(inflight, Len(inflight))
  BY WithDestIs
<1>3. WithDest = {i \in 1..Len(inflight) : inflight[i].dest # NoReg}
  BY DEF WithDest
<1>4. \A i : HeadBefore(i) = Behind(freeList_Tail, Count(WithDest, i))
  BY DEF HeadBefore, Behind, CommitHead, Flipped
<1>5. Count(WithDest, Len(inflight) + 1) = Cardinality(WithDest)
  <2>1. Len(inflight) \in Nat /\ WithDest \in SUBSET (1..Len(inflight))
    BY <1>3, InflightType
  <2> QED BY <2>1, CountAll
<1> QED BY <1>1, <1>2, <1>3, <1>4, <1>5 DEF FreeListInOrder, FreeListFollows, FreeListOf

\* FreeListInOrder, before a step and after it.
LEMMA FreeListAlways ==
  /\ TypeOK => (FreeListInOrder <=>
       FreeListOf(inflight, Len(inflight), branchCheckpointTable, freeListEntry,
                  freeList_Head, freeList_Tail))
  /\ TypeOK' => (FreeListInOrder' <=>
       FreeListOf(inflight', Len(inflight'), branchCheckpointTable', freeListEntry',
                  freeList_Head', freeList_Tail'))
<1>1. TypeOK => (FreeListInOrder <=> FreeListFollows)
  BY FreeListInOrderIs
<1>2. TypeOK' => (FreeListInOrder' <=> FreeListFollows')
  BY <1>1, PTL
<1>3. FreeListFollows' <=>
       FreeListOf(inflight', Len(inflight'), branchCheckpointTable', freeListEntry',
                  freeList_Head', freeList_Tail')
  BY DEF FreeListFollows
<1> QED BY <1>1, <1>2, <1>3 DEF FreeListFollows

\* With nothing in flight the whole free list is free.
LEMMA FreeListNone ==
  ASSUME SizesAgree, NEW w, NEW table, NEW entry, NEW tail \in Pointer(freeListSize)
  PROVE  FreeListOf(w, 0, table, entry, Flipped(tail), tail)
<1>1. 1..0 = {} /\ Cardinality({}) = 0
  BY FS_EmptySet
<1>2. Writers(w, 0) = {}
  BY <1>1 DEF Writers
<1>3. Behind(tail, 0) = Flipped(tail) /\ 0 <= freeListSize
  BY BehindType, Sizes
<1> QED BY <1>1, <1>2, <1>3 DEF FreeListOf

\* The destinations do not change.
LEMMA FreeListKept ==
  ASSUME NEW n \in Nat, NEW w, NEW w2, NEW table, NEW table2, NEW entry, NEW head, NEW tail,
         FreeListOf(w, n, table, entry, head, tail),
         \A j \in 1..n : /\ w2[j].dest = w[j].dest /\ w2[j].destPhys = w[j].destPhys
                         /\ Open(w2[j]) =>
                              /\ Open(w[j])
                              /\ table2[w2[j].branch_ID].freeListHead
                                   = table[w[j].branch_ID].freeListHead
  PROVE  FreeListOf(w2, n, table2, entry, head, tail)
<1>1. Writers(w2, n) = Writers(w, n)
  BY DEF Writers
<1> QED BY <1>1 DEF FreeListOf

\* An instruction is renamed after n others.
FreeListTaken(n, w, w2, table, table2, entry, head, head2) ==
  /\ \A j \in 1..n : w2[j] = w[j]
  /\ w2[n + 1].dest # NoReg => Cardinality(Writers(w, n)) < freeListSize
  /\ head2 = IF w2[n + 1].dest # NoReg THEN Advance(head, freeListSize) ELSE head
  /\ w2[n + 1].dest # NoReg => w2[n + 1].destPhys = entry[head.idx]
  /\ \A j \in 1..n : Open(w[j]) => table2[w[j].branch_ID] = table[w[j].branch_ID]
  /\ Open(w2[n + 1]) => table2[w2[n + 1].branch_ID].freeListHead = head2

\* Renaming an instruction takes the register at the head.
LEMMA FreeListRename ==
  ASSUME SizesAgree, NEW n \in Nat, NEW w, NEW w2, NEW table, NEW table2, NEW entry,
         NEW head, NEW head2, NEW tail \in Pointer(freeListSize),
         FreeListOf(w, n, table, entry, head, tail),
         FreeListTaken(n, w, w2, table, table2, entry, head, head2)
  PROVE  FreeListOf(w2, n + 1, table2, entry, head2, tail)
<1> DEFINE one == IF w2[n + 1].dest # NoReg THEN 1 ELSE 0
<1>1. PICK c \in Nat : c = Cardinality(Writers(w, n))
  BY WritersType
<1>2. \A j \in 1..n : w2[j].dest = w[j].dest
  BY DEF FreeListTaken
<1>3. /\ \A i \in 1..(n + 1) : Count(Writers(w2, n + 1), i) = Count(Writers(w, n), i)
      /\ Cardinality(Writers(w2, n + 1)) = c + one
  <2>1. /\ \A i \in 1..(n + 1) : Count(Writers(w2, n + 1), i) = Count(Writers(w, n), i)
        /\ Cardinality(Writers(w2, n + 1))
             = Cardinality(Writers(w, n)) + (IF w2[n + 1].dest # NoReg THEN 1 ELSE 0)
    BY <1>2, WritersNext
  <2> QED BY <1>1, <2>1
<1>4. c + one <= freeListSize /\ c <= freeListSize /\ freeListSize \in Nat \ {0}
  BY <1>1, Sizes DEF FreeListTaken, FreeListOf
<1>5. head = Behind(tail, c)
  BY <1>1 DEF FreeListOf
<1>6. head2 = Behind(tail, c + one)
  <2>1. CASE w2[n + 1].dest # NoReg
    <3>1. c \in 0..(freeListSize - 1)
      BY <1>1, <1>4, <2>1
    <3>2. Advance(Behind(tail, c), freeListSize) = Behind(tail, c + 1)
      BY <3>1, BehindType
    <3> QED BY <1>5, <2>1, <3>2 DEF FreeListTaken
  <2>2. CASE w2[n + 1].dest = NoReg
    BY <1>1, <1>5, <2>2 DEF FreeListTaken
  <2> QED BY <2>1, <2>2
<1>7. Count(Writers(w, n), n + 1) = c
  BY <1>1, WritersType, CountAll
<1>8. Count(Writers(w2, n + 1), n + 1 + 1) = c + one
  <2>1. PICK m \in Nat : m = n + 1
    OBVIOUS
  <2>2. Count(Writers(w2, m), m + 1) = Cardinality(Writers(w2, m))
    BY WritersType, CountAll
  <2> QED BY <1>3, <2>1, <2>2
<1> HIDE DEF one
<1>9. \A i \in 1..(n + 1) : i \in 1..n \/ i = n + 1
  OBVIOUS
<1>10. \A i \in 1..n : i \in 1..(n + 1) /\ i + 1 \in 1..(n + 1)
  OBVIOUS
<1>11. ASSUME NEW i \in 1..(n + 1), w2[i].dest # NoReg
       PROVE  w2[i].destPhys = entry[Behind(tail, Count(Writers(w2, n + 1), i)).idx]
  <2>1. CASE i \in 1..n
    BY <1>3, <1>10, <1>11, <2>1 DEF FreeListTaken, FreeListOf
  <2>2. CASE i = n + 1
    BY <1>3, <1>5, <1>7, <1>11, <2>2 DEF FreeListTaken
  <2> QED BY <1>9, <2>1, <2>2
<1>12. ASSUME NEW i \in 1..(n + 1), Open(w2[i])
       PROVE  table2[w2[i].branch_ID].freeListHead = Behind(tail, Count(Writers(w2, n + 1), i + 1))
  <2>1. CASE i \in 1..n
    <3>1. Open(w[i]) /\ table2[w2[i].branch_ID] = table[w[i].branch_ID]
      BY <1>12, <2>1 DEF FreeListTaken
    <3>2. table[w[i].branch_ID].freeListHead = Behind(tail, Count(Writers(w, n), i + 1))
      BY <2>1, <3>1 DEF FreeListOf
    <3> QED BY <1>3, <1>10, <2>1, <3>1, <3>2
  <2>2. CASE i = n + 1
    BY <1>6, <1>8, <1>12, <2>2 DEF FreeListTaken
  <2> QED BY <1>9, <2>1, <2>2
<1>13. head2 = Behind(tail, Cardinality(Writers(w2, n + 1)))
       /\ Cardinality(Writers(w2, n + 1)) <= freeListSize
  BY <1>3, <1>4, <1>6
<1> QED BY <1>11, <1>12, <1>13 DEF FreeListOf

\* A misprediction keeps the first i of n instructions and restores the i-th one's checkpoint.
FreeListRestored(i, w, w2, table, table2, head2) ==
  /\ \A j \in 1..i : /\ w2[j].dest = w[j].dest /\ w2[j].destPhys = w[j].destPhys
                     /\ Open(w2[j]) => /\ Open(w[j])
                                       /\ table2[w2[j].branch_ID] = table[w[j].branch_ID]
  /\ Open(w[i])
  /\ head2 = table[w[i].branch_ID].freeListHead

\* The head a checkpoint restores is the one behind the registers of the instructions it keeps.
LEMMA FreeListRestore ==
  ASSUME SizesAgree, NEW n \in Nat, NEW i \in 1..n, NEW w, NEW w2, NEW table, NEW table2,
         NEW entry, NEW head, NEW head2, NEW tail,
         FreeListOf(w, n, table, entry, head, tail),
         FreeListRestored(i, w, w2, table, table2, head2)
  PROVE  FreeListOf(w2, i, table2, entry, head2, tail)
<1>1. PICK W \in SUBSET (1..n) : W = Writers(w, n)
  BY WritersType
<1>2. PICK W2 \in SUBSET (1..n) : W2 = Writers(w2, i) /\ W2 \in SUBSET (1..i)
  <2>1. Writers(w2, i) \in SUBSET (1..i) /\ 1..i \subseteq 1..n
    BY DEF Writers
  <2> QED BY <2>1
<1>3. ASSUME NEW k \in 1..(i + 1) PROVE Count(W2, k) = Count(W, k) /\ k \in Int
  <2>1. \A j \in 1..n : j < k => j \in 1..i
    OBVIOUS
  <2>2. \A j \in 1..n : j < k => (j \in W2 <=> j \in W)
    BY <1>1, <1>2, <2>1 DEF Writers, FreeListRestored
  <2>3. k \in Int
    OBVIOUS
  <2> QED BY <2>2, <2>3, CountSame
<1>4. PICK m \in Int : m = i + 1 /\ m \in 1..(i + 1)
  OBVIOUS
<1>5. Cardinality(W2) = Count(W, m)
  <2>1. i \in Nat
    OBVIOUS
  <2>2. Count(W2, i + 1) = Cardinality(W2)
    BY <1>2, <2>1, CountAll
  <2> QED BY <1>3, <1>4, <2>2
<1>6. Cardinality(W2) <= freeListSize
  <2>0. Cardinality(W) \in 0..n /\ Count(W, m) \in 0..Cardinality(W)
    BY CountType
  <2>1. Count(W, m) <= Cardinality(W) /\ Count(W, m) \in Nat /\ Cardinality(W) \in Nat
    BY <2>0
  <2>2. Cardinality(W) <= freeListSize /\ freeListSize \in Nat
    BY <1>1, Sizes DEF FreeListOf
  <2> QED BY <1>5, <2>1, <2>2
<1>7. head2 = Behind(tail, Cardinality(W2))
  <2>1. table[w[i].branch_ID].freeListHead = Behind(tail, Count(W, i + 1))
    BY <1>1 DEF FreeListOf, FreeListRestored
  <2> QED BY <1>4, <1>5, <2>1 DEF FreeListRestored
<1>8. \A j \in 1..i : j \in 1..n /\ j \in 1..(i + 1) /\ j + 1 \in 1..(i + 1)
  OBVIOUS
<1>9. ASSUME NEW j \in 1..i, w2[j].dest # NoReg
      PROVE  w2[j].destPhys = entry[Behind(tail, Count(W2, j)).idx]
  <2>1. w[j].destPhys = entry[Behind(tail, Count(W, j)).idx]
    BY <1>1, <1>8, <1>9 DEF FreeListOf, FreeListRestored
  <2> QED BY <1>3, <1>8, <2>1 DEF FreeListRestored
<1>10. ASSUME NEW j \in 1..i, Open(w2[j])
       PROVE  table2[w2[j].branch_ID].freeListHead = Behind(tail, Count(W2, j + 1))
  <2>1. table[w[j].branch_ID].freeListHead = Behind(tail, Count(W, j + 1))
    BY <1>1, <1>8, <1>10 DEF FreeListOf, FreeListRestored
  <2>2. Count(W2, j + 1) = Count(W, j + 1)
    BY <1>3, <1>8
  <2> QED BY <1>10, <2>1, <2>2 DEF FreeListRestored
<1> QED BY <1>2, <1>6, <1>7, <1>9, <1>10 DEF FreeListOf

\* The oldest of n instructions commits: if it has a destination, the free list takes a register
\* at its tail.
FreeListReturned(n, w, w2, entry, entry2, tail, tail2) ==
  /\ \A j \in 1..(n - 1) : w2[j] = w[j + 1]
  /\ tail2 = IF w[1].dest # NoReg THEN Advance(tail, freeListSize) ELSE tail
  /\ \A s \in 0..(freeListSize - 1) :
       w[1].dest = NoReg \/ s # tail.idx => entry2[s] = entry[s]

\* The others' registers are where they were, one entry nearer to the tail's whole size behind.
LEMMA FreeListMoveUp ==
  ASSUME SizesAgree, NEW n \in Nat \ {0}, NEW w, NEW w2, NEW table,
         NEW entry, NEW entry2, NEW head, NEW tail \in Pointer(freeListSize), NEW tail2,
         FreeListOf(w, n, table, entry, head, tail),
         FreeListReturned(n, w, w2, entry, entry2, tail, tail2)
  PROVE  FreeListOf(w2, n - 1, table, entry2, head, tail2)
<1>1. PICK N \in Nat \ {0} : N = freeListSize
  BY Sizes
<1>2. PICK W \in SUBSET (1..n) : W = Writers(w, n)
  BY WritersType
<1>3. PICK one \in {0, 1} : one = IF w[1].dest # NoReg THEN 1 ELSE 0
  OBVIOUS
<1>4. PICK m \in Nat : m = n - 1 /\ n = m + 1
  OBVIOUS
<1>5. PICK W2 \in SUBSET (1..m) : W2 = Writers(w2, m)
  BY WritersType
<1>6. /\ \A j \in 1..n : Count(W2, j) = Count(W, j + 1) - one
      /\ Cardinality(W2) = Cardinality(W) - one
  <2>1. \A j \in 1..(n - 1) : w2[j] = w[j + 1]
    BY DEF FreeListReturned
  <2>2. /\ \A j \in 1..n : Count(Writers(w2, n - 1), j)
                  = Count(Writers(w, n), j + 1) - (IF w[1].dest # NoReg THEN 1 ELSE 0)
        /\ Cardinality(Writers(w2, n - 1))
             = Cardinality(Writers(w, n)) - (IF w[1].dest # NoReg THEN 1 ELSE 0)
    BY <2>1, WritersMoveUp
  <2> QED BY <1>2, <1>3, <1>4, <1>5, <2>2
<1>7. PICK c \in 0..N : c = Cardinality(W)
  <2>1. Cardinality(Writers(w, n)) \in 0..n
    BY WritersType
  <2>2. Cardinality(W) \in Nat
    BY <1>2, <2>1
  <2> QED BY <1>1, <1>2, <2>2 DEF FreeListOf
<1>8. \A j \in 2..(n + 1) : Count(W, j) \in one..c
  <2> SUFFICES ASSUME NEW j \in 2..(n + 1) PROVE Count(W, j) \in one..c
    OBVIOUS
  <2>0. j \in Int
    OBVIOUS
  <2>1. Count(W, j) \in 0..c
    BY <1>7, <2>0, CountType
  <2>2. PICK p \in Int, q \in Int : p = 1 /\ q = 2
    OBVIOUS
  <2>3. Count(W, p + 1) = Count(W, p) + (IF p \in W THEN 1 ELSE 0)
    BY CountNext
  <2>4. Count(W, p) = 0
    BY <2>2, CountAll
  <2>5. p \in W <=> one = 1
    BY <1>2, <1>3, <2>2 DEF Writers
  <2>6. Count(W, q) = one
    BY <1>3, <2>2, <2>3, <2>4, <2>5
  <2>7. j \in Int /\ q <= j
    BY <2>2
  <2>8. Count(W, q) <= Count(W, j)
    BY <2>7, CountGrows
  <2> QED BY <2>1, <2>6, <2>8
<1>9. \A j \in 2..n : j \in W => Count(W, j) < c
  <2> SUFFICES ASSUME NEW j \in 2..n, j \in W PROVE Count(W, j) < c
    OBVIOUS
  <2>1. PICK k \in Int : k = n + 1
    OBVIOUS
  <2>2. j \in Int /\ j <= k /\ j < k
    BY <2>1
  <2>3. Count(W, j) < Count(W, k)
    BY <2>1, <2>2, CountGrows
  <2>4. Count(W, k) = c
    BY <1>7, <2>1, CountAll
  <2> QED BY <2>3, <2>4
<1>10. ASSUME NEW k \in one..c
       PROVE  Behind(tail2, k - one) = Behind(tail, k)
  <2>1. CASE one = 0
    BY <1>3, <1>10, <2>1 DEF FreeListReturned
  <2>2. CASE one = 1
    <3>1. tail2 = Advance(tail, N)
      BY <1>1, <1>3, <2>2 DEF FreeListReturned
    <3>2. PICK x \in 0..(N - 1) : x = k - 1 /\ x + 1 = k
      BY <1>10, <2>2, <1>7
    <3>3. Behind(Advance(tail, N), x) = Behind(tail, x + 1)
      BY <1>1, BehindType
    <3> QED BY <2>2, <3>1, <3>2, <3>3
  <2> QED BY <1>3, <2>1, <2>2
<1>11. c >= one
  <2>1. n + 1 \in 2..(n + 1)
    OBVIOUS
  <2> QED BY <1>3, <1>7, <1>8, <2>1
<1>12. head = Behind(tail2, Cardinality(W2)) /\ Cardinality(W2) <= freeListSize
  <2>1. head = Behind(tail, c)
    BY <1>2, <1>7 DEF FreeListOf
  <2>2. c \in one..c
    BY <1>3, <1>7, <1>11
  <2>3. Cardinality(W2) = c - one
    BY <1>6, <1>7
  <2> QED BY <1>1, <1>3, <1>7, <1>10, <2>1, <2>2, <2>3
<1>13. ASSUME NEW j \in 1..m
       PROVE  /\ w2[j] = w[j + 1] /\ j + 1 \in 1..n /\ j + 1 \in 2..n
              /\ j \in 1..n /\ j + 1 + 1 \in 2..(n + 1) /\ j + 1 \in 2..(n + 1)
  BY <1>4 DEF FreeListReturned
<1>14. ASSUME NEW j \in 1..m, w2[j].dest # NoReg
       PROVE  w2[j].destPhys = entry2[Behind(tail2, Count(W2, j)).idx]
  <2>1. PICK k \in one..c : k = Count(W, j + 1)
    BY <1>8, <1>13
  <2>2. w[j + 1].destPhys = entry[Behind(tail, k).idx]
    <3>1. PICK x \in 1..n : x = j + 1
      BY <1>13
    <3>2. w[x].dest # NoReg
      BY <1>13, <1>14, <3>1
    <3>3. w[x].destPhys = entry[Behind(tail, Count(W, x)).idx]
      BY <1>2, <3>2 DEF FreeListOf
    <3> QED BY <2>1, <3>1, <3>3
  <2>3. Behind(tail2, Count(W2, j)) = Behind(tail, k)
    BY <1>6, <1>10, <1>13, <2>1
  <2>4. j + 1 \in W
    BY <1>2, <1>13, <1>14 DEF Writers
  <2>5. k < c
    BY <1>9, <1>13, <2>1, <2>4
  <2>6. k \in 0..N /\ (one = 1 => k \in 1..(N - 1))
    BY <1>3, <1>7, <2>1, <2>5
  <2>7. Behind(tail, k).idx \in 0..(N - 1)
    <3>1. Behind(tail, k) \in Pointer(N)
      BY <1>1, <2>6, BehindType
    <3> QED BY <3>1 DEF Pointer
  <2>8. one = 1 => Behind(tail, k).idx # tail.idx
    BY <1>1, <2>6, BehindType
  <2>9. w[1].dest = NoReg \/ Behind(tail, k).idx # tail.idx
    BY <1>3, <2>8
  <2>10. entry2[Behind(tail, k).idx] = entry[Behind(tail, k).idx]
    BY <1>1, <2>7, <2>9 DEF FreeListReturned
  <2> QED BY <1>13, <2>2, <2>3, <2>10
<1>15. ASSUME NEW j \in 1..m, Open(w2[j])
       PROVE  table[w2[j].branch_ID].freeListHead = Behind(tail2, Count(W2, j + 1))
  <2>1. PICK x \in 1..n : x = j + 1
    BY <1>13
  <2>2. x + 1 \in 2..(n + 1) /\ w2[j] = w[x]
    BY <1>13, <2>1
  <2>3. table[w[x].branch_ID].freeListHead = Behind(tail, Count(W, x + 1))
    BY <1>2, <1>15, <2>2 DEF FreeListOf
  <2>4. PICK k \in one..c : k = Count(W, x + 1)
    BY <1>8, <2>2
  <2>5. Count(W2, x) = k - one
    BY <1>6, <2>4
  <2>6. Behind(tail2, k - one) = Behind(tail, k)
    BY <1>10
  <2> QED BY <2>1, <2>2, <2>3, <2>4, <2>5, <2>6
<1> QED BY <1>4, <1>5, <1>12, <1>14, <1>15 DEF FreeListOf

\* The checkpoint of a branch that another branch's resolution leaves unresolved.
LEMMA StillChecked ==
  ASSUME SizesAgree, TypeOK, DispatchedFirst, BranchesNamed,
         NEW i \in 1..Len(inflight), Resolvable(i),
         NEW j \in 1..Len(inflight), j # i, Open(inflight[j])
  PROVE  /\ inflight[j].branch_ID
              \in DOMAIN branchCheckpointTable \ OneShifted(inflight[i].branch_ID)
         /\ j < i => inflight[j].branch_ID \in branchCheckpointTable[inflight[i].branch_ID].gbm
<1>1. PICK n \in Nat, table \in {branchCheckpointTable} : n = Len(inflight) /\ table = branchCheckpointTable
  BY InflightType
<1>2. BranchesOf(inflight, n, table, GBM)
  BY <1>1, BranchesNamedAlways
<1>3. PICK b, c : b = inflight[j].branch_ID /\ c = inflight[i].branch_ID
  OBVIOUS
<1>4. i \in 1..n /\ j \in 1..n /\ Open(inflight[i])
  BY <1>1, ResolvableOnes
<1>5. b \in CheckpointID /\ c \in CheckpointID /\ b # c
  BY <1>2, <1>3, <1>4 DEF BranchesOf
<1>6. b \in DOMAIN table
  <2>1. b \in IDsUpTo(inflight, n)
    BY <1>3, <1>4, InIDs
  <2> QED BY <1>2, <2>1 DEF BranchesOf
<1>7. b \notin OneShifted(c)
  <2>1. Named(OneShifted(c)) = {c}
    BY <1>5, ShiftedBit
  <2> QED BY <1>5, <2>1 DEF Named, CheckpointID
<1>8. ASSUME j < i PROVE b \in table[c].gbm
  <2>1. j \in 1..(i - 1)
    BY <1>4, <1>8
  <2>2. b \in IDsUpTo(inflight, i - 1)
    BY <1>3, <2>1, InIDs
  <2>3. Named(table[c].gbm) = IDsUpTo(inflight, i - 1)
    BY <1>2, <1>3, <1>4 DEF BranchesOf
  <2> QED BY <2>2, <2>3 DEF Named
<1> QED BY <1>1, <1>3, <1>6, <1>7, <1>8

\* What a resolution leaves of the checkpoints of the branches that stay unresolved.
LEMMA KeptCheckpoints ==
  ASSUME SizesAgree, TypeOK, DispatchedFirst, BranchesNamed, NEW i \in 1..Len(inflight)
  PROVE  /\ ResolveCorrect(i) => \A j \in 1..Len(inflight) : j # i /\ Open(inflight[j]) =>
              /\ branchCheckpointTable'[inflight[j].branch_ID].freeListHead
                   = branchCheckpointTable[inflight[j].branch_ID].freeListHead
              /\ branchCheckpointTable'[inflight[j].branch_ID].shadowMapTable
                   = branchCheckpointTable[inflight[j].branch_ID].shadowMapTable
         /\ Mispredict(i) => \A j \in 1..(i - 1) : Open(inflight[j]) =>
              branchCheckpointTable'[inflight[j].branch_ID]
                = branchCheckpointTable[inflight[j].branch_ID]
<1>1. ASSUME ResolveCorrect(i), NEW j \in 1..Len(inflight), j # i, Open(inflight[j])
      PROVE  /\ branchCheckpointTable'[inflight[j].branch_ID].freeListHead
                  = branchCheckpointTable[inflight[j].branch_ID].freeListHead
             /\ branchCheckpointTable'[inflight[j].branch_ID].shadowMapTable
                  = branchCheckpointTable[inflight[j].branch_ID].shadowMapTable
  <2>1. Resolvable(i)
    BY <1>1 DEF ResolveCorrect
  <2>2. PICK mask : mask = OneShifted(inflight[i].branch_ID)
                    /\ branchCheckpointTable' = ClearedCheckpoints(mask)
    BY <1>1 DEF ResolveCorrect
  <2>3. inflight[j].branch_ID \in DOMAIN branchCheckpointTable \ mask
    BY <1>1, <2>1, <2>2, StillChecked
  <2>4. \A b \in DOMAIN branchCheckpointTable \ mask :
          /\ ClearedCheckpoints(mask)[b].freeListHead = branchCheckpointTable[b].freeListHead
          /\ ClearedCheckpoints(mask)[b].shadowMapTable = branchCheckpointTable[b].shadowMapTable
    BY ClearedType
  <2> QED BY <2>2, <2>3, <2>4
<1>2. ASSUME Mispredict(i), NEW j \in 1..(i - 1), Open(inflight[j])
      PROVE  branchCheckpointTable'[inflight[j].branch_ID]
               = branchCheckpointTable[inflight[j].branch_ID]
  <2>1. Resolvable(i)
    BY <1>2 DEF Mispredict
  <2>2. PICK n \in Nat : n = Len(inflight)
    BY InflightType
  <2>3. j \in 1..Len(inflight) /\ j # i /\ j < i
    BY <2>2
  <2>4. PICK id : id = inflight[i].branch_ID
    OBVIOUS
  <2>5. PICK b : b = inflight[j].branch_ID
    OBVIOUS
  <2>6. b \in DOMAIN branchCheckpointTable \ OneShifted(id) /\ b \in branchCheckpointTable[id].gbm
    BY <1>2, <2>1, <2>3, <2>4, <2>5, StillChecked
  <2>7. /\ GBM' = branchCheckpointTable[id].gbm \ OneShifted(id)
        /\ branchCheckpointTable' =
              Restrict(branchCheckpointTable, DOMAIN branchCheckpointTable \cap GBM')
    BY <1>2, <2>4 DEF Mispredict
  <2>8. b \in DOMAIN branchCheckpointTable \cap GBM'
    BY <2>6, <2>7
  <2>9. branchCheckpointTable'[b] = branchCheckpointTable[b]
    BY <2>7, <2>8 DEF Restrict
  <2> QED BY <2>5, <2>9
<1> QED BY <1>1, <1>2

\* What is left of the bundle when one of it is renamed.
LEMMA BundleLeft ==
  ASSUME TypeOK, RenameNext, NEW instr, instr = Head(RENAME2)
  PROVE  /\ Cardinality(Wanting(RENAME2)) \in Nat /\ Cardinality(Wanting(RENAME2')) \in Nat
         /\ Cardinality(Forking(RENAME2)) \in Nat /\ Cardinality(Forking(RENAME2')) \in Nat
         /\ Cardinality(Wanting(RENAME2'))
              = Cardinality(Wanting(RENAME2)) - (IF instr.dest # NoReg THEN 1 ELSE 0)
         /\ Cardinality(Forking(RENAME2'))
              = Cardinality(Forking(RENAME2)) - (IF Forks(instr) THEN 1 ELSE 0)
<1>1. RENAME2 # <<>> /\ RENAME2 \in Seq(Instruction) /\ RENAME2' = Tail(RENAME2)
  BY DEF RenameNext, TypeOK
<1>2. /\ Cardinality(Wanting(RENAME2)) \in Nat /\ Cardinality(Forking(RENAME2)) \in Nat
      /\ Tail(RENAME2) \in Seq(Instruction)
      /\ Cardinality(Wanting(Tail(RENAME2)))
              = Cardinality(Wanting(RENAME2)) - (IF Head(RENAME2).dest # NoReg THEN 1 ELSE 0)
      /\ Cardinality(Forking(Tail(RENAME2)))
              = Cardinality(Forking(RENAME2)) - (IF Forks(Head(RENAME2)) THEN 1 ELSE 0)
  BY <1>1, BundleShrinks
<1>3. PICK n \in Nat : n = Len(Tail(RENAME2))
  BY <1>2
<1>4. Wanting(Tail(RENAME2)) \in SUBSET (1..n) /\ Forking(Tail(RENAME2)) \in SUBSET (1..n) /\ 1 \in Int
  BY <1>3 DEF Wanting, Forking
<1>5. Cardinality(Wanting(Tail(RENAME2))) \in 0..n /\ Cardinality(Forking(Tail(RENAME2))) \in 0..n
  BY <1>4, CountType
<1> QED BY <1>1, <1>2, <1>5

\* An instruction that needs a register finds one that is free.
LEMMA RegisterFree ==
  ASSUME SizesAgree, TypeOK, EnoughForBundle, RenameNext, NEW instr, instr = Head(RENAME2),
         instr.dest # NoReg
  PROVE  Cardinality(Writers(inflight, Len(inflight))) < freeListSize
<1>1. PICK c \in Nat : c = Cardinality(Writers(inflight, Len(inflight)))
  BY InflightType, WritersType
<1>2. Cardinality(Wanting(RENAME2)) \in Nat /\ Cardinality(Wanting(RENAME2)) >= 1
  BY BundleLeft
<1>3. Cardinality(Wanting(RENAME2)) <= freeListSize - c
  BY <1>1, Enough, WithDestIs
<1> QED BY <1>1, <1>2, <1>3, Sizes

\* Every step keeps the registers of the instructions in flight in the free list, in order.
LEMMA FreeListStep ==
  ASSUME SizesAgree, Renamed, [Next]_vars, TypeOK'
  PROVE  FreeListInOrder'
<1>0. TypeOK /\ DispatchedFirst /\ BranchesNamed /\ EnoughForBundle /\ FreeListInOrder
  BY DEF Renamed
<1>a. PICK n \in Nat, tail \in Pointer(freeListSize) : n = Len(inflight) /\ tail = freeList_Tail
  BY <1>0, InflightType DEF TypeOK
<1>b. PICK w, table, entry, head : /\ w = inflight /\ table = branchCheckpointTable
                                   /\ entry = freeListEntry /\ head = freeList_Head
  OBVIOUS
<1>1. /\ n = Len(inflight) /\ w = inflight /\ table = branchCheckpointTable
      /\ entry = freeListEntry /\ head = freeList_Head /\ tail = freeList_Tail
  BY <1>a, <1>b
<1>2. FreeListOf(w, n, table, entry, head, tail)
  BY <1>0, <1>1, FreeListAlways
<1> DEFINE After == FreeListOf(inflight', Len(inflight'), branchCheckpointTable', freeListEntry',
                               freeList_Head', freeList_Tail')
<1> SUFFICES After
  BY FreeListAlways
<1>3. CASE Next
  <2>1. CASE \E bundle \in Bundles : Rename2(bundle)
    BY <1>1, <1>2, <2>1 DEF Rename2, freeListVars
  <2>2. CASE RenameNext
    <3>1. PICK instr, phys, id, x : RenamedAs(instr, phys, id, x)
      BY <1>0, <2>2, RenameNextResult
    <3>2. PICK w2, table2, head2 :
            w2 = inflight' /\ table2 = branchCheckpointTable' /\ head2 = freeList_Head'
      OBVIOUS
    <3>3. /\ x.dest = instr.dest /\ (instr.dest # NoReg => x.destPhys = entry[head.idx])
          /\ x.branch_ID = id /\ (Open(x) <=> Forks(instr))
          /\ w2 = Append(w, x) /\ w \in Seq(Payload) /\ x \in Payload
          /\ instr = Head(RENAME2)
          /\ head2 = IF instr.dest # NoReg THEN Advance(head, freeListSize) ELSE head
          /\ UNCHANGED <<freeListEntry, freeList_Tail>>
      BY <1>0, <1>1, <3>1, <3>2 DEF RenamedAs, TypeOK
    <3>4. Len(w2) = n + 1 /\ w2[n + 1] = x /\ \A j \in 1..n : w2[j] = w[j]
      BY <1>1, <3>3
    <3>5. /\ Forks(instr) => /\ id \notin DOMAIN table
                             /\ table2[id].freeListHead = head2
                             /\ \A b \in DOMAIN table : table2[b] = table[b]
          /\ ~Forks(instr) => table2 = table
      <4>1. CASE Forks(instr)
        <5>1. id \in CheckpointID \ GBM
          BY <3>1, <4>1 DEF RenamedAs
        <5>2. id \notin DOMAIN table
          BY <1>0, <1>1, <5>1 DEF TypeOK
        <5>3. PICK v : v = [freeListHead |-> freeList_Head', gbm |-> GBM, shadowMapTable |-> RMT']
                       /\ table2 = [b \in DOMAIN table \cup {id} |-> IF b = id THEN v ELSE table[b]]
          <6>1. PICK v : v = [freeListHead |-> freeList_Head', gbm |-> GBM, shadowMapTable |-> RMT']
            OBVIOUS
          <6>2. branchCheckpointTable' =
                  [b \in DOMAIN branchCheckpointTable \cup {id} |->
                    IF b = id
                    THEN [freeListHead |-> freeList_Head', gbm |-> GBM, shadowMapTable |-> RMT']
                    ELSE branchCheckpointTable[b]]
            BY <3>1, <4>1, Zenon DEF RenamedAs
          <6> QED BY <1>1, <3>2, <6>1, <6>2
        <5>4. table2[id] = v /\ v.freeListHead = head2
          BY <3>2, <5>3
        <5> QED BY <4>1, <5>2, <5>3, <5>4
      <4>2. CASE ~Forks(instr)
        BY <1>1, <3>1, <3>2, <4>2 DEF RenamedAs
      <4> QED BY <4>1, <4>2
    <3>6. \A j \in 1..n : Open(w[j]) => w[j].branch_ID \in DOMAIN table
      <4>1. BranchesOf(w, n, table, GBM)
        BY <1>0, <1>1, BranchesNamedAlways
      <4> QED BY <4>1, InIDs DEF BranchesOf
    <3>7. \A j \in 1..n : Open(w[j]) => table2[w[j].branch_ID] = table[w[j].branch_ID]
      BY <3>5, <3>6
    <3>8. Open(x) => table2[id].freeListHead = head2
      BY <3>3, <3>5
    <3>9. x.dest # NoReg => Cardinality(Writers(w, n)) < freeListSize
      BY <1>0, <1>1, <2>2, <3>3, RegisterFree
    <3>10. FreeListTaken(n, w, w2, table, table2, entry, head, head2)
      BY <3>3, <3>4, <3>7, <3>8, <3>9 DEF FreeListTaken
    <3>11. FreeListOf(w2, n + 1, table2, entry, head2, tail)
      BY <1>2, <3>10, FreeListRename
    <3> QED BY <1>1, <3>2, <3>3, <3>4, <3>11
  <2>3. CASE Dispatch
    <3>1. /\ Len(inflight') = n
          /\ \A j \in 1..n : /\ inflight'[j].dest = w[j].dest
                             /\ inflight'[j].destPhys = w[j].destPhys
                             /\ inflight'[j].branch_ID = w[j].branch_ID
                             /\ Open(inflight'[j]) <=> Open(w[j])
      BY <1>0, <1>1, <2>3, DispatchShape
    <3>2. FreeListOf(inflight', n, table, entry, head, tail)
      BY <1>2, <3>1, FreeListKept
    <3>3. branchCheckpointTable' = table /\ freeListEntry' = entry /\ freeList_Head' = head
          /\ freeList_Tail' = tail
      BY <1>1, <2>3 DEF Dispatch, freeListVars
    <3> QED BY <3>1, <3>2, <3>3
  <2>4. CASE \E i \in 1..Len(inflight) : ResolveCorrect(i)
    <3>1. PICK i \in 1..Len(inflight) : ResolveCorrect(i)
      BY <2>4
    <3>2. /\ Len(inflight') = n
          /\ \A j \in 1..n : /\ inflight'[j].dest = w[j].dest
                             /\ inflight'[j].destPhys = w[j].destPhys
                             /\ inflight'[j].branch_ID = w[j].branch_ID
                             /\ Open(inflight'[j]) <=> Open(w[j]) /\ j # i
      BY <1>0, <1>1, <3>1, ResolveCorrectShape
    <3>3. PICK table2 : table2 = branchCheckpointTable'
      OBVIOUS
    <3>4. \A j \in 1..n : j # i /\ Open(w[j]) =>
            table2[w[j].branch_ID].freeListHead = table[w[j].branch_ID].freeListHead
      BY <1>0, <1>1, <3>1, <3>3, KeptCheckpoints
    <3>5. FreeListOf(inflight', n, table2, entry, head, tail)
      BY <1>2, <3>2, <3>4, FreeListKept
    <3>6. freeListEntry' = entry /\ freeList_Head' = head /\ freeList_Tail' = tail
      BY <1>1, <3>1 DEF ResolveCorrect, freeListVars
    <3> QED BY <3>2, <3>3, <3>5, <3>6
  <2>5. CASE \E i \in 1..Len(inflight) : Mispredict(i)
    <3>1. PICK i \in 1..n : Mispredict(i)
      BY <1>1, <2>5
    <3>2. /\ Len(inflight') = i
          /\ \A j \in 1..i : /\ inflight'[j].dest = w[j].dest
                             /\ inflight'[j].destPhys = w[j].destPhys
                             /\ inflight'[j].branch_ID = w[j].branch_ID
                             /\ Open(inflight'[j]) <=> Open(w[j]) /\ j # i
      BY <1>0, <1>1, <3>1, MispredictShape
    <3>3. PICK table2, w2, head2 :
            table2 = branchCheckpointTable' /\ w2 = inflight' /\ head2 = freeList_Head'
      OBVIOUS
    <3>4. \A j \in 1..(i - 1) : Open(w[j]) => table2[w[j].branch_ID] = table[w[j].branch_ID]
      BY <1>0, <1>1, <3>1, <3>3, KeptCheckpoints
    <3>5. Resolvable(i) /\ head2 = table[w[i].branch_ID].freeListHead
          /\ freeListEntry' = entry /\ freeList_Tail' = tail
      BY <1>1, <3>1, <3>3 DEF Mispredict
    <3>6. Open(w[i])
      BY <1>0, <1>1, <3>5, ResolvableOnes
    <3>7. \A j \in 1..i : Open(w2[j]) => /\ Open(w[j])
                                         /\ table2[w2[j].branch_ID] = table[w[j].branch_ID]
      <4> SUFFICES ASSUME NEW j \in 1..i, Open(w2[j])
                   PROVE  Open(w[j]) /\ table2[w2[j].branch_ID] = table[w[j].branch_ID]
        OBVIOUS
      <4>1. Open(w[j]) /\ j # i /\ w2[j].branch_ID = w[j].branch_ID
        BY <3>2, <3>3
      <4>2. j \in 1..(i - 1)
        BY <4>1
      <4> QED BY <3>4, <4>1, <4>2
    <3>8. FreeListRestored(i, w, w2, table, table2, head2)
      BY <3>2, <3>3, <3>5, <3>6, <3>7 DEF FreeListRestored
    <3>9. FreeListOf(w2, i, table2, entry, head2, tail)
      BY <1>2, <3>8, FreeListRestore
    <3> QED BY <3>2, <3>3, <3>5, <3>9
  <2>6. CASE \E i \in 1..Len(inflight) : Commit(i)
    <3>1. PICK i \in 1..Len(inflight) : Commit(i)
      BY <2>6
    <3>2. /\ i = 1 /\ Len(inflight') = n - 1
          /\ \A j \in 1..(n - 1) : inflight'[j] = w[j + 1]
      BY <1>0, <1>1, <3>1, CommitShape
    <3>3. n \in Nat \ {0}
      BY <1>1, <3>1
    <3>4. PICK w2, entry2, tail2 :
            w2 = inflight' /\ entry2 = freeListEntry' /\ tail2 = freeList_Tail'
      OBVIOUS
    <3>5. CommitRegisters(w[1]) /\ branchCheckpointTable' = table /\ freeList_Head' = head
      BY <1>1, <3>1, <3>2 DEF Commit
    <3>6. /\ tail2 = IF w[1].dest # NoReg THEN Advance(tail, freeListSize) ELSE tail
          /\ \A s \in 0..(freeListSize - 1) :
               w[1].dest = NoReg \/ s # tail.idx => entry2[s] = entry[s]
      <4>1. CASE w[1].dest = NoReg
        BY <1>1, <3>4, <3>5, <4>1 DEF CommitRegisters
      <4>2. CASE w[1].dest # NoReg
        <5>1. PICK r : entry2 = [entry EXCEPT ![tail.idx] = r]
                       /\ tail2 = Advance(tail, freeListSize)
          BY <1>1, <3>4, <3>5, <4>2 DEF CommitRegisters
        <5>2. entry \in [0..(freeListSize - 1) -> PhysReg]
          BY <1>0, <1>1 DEF TypeOK
        <5> QED BY <4>2, <5>1, <5>2
      <4> QED BY <4>1, <4>2
    <3>7. FreeListReturned(n, w, w2, entry, entry2, tail, tail2)
      BY <3>2, <3>4, <3>6 DEF FreeListReturned
    <3>8. FreeListOf(w2, n - 1, table, entry2, head, tail2)
      BY <1>2, <3>3, <3>7, FreeListMoveUp
    <3> QED BY <3>2, <3>4, <3>5, <3>8
  <2>7. CASE Squashed /\ RENAME2 = <<>>
    <3>1. inflight' = <<>> /\ freeList_Head' = Flipped(freeList_Tail')
      BY <2>7 DEF Squashed, SquashRenamer, Flipped
    <3>2. PICK tail2 \in Pointer(freeListSize) : tail2 = freeList_Tail'
      BY DEF TypeOK
    <3>3. Len(<<>>) = 0
      OBVIOUS
    <3>4. FreeListOf(inflight', 0, branchCheckpointTable', freeListEntry', Flipped(tail2), tail2)
      BY FreeListNone
    <3> QED BY <3>1, <3>2, <3>3, <3>4
  <2> QED BY <1>0, <1>3, <2>1, <2>2, <2>3, <2>4, <2>5, <2>6, <2>7, Steps
<1>4. CASE UNCHANGED vars
  BY <1>1, <1>2, <1>4 DEF vars, freeListVars
<1> QED BY <1>3, <1>4

-----------------------------------------------------------------------------
(* No register is lost *)

\* What the free list's entries and the architectural map hold.
HeldBy(entry, A) == {entry[s] : s \in 0..(freeListSize - 1)} \cup {A[l] : l \in LogReg}

\* EveryRegisterHeld, before a step and after it.
LEMMA HeldAlways ==
  /\ EveryRegisterHeld <=> HeldBy(freeListEntry, AMT) = PhysReg
  /\ EveryRegisterHeld' <=> HeldBy(freeListEntry', AMT') = PhysReg
BY DEF EveryRegisterHeld, HeldBy, ArchitecturalRegisters

\* The two swap a register.
Swapped(entry, A, entry2, A2, t, d) ==
  /\ t \in 0..(freeListSize - 1) /\ d \in LogReg
  /\ DOMAIN entry = 0..(freeListSize - 1) /\ DOMAIN A = LogReg
  /\ entry2 = [entry EXCEPT ![t] = A[d]] /\ A2 = [A EXCEPT ![d] = entry[t]]

\* Swapping two registers loses neither.
LEMMA HeldSwap ==
  ASSUME NEW entry, NEW A, NEW entry2, NEW A2, NEW t, NEW d, Swapped(entry, A, entry2, A2, t, d)
  PROVE  HeldBy(entry2, A2) = HeldBy(entry, A)
<1>0. t \in 0..(freeListSize - 1) /\ d \in LogReg
  BY DEF Swapped
<1>1. \A s \in 0..(freeListSize - 1) : entry2[s] = IF s = t THEN A[d] ELSE entry[s]
  BY DEF Swapped
<1>2. \A l \in LogReg : A2[l] = IF l = d THEN entry[t] ELSE A[l]
  BY DEF Swapped
<1>3. ASSUME NEW r
      PROVE  r \in HeldBy(entry, A) <=> \/ \E s \in 0..(freeListSize - 1) : entry[s] = r
                                        \/ \E l \in LogReg : A[l] = r
  BY DEF HeldBy
<1>4. ASSUME NEW r
      PROVE  r \in HeldBy(entry2, A2) <=> \/ \E s \in 0..(freeListSize - 1) : entry2[s] = r
                                          \/ \E l \in LogReg : A2[l] = r
  BY DEF HeldBy
<1>5. ASSUME NEW r PROVE r \in HeldBy(entry2, A2) => r \in HeldBy(entry, A)
  BY <1>0, <1>1, <1>2, <1>3, <1>4
<1>6. ASSUME NEW r PROVE r \in HeldBy(entry, A) => r \in HeldBy(entry2, A2)
  BY <1>0, <1>1, <1>2, <1>3, <1>4
<1> QED BY <1>5, <1>6

\* The oldest instruction's register is the one at the tail of the free list.
LEMMA OldestRegister ==
  ASSUME SizesAgree, TypeOK, FreeListInOrder, Len(inflight) > 0, inflight[1].dest # NoReg
  PROVE  inflight[1].destPhys = freeListEntry[freeList_Tail.idx]
<1>1. Len(inflight) \in Nat /\ freeList_Tail \in Pointer(freeListSize)
  BY InflightType DEF TypeOK
<1>2. 1 \in 1..Len(inflight)
  BY <1>1
<1>3. FreeListOf(inflight, Len(inflight), branchCheckpointTable, freeListEntry,
                 freeList_Head, freeList_Tail)
  BY FreeListAlways
<1>4. inflight[1].destPhys
        = freeListEntry[Behind(freeList_Tail, Count(Writers(inflight, Len(inflight)), 1)).idx]
  BY <1>2, <1>3 DEF FreeListOf
<1>5. Count(Writers(inflight, Len(inflight)), 1) = 0
  BY <1>1, WritersType, CountAll
<1>6. Behind(freeList_Tail, 0).idx = freeList_Tail.idx
  BY <1>1, BehindType DEF Flipped
<1> QED BY <1>4, <1>5, <1>6

\* The oldest instruction's register becomes architectural, and what it replaces becomes free.
LEMMA CommitSwaps ==
  ASSUME SizesAgree, TypeOK, FreeListInOrder, EveryRegisterHeld, Len(inflight) > 0,
         CommitRegisters(inflight[1])
  PROVE  EveryRegisterHeld'
<1>1. PICK w : w = inflight[1] /\ w.dest \in LogReg \cup {NoReg}
  <2>1. 1 \in 1..Len(inflight)
    BY InflightType
  <2> QED BY <2>1, InflightType
<1>2. CASE w.dest = NoReg
  BY <1>1, <1>2, HeldAlways DEF CommitRegisters
<1>3. CASE w.dest # NoReg
  <2>1. PICK t \in 0..(freeListSize - 1) : t = freeList_Tail.idx
    BY DEF TypeOK, Pointer
  <2>2. PICK d \in LogReg : d = w.dest
    BY <1>1, <1>3
  <2>3. PICK entry, A : /\ entry = freeListEntry /\ A = AMT
                        /\ DOMAIN entry = 0..(freeListSize - 1) /\ DOMAIN A = LogReg
    BY DEF TypeOK
  <2>4. w.destPhys = entry[t]
    BY <1>1, <1>3, <2>1, <2>3, OldestRegister
  <2>5. freeListEntry' = [entry EXCEPT ![t] = A[d]] /\ AMT' = [A EXCEPT ![d] = entry[t]]
    BY <1>1, <1>3, <2>1, <2>2, <2>3, <2>4 DEF CommitRegisters
  <2>6. HeldBy(freeListEntry', AMT') = HeldBy(entry, A)
    <3>1. PICK entry2, A2 : entry2 = freeListEntry' /\ A2 = AMT'
      OBVIOUS
    <3>2. Swapped(entry, A, entry2, A2, t, d)
      BY <2>3, <2>5, <3>1 DEF Swapped
    <3>3. HeldBy(entry2, A2) = HeldBy(entry, A)
      BY <3>2, HeldSwap
    <3> QED BY <3>1, <3>3
  <2> QED BY <2>3, <2>5, <2>6, HeldAlways
<1> QED BY <1>2, <1>3

\* Every step keeps every register in the free list's entries or in the architectural map.
LEMMA HeldStep ==
  ASSUME SizesAgree, Renamed, [Next]_vars
  PROVE  EveryRegisterHeld'
<1>0. TypeOK /\ DispatchedFirst /\ FreeListInOrder /\ EveryRegisterHeld
  BY DEF Renamed
<1>1. UNCHANGED <<freeListEntry, AMT>> => EveryRegisterHeld'
  BY <1>0, HeldAlways
<1>2. CASE Next
  <2>1. CASE \E bundle \in Bundles : Rename2(bundle)
    BY <1>1, <2>1 DEF Rename2, freeListVars
  <2>2. CASE RenameNext
    BY <1>1, <2>2, Zenon DEF RenameNext
  <2>3. CASE Dispatch
    BY <1>1, <2>3 DEF Dispatch, freeListVars
  <2>4. CASE \E i \in 1..Len(inflight) : ResolveCorrect(i)
    BY <1>1, <2>4 DEF ResolveCorrect, freeListVars
  <2>5. CASE \E i \in 1..Len(inflight) : Mispredict(i)
    BY <1>1, <2>5 DEF Mispredict
  <2>6. CASE \E i \in 1..Len(inflight) : Commit(i)
    <3>1. PICK i \in 1..Len(inflight) : Commit(i)
      BY <2>6
    <3>2. i = 1 /\ CommitRegisters(inflight[1])
      BY <1>0, <3>1, CommitShape DEF Commit
    <3>3. Len(inflight) > 0
      BY <1>0, <3>1, InflightType
    <3> QED BY <1>0, <3>2, <3>3, CommitSwaps
  <2>7. CASE Squashed /\ RENAME2 = <<>>
    <3>1. CASE Len(inflight) > 0 /\ CommitRegisters(inflight[1])
      BY <1>0, <3>1, CommitSwaps
    <3>2. CASE UNCHANGED <<AMT, freeListEntry, freeList_Tail, activeList_Head>>
      BY <1>1, <3>2
    <3> QED BY <2>7, <3>1, <3>2 DEF Squashed
  <2> QED BY <1>0, <1>2, <2>1, <2>2, <2>3, <2>4, <2>5, <2>6, <2>7, Steps
<1>3. CASE UNCHANGED vars
  BY <1>1, <1>3 DEF vars, freeListVars
<1> QED BY <1>2, <1>3

-----------------------------------------------------------------------------
(* Enough registers and checkpoints for the bundle *)

\* How many registers are free.
LEMMA FreeCount ==
  ASSUME SizesAgree, TypeOK, FreeListInOrder
  PROVE  Distance(freeList_Head, freeList_Tail, freeListSize) = freeListSize - Cardinality(WithDest)
         /\ Cardinality(WithDest) \in 0..freeListSize
<1>1. Len(inflight) \in Nat /\ freeList_Tail \in Pointer(freeListSize)
  BY InflightType DEF TypeOK
<1>2. PICK c \in 0..freeListSize : c = Cardinality(WithDest)
  <2>1. Cardinality(Writers(inflight, Len(inflight))) \in Nat
    BY <1>1, WritersType
  <2>2. Cardinality(WithDest) <= freeListSize
    BY DEF FreeListInOrder
  <2> QED BY <2>1, <2>2, WithDestIs, Sizes
<1>3. freeList_Head = Behind(freeList_Tail, c)
  BY <1>2, FreeListAlways, WithDestIs DEF FreeListOf
<1>4. Distance(Behind(freeList_Tail, c), freeList_Tail, freeListSize) = freeListSize - c
  BY <1>1, BehindDistance
<1> QED BY <1>2, <1>3, <1>4

\* There are a number of free bits, and one fewer when a branch takes one.
LEMMA FreeBitsTaken ==
  /\ IsFiniteSet(FreeBits) /\ Cardinality(FreeBits) \in Nat
  /\ \A id \in FreeBits : Cardinality(FreeBits \ {id}) = Cardinality(FreeBits) - 1
<1>1. IsFiniteSet(FreeBits)
  <2>1. noOfCheckpoint - 1 \in Int /\ 0 \in Int
    BY RenamerAssumption
  <2>2. IsFiniteSet(0..(noOfCheckpoint - 1))
    BY <2>1, FS_Interval
  <2> QED BY <2>2, FS_Subset DEF FreeBits
<1>2. Cardinality(FreeBits) \in Nat
  BY <1>1, FS_CardinalityType
<1>3. ASSUME NEW id \in FreeBits
      PROVE  Cardinality(FreeBits \ {id}) = Cardinality(FreeBits) - 1
  BY <1>1, FS_RemoveElement
<1> QED BY <1>1, <1>2, <1>3

\* Nothing is left of a bundle that is renamed.
LEMMA NothingLeftIs ==
  SizesAgree /\ TypeOK /\ FreeListInOrder /\ RENAME2 = <<>> => EnoughForBundle
<1> SUFFICES ASSUME SizesAgree, TypeOK, FreeListInOrder, RENAME2 = <<>> PROVE EnoughForBundle
  OBVIOUS
<1>1. Wanting(RENAME2) = {} /\ Forking(RENAME2) = {} /\ Cardinality({}) = 0
  BY FS_EmptySet DEF Wanting, Forking
<1>2. Cardinality(WithDest) \in 0..freeListSize
  BY FreeCount
<1>3. Cardinality(FreeBits) \in Nat
  BY FreeBitsTaken
<1>4. Cardinality(Wanting(RENAME2)) = 0 /\ Cardinality(Forking(RENAME2)) = 0
  BY <1>1
<1>5. 0 <= freeListSize - Cardinality(WithDest) /\ 0 <= Cardinality(FreeBits)
  BY <1>2, <1>3, Sizes
<1> QED BY <1>4, <1>5, Enough

\* The same of the next state.
LEMMA NothingLeft ==
  ASSUME SizesAgree, TypeOK', FreeListInOrder', RENAME2' = <<>>
  PROVE  EnoughForBundle'
<1>1. (SizesAgree /\ TypeOK /\ FreeListInOrder /\ RENAME2 = <<>> => EnoughForBundle)'
  BY NothingLeftIs, PTL
<1>2. SizesAgree'
  BY DEF SizesAgree
<1> QED BY <1>1, <1>2

\* Every step leaves enough for what rename2 has left.
LEMMA EnoughStep ==
  ASSUME SizesAgree, Renamed, [Next]_vars, TypeOK', FreeListInOrder'
  PROVE  EnoughForBundle'
<1>0. TypeOK /\ DispatchedFirst /\ FreeListInOrder /\ EnoughForBundle
  BY DEF Renamed
<1>1. /\ EnoughForBundle <=>
           /\ Cardinality(Wanting(RENAME2)) <= freeListSize - Cardinality(WithDest)
           /\ Cardinality(Forking(RENAME2)) <= Cardinality(FreeBits)
      /\ EnoughForBundle' <=>
           /\ Cardinality(Wanting(RENAME2')) <= freeListSize - Cardinality(WithDest')
           /\ Cardinality(Forking(RENAME2')) <= Cardinality(FreeBits')
  <2>1. EnoughForBundle' <=> EnoughIs'
    BY EnoughAlways, PTL
  <2> QED BY <2>1, Enough DEF EnoughIs, Wanting, Forking
<1>2. CASE Next
  <2>1. CASE \E bundle \in Bundles : Rename2(bundle)
    <3>1. PICK bundle \in Bundles : Rename2(bundle)
      BY <2>1
    <3>2. PICK n \in Nat : n = Len(bundle)
      BY BundleIsSequence
    <3>3. Forking(bundle) = {i \in 1..Len(bundle) : bundle[i].checkpoint}
      BY Zenon DEF Forking, Forks
    <3>4. Wanting(bundle) = {i \in 1..Len(bundle) : bundle[i].dest # NoReg}
      BY DEF Wanting
    <3>5. PICK a \in Nat, b \in Nat :
            a = Cardinality(Wanting(bundle)) /\ b = Cardinality(Forking(bundle))
      <4>1. Wanting(bundle) \in SUBSET (1..n) /\ Forking(bundle) \in SUBSET (1..n) /\ 1 \in Int
        BY <3>2 DEF Wanting, Forking
      <4>2. Cardinality(Wanting(bundle)) \in 0..n /\ Cardinality(Forking(bundle)) \in 0..n
        BY <4>1, CountType
      <4> QED BY <4>2
    <3>6. ~stall_reg(a) /\ ~stall_branch(b)
      BY <3>1, <3>3, <3>4, <3>5 DEF Rename2
    <3>7. a <= freeListSize - Cardinality(WithDest)
      BY <1>0, <3>6, FreeCount, Sizes DEF stall_reg
    <3>8. b <= Cardinality(FreeBits)
      BY <3>6, FreeBitsTaken DEF stall_branch
    <3>9. RENAME2' = bundle /\ WithDest' = WithDest /\ FreeBits' = FreeBits
      BY <3>1 DEF Rename2, WithDest, FreeBits
    <3> QED BY <1>1, <3>5, <3>7, <3>8, <3>9
  <2>2. CASE RenameNext
    <3>1. PICK instr, phys, id, x : RenamedAs(instr, phys, id, x)
      BY <1>0, <2>2, RenameNextResult
    <3>2. PICK n \in Nat, w2 \in {inflight'} : n = Len(inflight) /\ w2 = inflight'
      BY <1>0, InflightType
    <3>3. /\ instr = Head(RENAME2) /\ x.dest = instr.dest /\ inflight' = Append(inflight, x)
          /\ inflight \in Seq(Payload) /\ x \in Payload
      BY <1>0, <3>1 DEF RenamedAs, TypeOK
    <3>4. Len(w2) = n + 1 /\ w2[n + 1] = x /\ \A j \in 1..n : w2[j] = inflight[j]
      BY <3>2, <3>3
    <3>5. Cardinality(Writers(w2, n + 1))
            = Cardinality(Writers(inflight, n)) + (IF instr.dest # NoReg THEN 1 ELSE 0)
      <4>1. Cardinality(Writers(w2, n + 1))
              = Cardinality(Writers(inflight, n)) + (IF w2[n + 1].dest # NoReg THEN 1 ELSE 0)
        BY <3>4, WritersNext
      <4> QED BY <3>3, <3>4, <4>1
    <3>6. WithDest = Writers(inflight, n) /\ WithDest' = Writers(w2, n + 1)
      <4>1. WithDest' = Writers(inflight', Len(inflight'))
        BY DEF WithDest, Writers
      <4> QED BY <3>2, <3>4, <4>1, WithDestIs
    <3>7. /\ Cardinality(Wanting(RENAME2)) \in Nat /\ Cardinality(Forking(RENAME2)) \in Nat
          /\ Cardinality(Wanting(RENAME2'))
               = Cardinality(Wanting(RENAME2)) - (IF instr.dest # NoReg THEN 1 ELSE 0)
          /\ Cardinality(Forking(RENAME2'))
               = Cardinality(Forking(RENAME2)) - (IF Forks(instr) THEN 1 ELSE 0)
      BY <1>0, <2>2, <3>3, BundleLeft
    <3>8. Cardinality(WithDest) \in Nat
      BY <3>6, WritersType
    <3>9. Cardinality(Wanting(RENAME2')) <= freeListSize - Cardinality(WithDest')
      BY <1>0, <1>1, <3>5, <3>6, <3>7, <3>8, Sizes
    <3>10. Cardinality(FreeBits') = Cardinality(FreeBits) - (IF Forks(instr) THEN 1 ELSE 0)
      <4>1. CASE Forks(instr)
        <5>1. id \in CheckpointID \ GBM /\ GBM' = GBM \cup OneShifted(id)
          BY <3>1, <4>1 DEF RenamedAs
        <5>2. Named(OneShifted(id)) = {id}
          BY <5>1, ShiftedBit
        <5>3. FreeBits' = FreeBits \ {id} /\ id \in FreeBits
          BY <5>1, <5>2 DEF FreeBits, Named, CheckpointID
        <5> QED BY <4>1, <5>3, FreeBitsTaken
      <4>2. CASE ~Forks(instr)
        <5>1. GBM' = GBM
          BY <3>1, <4>2 DEF RenamedAs
        <5> QED BY <4>2, <5>1, FreeBitsTaken DEF FreeBits
      <4> QED BY <4>1, <4>2
    <3>11. Cardinality(Forking(RENAME2')) <= Cardinality(FreeBits')
      BY <1>0, <1>1, <3>7, <3>10, FreeBitsTaken
    <3> QED BY <1>1, <3>9, <3>11
  <2>3. CASE Dispatch
    BY <2>3, NothingLeft DEF Dispatch
  <2>4. CASE \E i \in 1..Len(inflight) : ResolveCorrect(i)
    BY <2>4, NothingLeft DEF ResolveCorrect, Resolvable
  <2>5. CASE \E i \in 1..Len(inflight) : Mispredict(i)
    BY <2>5, NothingLeft DEF Mispredict, Resolvable
  <2>6. CASE \E i \in 1..Len(inflight) : Commit(i)
    BY <2>6, NothingLeft DEF Commit, AtHead
  <2>7. CASE Squashed /\ RENAME2 = <<>>
    BY <2>7, NothingLeft DEF Squashed
  <2> QED BY <1>0, <1>2, <2>1, <2>2, <2>3, <2>4, <2>5, <2>6, <2>7, Steps
<1>3. CASE UNCHANGED vars
  <2>1. WithDest' = WithDest /\ FreeBits' = FreeBits /\ RENAME2' = RENAME2
    BY <1>3 DEF vars, WithDest, FreeBits
  <2> QED BY <1>0, <1>1, <2>1
<1> QED BY <1>2, <1>3

-----------------------------------------------------------------------------
(* The maps *)

\* MapsFollowProgramOrder of any map, architectural map, n instructions and checkpoints.
MapsOf(map, A, w, n, table) ==
  /\ map = MapOf(A, w, n)
  /\ \A i \in 1..n :
       /\ Open(w[i]) => table[w[i].branch_ID].shadowMapTable = MapOf(A, w, i)
       /\ w[i].srcPhys = MapOf(A, w, i - 1)[w[i].src]

\* MapsOf the state.
MapsFollow == MapsOf(RMT, AMT, inflight, Len(inflight), branchCheckpointTable)

\* MapsFollowProgramOrder is MapsOf the state.
LEMMA MapsFollowIs == MapsFollowProgramOrder <=> MapsFollow
<1>1. \A k : MapAfter(k) = MapOf(AMT, inflight, k)
  BY DEF MapAfter, MapOf
<1>2. ASSUME NEW i PROVE inflight[i].checkpoint /\ ~inflight[i].resolved <=> Open(inflight[i])
  BY Zenon DEF Open
<1>3. MapsFollowProgramOrder <=>
        /\ RMT = MapAfter(Len(inflight))
        /\ \A i \in 1..Len(inflight) :
             /\ Open(inflight[i]) =>
                  branchCheckpointTable[inflight[i].branch_ID].shadowMapTable = MapAfter(i)
             /\ inflight[i].srcPhys = MapAfter(i - 1)[inflight[i].src]
  BY Zenon DEF MapsFollowProgramOrder, Open
<1> QED BY <1>1, <1>3 DEF MapsFollow, MapsOf

\* MapsFollowProgramOrder, before a step and after it.
LEMMA MapsAlways ==
  /\ MapsFollowProgramOrder <=> MapsOf(RMT, AMT, inflight, Len(inflight), branchCheckpointTable)
  /\ MapsFollowProgramOrder' <=>
       MapsOf(RMT', AMT', inflight', Len(inflight'), branchCheckpointTable')
<1>1. MapsFollowProgramOrder' <=> MapsFollow'
  BY MapsFollowIs, PTL
<1>2. MapsFollow' <=> MapsOf(RMT', AMT', inflight', Len(inflight'), branchCheckpointTable')
  BY DEF MapsFollow
<1> QED BY <1>1, <1>2, MapsFollowIs DEF MapsFollow

\* Of some instructions the first m stay, with their sources, destinations and branches.
KeepsMaps(m, w, w2, table, table2) ==
  \A j \in 1..m : /\ w2[j].src = w[j].src /\ w2[j].srcPhys = w[j].srcPhys
                  /\ w2[j].dest = w[j].dest /\ w2[j].destPhys = w[j].destPhys
                  /\ Open(w2[j]) => /\ Open(w[j])
                                    /\ table2[w2[j].branch_ID].shadowMapTable
                                         = table[w[j].branch_ID].shadowMapTable

\* Their maps stay, too.
LEMMA MapsKept ==
  ASSUME NEW map, NEW A, NEW w, NEW n \in Nat, NEW table, MapsOf(map, A, w, n, table),
         NEW m \in 0..n, NEW w2, NEW table2, NEW map2, KeepsMaps(m, w, w2, table, table2),
         map2 = MapOf(A, w, m)
  PROVE  MapsOf(map2, A, w2, m, table2)
<1>1. ASSUME NEW k \in 0..m PROVE MapOf(A, w2, k) = MapOf(A, w, k)
  <2>1. \A j \in 1..k : w2[j].dest = w[j].dest /\ w2[j].destPhys = w[j].destPhys
    BY DEF KeepsMaps
  <2>2. k \in Nat
    OBVIOUS
  <2> QED BY <2>1, <2>2, MapOfSame
<1>2. m \in 0..m /\ \A j \in 1..m : j \in 1..n /\ j \in 0..m /\ j - 1 \in 0..m
  OBVIOUS
<1>3. map2 = MapOf(A, w2, m)
  BY <1>1, <1>2
<1>4. ASSUME NEW j \in 1..m, Open(w2[j])
      PROVE  table2[w2[j].branch_ID].shadowMapTable = MapOf(A, w2, j)
  BY <1>1, <1>2, <1>4 DEF MapsOf, KeepsMaps
<1>5. ASSUME NEW j \in 1..m PROVE w2[j].srcPhys = MapOf(A, w2, j - 1)[w2[j].src]
  BY <1>1, <1>2 DEF MapsOf, KeepsMaps
<1> QED BY <1>3, <1>4, <1>5 DEF MapsOf

\* The oldest of n instructions commits.
LEMMA MapsMoveUp ==
  ASSUME NEW map, NEW S, NEW A \in [LogReg -> S], NEW w, NEW n \in Nat \ {0}, NEW table,
         MapsOf(map, A, w, n, table),
         NEW w2, \A j \in 1..(n - 1) : w2[j] = w[j + 1],
         w[1].dest \in LogReg \cup {NoReg}
  PROVE  MapsOf(map, Committed(A, w[1]), w2, n - 1, table)
<1>1. ASSUME NEW k \in 1..n PROVE MapOf(Committed(A, w[1]), w2, k - 1) = MapOf(A, w, k)
  <2>1. \A j \in 1..(k - 1) : w2[j] = w[j + 1]
    OBVIOUS
  <2>2. k \in Nat \ {0}
    OBVIOUS
  <2> QED BY <2>1, <2>2, MapOfRest
<1>2. map = MapOf(Committed(A, w[1]), w2, n - 1)
  <2>1. n \in 1..n
    OBVIOUS
  <2> QED BY <1>1, <2>1 DEF MapsOf
<1>3. ASSUME NEW j \in 1..(n - 1)
      PROVE  /\ Open(w2[j]) => table[w2[j].branch_ID].shadowMapTable
                                 = MapOf(Committed(A, w[1]), w2, j)
             /\ w2[j].srcPhys = MapOf(Committed(A, w[1]), w2, j - 1)[w2[j].src]
  <2>1. PICK k \in 1..n : k = j + 1 /\ k - 1 = j /\ j \in 1..n
    OBVIOUS
  <2>2. w2[j] = w[k]
    BY <2>1
  <2>3. MapOf(Committed(A, w[1]), w2, j) = MapOf(A, w, k)
    BY <1>1, <2>1
  <2>4. MapOf(Committed(A, w[1]), w2, j - 1) = MapOf(A, w, j)
    BY <1>1, <2>1
  <2>5. w[k].srcPhys = MapOf(A, w, j)[w[k].src]
    BY <2>1 DEF MapsOf
  <2> QED BY <2>2, <2>3, <2>4, <2>5 DEF MapsOf
<1> QED BY <1>2, <1>3 DEF MapsOf

\* An instruction is renamed after n others, on the map they make.
MapsTaken(map, w, n, table, x, map2, w2, table2) ==
  /\ \A j \in 1..n : w2[j] = w[j]
  /\ w2[n + 1] = x
  /\ x.dest \in LogReg \cup {NoReg}
  /\ map2 = IF x.dest # NoReg THEN [map EXCEPT ![x.dest] = x.destPhys] ELSE map
  /\ x.srcPhys = map[x.src]
  /\ Open(x) => table2[x.branch_ID].shadowMapTable = map2
  /\ \A j \in 1..n : Open(w[j]) => table2[w[j].branch_ID] = table[w[j].branch_ID]

\* Its source is read from the map of those before it, and the map takes its destination.
LEMMA MapsRename ==
  ASSUME NEW map, NEW A, NEW w, NEW n \in Nat, NEW table, MapsOf(map, A, w, n, table),
         NEW x, NEW map2, NEW w2, NEW table2, MapsTaken(map, w, n, table, x, map2, w2, table2)
  PROVE  MapsOf(map2, A, w2, n + 1, table2)
<1>1. MapsOf(map, A, w2, n, table2)
  <2>1. n \in 0..n /\ map = MapOf(A, w, n)
    BY DEF MapsOf
  <2>2. KeepsMaps(n, w, w2, table, table2)
    BY DEF MapsTaken, KeepsMaps
  <2> QED BY <2>1, <2>2, MapsKept
<1>2. PICK m \in Nat \ {0} : m = n + 1 /\ m - 1 = n
  OBVIOUS
<1>3. w2[m].dest \in LogReg \cup {NoReg} /\ w2[m] = x
  BY <1>2 DEF MapsTaken
<1>4. MapOf(A, w2, m) = IF w2[m].dest = NoReg THEN MapOf(A, w2, m - 1)
                        ELSE [MapOf(A, w2, m - 1) EXCEPT ![w2[m].dest] = w2[m].destPhys]
  BY <1>3, MapOfNext
<1>5. map = MapOf(A, w2, n)
  BY <1>1 DEF MapsOf
<1>6. map2 = MapOf(A, w2, m)
  BY <1>2, <1>3, <1>4, <1>5 DEF MapsTaken
<1>7. ASSUME NEW j \in 1..m
      PROVE  /\ Open(w2[j]) => table2[w2[j].branch_ID].shadowMapTable = MapOf(A, w2, j)
             /\ w2[j].srcPhys = MapOf(A, w2, j - 1)[w2[j].src]
  <2>1. CASE j \in 1..n
    BY <1>1, <2>1 DEF MapsOf
  <2>2. CASE j = m
    BY <1>2, <1>3, <1>5, <1>6, <2>2 DEF MapsTaken
  <2>3. j \in 1..n \/ j = m
    BY <1>2
  <2> QED BY <2>1, <2>2, <2>3
<1> QED BY <1>2, <1>6, <1>7 DEF MapsOf

\* Every step keeps the maps those of program order.
LEMMA MapsStep ==
  ASSUME SizesAgree, Renamed, [Next]_vars, TypeOK'
  PROVE  MapsFollowProgramOrder'
<1>0. TypeOK /\ DispatchedFirst /\ BranchesNamed /\ EnoughForBundle /\ MapsFollowProgramOrder
  BY DEF Renamed
<1>a. PICK n \in Nat, A \in [LogReg -> PhysReg] : n = Len(inflight) /\ A = AMT
  BY <1>0, InflightType DEF TypeOK
<1>b. PICK w, table, map : w = inflight /\ table = branchCheckpointTable /\ map = RMT
  OBVIOUS
<1>1. n = Len(inflight) /\ w = inflight /\ table = branchCheckpointTable /\ map = RMT /\ A = AMT
  BY <1>a, <1>b
<1>2. MapsOf(map, A, w, n, table)
  BY <1>0, <1>1, MapsAlways
<1> DEFINE After == MapsOf(RMT', AMT', inflight', Len(inflight'), branchCheckpointTable')
<1> SUFFICES After
  BY MapsAlways
<1>3. CASE Next
  <2>1. CASE \E bundle \in Bundles : Rename2(bundle)
    BY <1>1, <1>2, <2>1 DEF Rename2
  <2>2. CASE RenameNext
    <3>1. PICK instr, phys, id, x : RenamedAs(instr, phys, id, x)
      BY <1>0, <2>2, RenameNextResult
    <3>2. PICK w2, table2, map2 :
            w2 = inflight' /\ table2 = branchCheckpointTable' /\ map2 = RMT'
      OBVIOUS
    <3>3. /\ x.src = instr.src /\ x.srcPhys = map[instr.src]
          /\ x.dest = instr.dest /\ (instr.dest # NoReg => x.destPhys = phys)
          /\ instr.dest \in LogReg \cup {NoReg}
          /\ x.branch_ID = id /\ (Open(x) <=> Forks(instr))
          /\ w2 = Append(w, x) /\ w \in Seq(Payload) /\ x \in Payload
          /\ map2 = IF instr.dest # NoReg THEN [map EXCEPT ![instr.dest] = phys] ELSE map
          /\ UNCHANGED AMT
      BY <1>0, <1>1, <3>1, <3>2 DEF RenamedAs, TypeOK, Instruction
    <3>4. Len(w2) = n + 1 /\ w2[n + 1] = x /\ \A j \in 1..n : w2[j] = w[j]
      BY <1>1, <3>3
    <3>5. /\ Forks(instr) => /\ id \notin DOMAIN table
                             /\ table2[id].shadowMapTable = map2
                             /\ \A b \in DOMAIN table : table2[b] = table[b]
          /\ ~Forks(instr) => table2 = table
      <4>1. CASE Forks(instr)
        <5>1. id \in CheckpointID \ GBM
          BY <3>1, <4>1 DEF RenamedAs
        <5>2. id \notin DOMAIN table
          BY <1>0, <1>1, <5>1 DEF TypeOK
        <5>3. PICK v : v = [freeListHead |-> freeList_Head', gbm |-> GBM, shadowMapTable |-> RMT']
                       /\ table2 = [b \in DOMAIN table \cup {id} |-> IF b = id THEN v ELSE table[b]]
          <6>1. PICK v : v = [freeListHead |-> freeList_Head', gbm |-> GBM, shadowMapTable |-> RMT']
            OBVIOUS
          <6>2. branchCheckpointTable' =
                  [b \in DOMAIN branchCheckpointTable \cup {id} |->
                    IF b = id
                    THEN [freeListHead |-> freeList_Head', gbm |-> GBM, shadowMapTable |-> RMT']
                    ELSE branchCheckpointTable[b]]
            BY <3>1, <4>1, Zenon DEF RenamedAs
          <6> QED BY <1>1, <3>2, <6>1, <6>2
        <5>4. table2[id] = v /\ v.shadowMapTable = map2
          BY <3>2, <5>3
        <5> QED BY <4>1, <5>2, <5>3, <5>4
      <4>2. CASE ~Forks(instr)
        BY <1>1, <3>1, <3>2, <4>2 DEF RenamedAs
      <4> QED BY <4>1, <4>2
    <3>6. \A j \in 1..n : Open(w[j]) => w[j].branch_ID \in DOMAIN table
      <4>1. BranchesOf(w, n, table, GBM)
        BY <1>0, <1>1, BranchesNamedAlways
      <4> QED BY <4>1, InIDs DEF BranchesOf
    <3>7. \A j \in 1..n : Open(w[j]) => table2[w[j].branch_ID] = table[w[j].branch_ID]
      BY <3>5, <3>6
    <3>8. Open(x) => table2[x.branch_ID].shadowMapTable = map2
      BY <3>3, <3>5
    <3>9. map2 = IF x.dest # NoReg THEN [map EXCEPT ![x.dest] = x.destPhys] ELSE map
      BY <3>3
    <3>10. MapsTaken(map, w, n, table, x, map2, w2, table2)
      BY <3>3, <3>4, <3>7, <3>8, <3>9 DEF MapsTaken
    <3>11. MapsOf(map2, A, w2, n + 1, table2)
      BY <1>2, <3>10, MapsRename
    <3> QED BY <1>1, <3>2, <3>3, <3>4, <3>11
  <2>3. CASE Dispatch
    <3>1. /\ Len(inflight') = n
          /\ \A j \in 1..n : /\ inflight'[j].src = w[j].src /\ inflight'[j].srcPhys = w[j].srcPhys
                             /\ inflight'[j].dest = w[j].dest
                             /\ inflight'[j].destPhys = w[j].destPhys
                             /\ inflight'[j].branch_ID = w[j].branch_ID
                             /\ Open(inflight'[j]) <=> Open(w[j])
      BY <1>0, <1>1, <2>3, DispatchShape
    <3>2. n \in 0..n /\ map = MapOf(A, w, n)
      BY <1>2 DEF MapsOf
    <3>3. MapsOf(map, A, inflight', n, table)
      <4>1. KeepsMaps(n, w, inflight', table, table)
        BY <3>1 DEF KeepsMaps
      <4> QED BY <1>2, <3>2, <4>1, MapsKept
    <3>4. branchCheckpointTable' = table /\ RMT' = map /\ AMT' = A
      BY <1>1, <2>3 DEF Dispatch
    <3> QED BY <3>1, <3>3, <3>4
  <2>4. CASE \E i \in 1..Len(inflight) : ResolveCorrect(i)
    <3>1. PICK i \in 1..Len(inflight) : ResolveCorrect(i)
      BY <2>4
    <3>2. /\ Len(inflight') = n
          /\ \A j \in 1..n : /\ inflight'[j].src = w[j].src /\ inflight'[j].srcPhys = w[j].srcPhys
                             /\ inflight'[j].dest = w[j].dest
                             /\ inflight'[j].destPhys = w[j].destPhys
                             /\ inflight'[j].branch_ID = w[j].branch_ID
                             /\ Open(inflight'[j]) <=> Open(w[j]) /\ j # i
      BY <1>0, <1>1, <3>1, ResolveCorrectShape
    <3>3. PICK table2 : table2 = branchCheckpointTable'
      OBVIOUS
    <3>4. \A j \in 1..n : j # i /\ Open(w[j]) =>
            table2[w[j].branch_ID].shadowMapTable = table[w[j].branch_ID].shadowMapTable
      BY <1>0, <1>1, <3>1, <3>3, KeptCheckpoints
    <3>5. n \in 0..n /\ map = MapOf(A, w, n)
      BY <1>2 DEF MapsOf
    <3>6. MapsOf(map, A, inflight', n, table2)
      <4>1. KeepsMaps(n, w, inflight', table, table2)
        BY <3>2, <3>4 DEF KeepsMaps
      <4> QED BY <1>2, <3>5, <4>1, MapsKept
    <3>7. RMT' = map /\ AMT' = A
      BY <1>1, <3>1 DEF ResolveCorrect
    <3> QED BY <3>2, <3>3, <3>6, <3>7
  <2>5. CASE \E i \in 1..Len(inflight) : Mispredict(i)
    <3>1. PICK i \in 1..n : Mispredict(i)
      BY <1>1, <2>5
    <3>2. /\ Len(inflight') = i
          /\ \A j \in 1..i : /\ inflight'[j].src = w[j].src /\ inflight'[j].srcPhys = w[j].srcPhys
                             /\ inflight'[j].dest = w[j].dest
                             /\ inflight'[j].destPhys = w[j].destPhys
                             /\ inflight'[j].branch_ID = w[j].branch_ID
                             /\ Open(inflight'[j]) <=> Open(w[j]) /\ j # i
      BY <1>0, <1>1, <3>1, MispredictShape
    <3>3. PICK table2, w2, map2 : table2 = branchCheckpointTable' /\ w2 = inflight' /\ map2 = RMT'
      OBVIOUS
    <3>4. \A j \in 1..(i - 1) : Open(w[j]) => table2[w[j].branch_ID] = table[w[j].branch_ID]
      BY <1>0, <1>1, <3>1, <3>3, KeptCheckpoints
    <3>5. Resolvable(i) /\ map2 = table[w[i].branch_ID].shadowMapTable /\ AMT' = A
      BY <1>1, <3>1, <3>3 DEF Mispredict
    <3>6. Open(w[i])
      BY <1>0, <1>1, <3>5, ResolvableOnes
    <3>7. map2 = MapOf(A, w, i) /\ i \in 0..n
      BY <1>2, <3>5, <3>6 DEF MapsOf
    <3>8. \A j \in 1..i : Open(w2[j]) =>
            /\ Open(w[j])
            /\ table2[w2[j].branch_ID].shadowMapTable = table[w[j].branch_ID].shadowMapTable
      <4> SUFFICES ASSUME NEW j \in 1..i, Open(w2[j])
                   PROVE  /\ Open(w[j])
                          /\ table2[w2[j].branch_ID].shadowMapTable
                               = table[w[j].branch_ID].shadowMapTable
        OBVIOUS
      <4>1. Open(w[j]) /\ j # i /\ w2[j].branch_ID = w[j].branch_ID
        BY <3>2, <3>3
      <4>2. j \in 1..(i - 1)
        BY <4>1
      <4> QED BY <3>4, <4>1, <4>2
    <3>9. \A j \in 1..i : /\ w2[j].src = w[j].src /\ w2[j].srcPhys = w[j].srcPhys
                          /\ w2[j].dest = w[j].dest /\ w2[j].destPhys = w[j].destPhys
      BY <3>2, <3>3
    <3>10. MapsOf(map2, A, w2, i, table2)
      <4>1. KeepsMaps(i, w, w2, table, table2)
        BY <3>8, <3>9 DEF KeepsMaps
      <4> QED BY <1>2, <3>7, <4>1, MapsKept
    <3> QED BY <3>2, <3>3, <3>5, <3>10
  <2>6. CASE \E i \in 1..Len(inflight) : Commit(i)
    <3>1. PICK i \in 1..Len(inflight) : Commit(i)
      BY <2>6
    <3>2. /\ i = 1 /\ Len(inflight') = n - 1
          /\ \A j \in 1..(n - 1) : inflight'[j] = w[j + 1]
      BY <1>0, <1>1, <3>1, CommitShape
    <3>3. n \in Nat \ {0} /\ w[1].dest \in LogReg \cup {NoReg}
      BY <1>0, <1>1, <3>1, <3>2, InflightType
    <3>4. CommitRegisters(w[1]) /\ branchCheckpointTable' = table /\ RMT' = map
      BY <1>1, <3>1, <3>2 DEF Commit
    <3>5. AMT' = Committed(A, w[1])
      BY <1>1, <3>4 DEF CommitRegisters, Committed
    <3>6. MapsOf(map, Committed(A, w[1]), inflight', n - 1, table)
      BY <1>2, <3>2, <3>3, MapsMoveUp
    <3> QED BY <3>2, <3>4, <3>5, <3>6
  <2>7. CASE Squashed /\ RENAME2 = <<>>
    <3>1. inflight' = <<>> /\ RMT' = AMT'
      BY <2>7 DEF Squashed, SquashRenamer
    <3>2. PICK A2 \in [LogReg -> PhysReg] : A2 = AMT'
      BY DEF TypeOK
    <3>3. Len(<<>>) = 0 /\ 1..0 = {}
      OBVIOUS
    <3>4. MapOf(A2, <<>>, 0) = A2
      BY MapOfNone
    <3>5. \A t2 : MapsOf(A2, A2, <<>>, 0, t2)
      BY <3>3, <3>4 DEF MapsOf
    <3> QED BY <3>1, <3>2, <3>3, <3>5
  <2> QED BY <1>0, <1>3, <2>1, <2>2, <2>3, <2>4, <2>5, <2>6, <2>7, Steps
<1>4. CASE UNCHANGED vars
  BY <1>1, <1>2, <1>4 DEF vars
<1> QED BY <1>3, <1>4

-----------------------------------------------------------------------------
(* The invariant *)

\* In the initial state every register is architectural or free, and nothing is in flight.
LEMMA InitiallyRenamed ==
  ASSUME SizesAgree, Init
  PROVE  Renamed
<1>1. /\ logicalRegSize \in Nat \ {0} /\ PRFsize \in Nat /\ freeListSize \in Nat \ {0}
      /\ PRFsize = logicalRegSize + freeListSize /\ activeListSize \in Nat \ {0}
  BY Sizes
<1>2. Origin \in Pointer(freeListSize) /\ Origin \in Pointer(activeListSize)
  BY <1>1, OriginType
<1>3. freeList_Tail \in Pointer(freeListSize)
  BY <1>1 DEF Init, Pointer
<1>4. Identity \in [LogReg -> PhysReg]
  BY <1>1 DEF Identity, LogReg, PhysReg
<1>5. freeListEntry \in [0..(freeListSize - 1) -> PhysReg]
  BY <1>1 DEF Init, PhysReg
<1>6. Len(inflight) = 0 /\ 1..0 = {} /\ inflight = <<>> /\ inflight \in Seq(Payload)
      /\ RENAME2 = <<>> /\ RENAME2 \in Seq(Instruction)
  BY DEF Init
<1>7. TypeOK
  BY <1>2, <1>3, <1>4, <1>5, <1>6 DEF Init, TypeOK, NoCheckpoints
<1>8. DispatchedFirst
  <2>1. /\ Ordered(activeList_Head, activeList_Tail)
        /\ Distance(activeList_Head, activeList_Tail, activeListSize) = 0
    BY <1>1, <1>2, DistanceZero DEF Init
  <2> QED BY <1>6, <2>1 DEF DispatchedFirst, Dispatched
<1>9. FreeListInOrder
  <2>1. Flipped(freeList_Tail) = freeList_Head
    BY DEF Init, Flipped, Origin
  <2>2. FreeListOf(inflight, 0, branchCheckpointTable, freeListEntry, freeList_Head, freeList_Tail)
    BY <1>3, <2>1, FreeListNone
  <2> QED BY <1>6, <1>7, <2>2, FreeListAlways
<1>10. EveryRegisterHeld
  <2>1. \A s \in 0..(freeListSize - 1) : freeListEntry[s] = s + logicalRegSize
    BY DEF Init
  <2>2. \A l \in LogReg : AMT[l] = l
    BY DEF Init, Identity
  <2>3. ASSUME NEW r \in PhysReg PROVE r \in HeldBy(freeListEntry, AMT)
    <3>1. r \in LogReg \/ r - logicalRegSize \in 0..(freeListSize - 1)
      BY <1>1 DEF LogReg, PhysReg
    <3>2. CASE r \in LogReg
      BY <2>2, <3>2 DEF HeldBy
    <3>3. CASE r - logicalRegSize \in 0..(freeListSize - 1)
      <4>1. PICK s \in 0..(freeListSize - 1) : s = r - logicalRegSize
        BY <3>3
      <4>2. freeListEntry[s] = r
        BY <1>1, <2>1, <4>1 DEF PhysReg
      <4> QED BY <4>2 DEF HeldBy
    <3> QED BY <3>1, <3>2, <3>3
  <2>4. HeldBy(freeListEntry, AMT) \subseteq PhysReg
    BY <1>7 DEF HeldBy, TypeOK
  <2> QED BY <2>3, <2>4, HeldAlways
<1>11. EnoughForBundle
  BY <1>6, <1>7, <1>9, NothingLeftIs
<1>12. BranchesNamed
  <2>1. IDsUpTo(inflight, 0) = {}
    BY <1>6 DEF IDsUpTo
  <2>2. BranchesOf(inflight, 0, branchCheckpointTable, GBM)
    BY <1>6, <2>1 DEF BranchesOf, Init, NoCheckpoints, Named
  <2> QED BY <1>6, <2>2, BranchesNamedAlways
<1>13. MapsFollowProgramOrder
  <2>1. MapOf(AMT, inflight, 0) = AMT
    BY <1>4, MapOfNone DEF Init
  <2>2. MapsOf(RMT, AMT, inflight, 0, branchCheckpointTable)
    BY <1>6, <2>1 DEF MapsOf, Init
  <2> QED BY <1>6, <2>2, MapsAlways
<1> QED BY <1>7, <1>8, <1>9, <1>10, <1>11, <1>12, <1>13 DEF Renamed

\* The inductive invariant.
LEMMA RenamedInvariant ==
  ASSUME SizesAgree
  PROVE  Spec => []Renamed
<1>1. Init => Renamed
  BY InitiallyRenamed
<1>2. Renamed /\ [Next]_vars => Renamed'
  <2> SUFFICES ASSUME Renamed, [Next]_vars PROVE Renamed'
    OBVIOUS
  <2>1. TypeOK'
    BY TypeStep
  <2>2. DispatchedFirst' /\ FreeListInOrder'
    BY <2>1, ActiveListStep, FreeListStep
  <2>3. EveryRegisterHeld' /\ EnoughForBundle'
    BY <2>1, <2>2, HeldStep, EnoughStep
  <2>4. BranchesNamed' /\ MapsFollowProgramOrder'
    BY <2>1, BranchesStep, MapsStep
  <2> QED BY <2>1, <2>2, <2>3, <2>4 DEF Renamed
<1> QED BY <1>1, <1>2, PTL DEF Spec

-----------------------------------------------------------------------------
(* What follows from it *)

\* The free list's entries are free, or hold a register of an instruction in flight.
LEMMA RenamedPartitions ==
  ASSUME SizesAgree, Renamed
  PROVE  RegistersPartitioned
<1>0. TypeOK /\ FreeListInOrder /\ EveryRegisterHeld
  BY DEF Renamed
<1>1. PICK n \in Nat, w \in {inflight} : n = Len(inflight) /\ w = inflight
  BY <1>0, InflightType
<1>2. PICK W \in SUBSET (1..n) : W = WithDest /\ W = Writers(w, n)
  BY <1>1, WritersType, WithDestIs
<1>3. PICK c \in 0..freeListSize : c = Cardinality(W)
      /\ Distance(freeList_Head, freeList_Tail, freeListSize) = freeListSize - c
  BY <1>0, <1>2, FreeCount
<1>4. PICK t \in Pointer(freeListSize) : t = freeList_Tail
  BY <1>0 DEF TypeOK
<1>5. /\ freeList_Head = Behind(t, c)
      /\ \A i \in 1..n : w[i].dest # NoReg =>
           w[i].destPhys = freeListEntry[Behind(t, Count(W, i)).idx]
  BY <1>0, <1>1, <1>2, <1>3, <1>4, FreeListAlways DEF FreeListOf
<1>6. \A i \in W : w[i].destPhys = freeListEntry[Behind(t, Count(W, i)).idx]
  BY <1>2, <1>5 DEF Writers
<1>7. \A i \in W : Behind(t, Count(W, i)).idx \in 0..(freeListSize - 1)
  <2> SUFFICES ASSUME NEW i \in W PROVE Behind(t, Count(W, i)).idx \in 0..(freeListSize - 1)
    OBVIOUS
  <2>1. i \in Int
    OBVIOUS
  <2>2. Count(W, i) \in 0..c
    BY <1>3, <2>1, CountType
  <2>3. Count(W, i) \in 0..freeListSize
    BY <1>3, <2>2, Sizes
  <2>4. Behind(t, Count(W, i)) \in Pointer(freeListSize)
    BY <2>3, BehindType
  <2> QED BY <2>4 DEF Pointer
<1>8. Slots(freeList_Head, freeList_Tail, freeListSize) \subseteq 0..(freeListSize - 1)
  BY <1>0, Sizes, SlotsType DEF TypeOK
<1>9. InflightRegisters = {w[i].destPhys : i \in W}
  BY <1>1, <1>2 DEF InflightRegisters
<1>10. ASSUME NEW s \in 0..(freeListSize - 1)
       PROVE  freeListEntry[s] \in FreeRegisters \cup InflightRegisters
  <2>1. \/ s \in Slots(freeList_Head, freeList_Tail, freeListSize)
        \/ \E m \in 0..(c - 1) : Behind(t, m).idx = s
    BY <1>4, <1>5, BehindDistance
  <2>2. CASE s \in Slots(freeList_Head, freeList_Tail, freeListSize)
    BY <2>2 DEF FreeRegisters
  <2>3. CASE \E m \in 0..(c - 1) : Behind(t, m).idx = s
    <3>1. PICK m \in 0..(Cardinality(W) - 1) : Behind(t, m).idx = s
      BY <1>3, <2>3
    <3>2. PICK i \in W : Count(W, i) = m
      BY CountOnto
    <3>3. w[i].destPhys = freeListEntry[s]
      BY <1>6, <3>1, <3>2
    <3> QED BY <1>9, <3>3
  <2> QED BY <2>1, <2>2, <2>3
<1>11. FreeRegisters \cup InflightRegisters = {freeListEntry[s] : s \in 0..(freeListSize - 1)}
  <2>1. \A r \in FreeRegisters : \E s \in 0..(freeListSize - 1) : r = freeListEntry[s]
    BY <1>8 DEF FreeRegisters
  <2>2. \A r \in InflightRegisters : \E s \in 0..(freeListSize - 1) : r = freeListEntry[s]
    BY <1>6, <1>7, <1>9
  <2> QED BY <1>10, <2>1, <2>2
<1>12. FreeRegisters \cup InflightRegisters \cup ArchitecturalRegisters = PhysReg
  BY <1>0, <1>11 DEF EveryRegisterHeld
<1>13. Distance(freeList_Head, freeList_Tail, freeListSize) + Cardinality(WithDest) + logicalRegSize
         = PRFsize
  BY <1>2, <1>3, Sizes
<1> QED BY <1>12, <1>13 DEF RegistersPartitioned

\* The IDs are as many as the branches they name.
LEMMA RenamedNames ==
  ASSUME SizesAgree, Renamed
  PROVE  MasksNameOlderBranches
<1>0. TypeOK /\ BranchesNamed
  BY DEF Renamed
<1>1. PICK n \in Nat, U \in {Unresolved(Len(inflight))} : n = Len(inflight) /\ U = Unresolved(n) /\ U \in SUBSET (1..n)
  BY <1>0, InflightType, OpenOnes
<1>2. IsFiniteSet(U)
  <2>1. 1 \in Int
    OBVIOUS
  <2> QED BY <1>1, <2>1, CountType
<1>3. PICK B : B = BranchIDs(n)
  OBVIOUS
<1>4. Cardinality(B) = Cardinality(U)
  <2> DEFINE f == [i \in U |-> inflight[i].branch_ID]
  <2>1. f \in [U -> B] /\ \A b \in B : \E i \in U : f[i] = b
    BY <1>1, <1>3 DEF BranchIDs
  <2>2. \A i, j \in U : f[i] = f[j] => i = j
    BY <1>0, <1>1 DEF BranchesNamed
  <2> HIDE DEF f
  <2>3. f \in Bijection(U, B)
    BY <2>1, <2>2 DEF Bijection, Injection, Surjection, IsInjective
  <2>4. ExistsBijection(U, B)
    BY <2>3 DEF ExistsBijection
  <2> QED BY <1>2, <2>4, FS_Bijection
<1>5. \A i \in 1..n : i \in Unresolved(i) => i \in Unresolved(n)
  BY <1>1, OpenOnes
<1> QED BY <1>0, <1>1, <1>3, <1>4, <1>5 DEF BranchesNamed, MasksNameOlderBranches

\* The instructions that are not in the active list are the youngest.
LEMMA RenamedActiveList ==
  ASSUME SizesAgree, Renamed
  PROVE  ActiveListInProgramOrder
<1>0. TypeOK /\ DispatchedFirst
  BY DEF Renamed
<1>1. PICK D \in Nat, n \in Nat : D = Dispatched /\ n = Len(inflight) /\ D <= n
      /\ Cardinality(Undispatched) = n - D
  <2>1. Dispatched \in 0..activeListSize /\ Dispatched <= Len(inflight)
        /\ Cardinality(Undispatched) = Len(inflight) - Dispatched
    BY <1>0, DispatchedOnes
  <2>2. Dispatched \in Nat /\ Len(inflight) \in Nat
    BY <1>0, <2>1, InflightType, Sizes
  <2> QED BY <2>1, <2>2
<1>2. Len(inflight) - Cardinality(Undispatched) = D
  BY <1>1
<1>3. \A i \in 1..D : inflight[i].AL_index = (activeList_Head.idx + i - 1) % activeListSize
  BY <1>0, <1>1 DEF DispatchedFirst
<1> QED BY <1>0, <1>1, <1>2, <1>3 DEF ActiveListInProgramOrder, DispatchedFirst, Dispatched

\* The types of the renamer's tables, pointers, masks and checkpoints: for sizes that agree, no
\* rollback, squash or commit takes an index or a branch ID outside its table.
THEOREM TypeCorrect ==
  ASSUME SizesAgree
  PROVE  Spec => []TypeOK
<1>1. Renamed => TypeOK
  BY DEF Renamed
<1> QED BY <1>1, RenamedInvariant, PTL

\* For register files, active lists and numbers of checkpoints of every size that agree, no
\* physical register is lost or held twice: rolling the free list's head back to a checkpoint, or
\* the whole size of the list behind its tail, gives back what the squashed instructions took.
THEOREM RegistersStayPartitioned ==
  ASSUME SizesAgree
  PROVE  Spec => []RegistersPartitioned
<1>1. Renamed => RegistersPartitioned
  BY RenamedPartitions
<1> QED BY <1>1, RenamedInvariant, PTL

\* The rename map, the shadow maps and every renamed source are those of program order, through
\* every order in which branches resolve.
THEOREM MapsStayInOrder ==
  ASSUME SizesAgree
  PROVE  Spec => []MapsFollowProgramOrder
<1>1. Renamed => MapsFollowProgramOrder
  BY DEF Renamed
<1> QED BY <1>1, RenamedInvariant, PTL

\* Branch masks, checkpointed masks and the GBM name exactly the older unresolved branches: a
\* misprediction squashes the younger instructions and no other.
THEOREM MasksNameBranches ==
  ASSUME SizesAgree
  PROVE  Spec => []MasksNameOlderBranches
<1>1. Renamed => MasksNameOlderBranches
  BY RenamedNames
<1> QED BY <1>1, RenamedInvariant, PTL

\* The active list holds the dispatched instructions in program order, also behind the tail that
\* a misprediction infers from the branch's entry and the head's phase.
THEOREM ActiveListInOrder ==
  ASSUME SizesAgree
  PROVE  Spec => []ActiveListInProgramOrder
<1>1. Renamed => ActiveListInProgramOrder
  BY RenamedActiveList
<1> QED BY <1>1, RenamedInvariant, PTL
=============================================================================
