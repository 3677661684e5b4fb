------------------------ MODULE LoadStoreUnit_proof ------------------------
(***************************************************************************)
(* Proofs about LoadStoreUnit: its type invariant, that the two queues     *)
(* hold the loads and the stores in flight in program order, and that      *)
(* loads that retire have read the right values.                           *)
(***************************************************************************)
EXTENDS LoadStoreUnit, PhaseQueue_proof, SequenceTheorems

-----------------------------------------------------------------------------
(* Lemmas about the operators the actions are built from *)

\* restore() recomputes the number of entries, and marks those valid.
LEMMA LengthOfQueue ==
  ASSUME NEW N \in Nat \ {0}, NEW h \in Pointer(N), NEW k \in 0..N
  PROVE  /\ Length(h, AdvanceBy(h, k, N), N) = k
         /\ Survivors(h, AdvanceBy(h, k, N), N) = Slots(h, AdvanceBy(h, k, N), N)
<1> DEFINE t == AdvanceBy(h, k, N)
<1>1. /\ h.idx \in 0..(N - 1) /\ h.phase \in {0, 1}
      /\ t.idx = IF h.idx + k < N THEN h.idx + k ELSE h.idx + k - N
      /\ t.phase = IF h.idx + k < N THEN h.phase ELSE 1 - h.phase
  BY AdvanceByIsOnward DEF Pointer, Onward
<1> HIDE DEF t
<1>2. (N + t.idx - h.idx) % N = IF k = N THEN 0 ELSE k
  <2>1. PICK x \in 0..(2 * N - 1) : x = N + t.idx - h.idx
    BY <1>1
  <2>2. x % N = IF x < N THEN x ELSE x - N
    BY ModOnce
  <2>3. x = IF h.idx + k < N THEN N + k ELSE k
    BY <1>1, <2>1
  <2>4. x % N = IF k = N THEN 0 ELSE k
    BY <1>1, <2>2, <2>3
  <2> QED BY <2>1, <2>4
<1>3. k = 0 => t.phase = h.phase
  BY <1>1
<1>4. k = N => t.phase # h.phase
  BY <1>1
<1>5. Length(h, t, N) = k
  <2>1. CASE k = N
    BY <1>2, <1>4, <2>1 DEF Length
  <2>2. CASE k # N
    BY <1>2, <1>3, <2>2 DEF Length
  <2> QED BY <2>1, <2>2
<1>6. \A m \in 0..(k - 1) : (h.idx + m) % N = AdvanceBy(h, m, N).idx
  <2> SUFFICES ASSUME NEW m \in 0..(k - 1)
               PROVE  (h.idx + m) % N = AdvanceBy(h, m, N).idx
    OBVIOUS
  <2>1. PICK x \in 0..(2 * N - 1) : x = h.idx + m
    BY <1>1
  <2>2. x % N = IF x < N THEN x ELSE x - N
    BY ModOnce
  <2>3. m \in 0..N
    OBVIOUS
  <2>4. AdvanceBy(h, m, N).idx = IF h.idx + m < N THEN h.idx + m ELSE h.idx + m - N
    BY <2>3, AdvanceByIsOnward DEF Onward
  <2> QED BY <1>1, <2>1, <2>2, <2>4
<1>7. Slots(h, t, N) = {AdvanceBy(h, m, N).idx : m \in 0..(k - 1)}
  BY AdvanceByDistance DEF t
<1>8. Survivors(h, t, N) = {(h.idx + m) % N : m \in 0..(k - 1)}
  BY <1>5 DEF Survivors
<1> QED BY <1>5, <1>6, <1>7, <1>8 DEF t

\* An index, or a length, is in its range.
LEMMA LengthType ==
  ASSUME NEW N \in Nat \ {0}, NEW h \in Pointer(N), NEW t \in Pointer(N)
  PROVE  Length(h, t, N) \in 0..N
<1>1. N + t.idx - h.idx \in 0..(2 * N - 1)
  BY DEF Pointer
<1>2. (N + t.idx - h.idx) % N \in 0..(N - 1)
  BY <1>1, ModOnce
<1> QED BY <1>2 DEF Length

\* Of some slots of the SQ there is a youngest.
LEMMA YoungestIsOne ==
  ASSUME sq_head \in Pointer(SQsize), NEW S \in SUBSET (0..(SQsize - 1)), S # {}
  PROVE  Youngest(S) \in S /\ \A t \in S : StoreAge(t) <= StoreAge(Youngest(S))
<1>1. \A t \in S : StoreAge(t) \in 0..(SQsize - 1)
  <2> SUFFICES ASSUME NEW t \in S PROVE StoreAge(t) \in 0..(SQsize - 1)
    OBVIOUS
  <2>1. t + SQsize - sq_head.idx \in 0..(2 * SQsize - 1) /\ SQsize \in Nat \ {0}
    <3>1. t \in 0..(SQsize - 1)
      OBVIOUS
    <3> QED BY <3>1, LoadStoreUnitAssumption DEF Pointer
  <2> QED BY <2>1, ModOnce DEF StoreAge
<1> DEFINE T == {SQsize - StoreAge(t) : t \in S}
<1>2. T \subseteq Nat /\ T # {}
  <2> SUFFICES ASSUME NEW t \in S PROVE SQsize - StoreAge(t) \in Nat
    OBVIOUS
  <2>1. StoreAge(t) \in 0..(SQsize - 1) /\ SQsize \in Nat
    BY <1>1, LoadStoreUnitAssumption
  <2> QED BY <2>1
<1>3. PICK x \in T : \A y \in T : x <= y
  <2> HIDE DEF T
  <2> QED BY <1>2, LeastNat
<1>4. PICK s \in S : x = SQsize - StoreAge(s)
  BY <1>3
<1>5. \A t \in S : StoreAge(t) <= StoreAge(s)
  <2> SUFFICES ASSUME NEW t \in S PROVE StoreAge(t) <= StoreAge(s)
    OBVIOUS
  <2>1. SQsize - StoreAge(s) <= SQsize - StoreAge(t)
    BY <1>3, <1>4
  <2> QED BY <1>1, <2>1, LoadStoreUnitAssumption
<1> QED BY <1>5 DEF Youngest

\* The slots a search walks are slots of the queue.
LEMMA DecidingType ==
  ASSUME TypeOK, NEW load \in LoadEntry
  PROVE  Deciding(load) \in SUBSET (0..(SQsize - 1))
<1>1. Slots(sq_head, load.sq, SQsize) \subseteq 0..(SQsize - 1)
  BY SlotsType, LoadStoreUnitAssumption DEF TypeOK, LoadEntry
<1> QED BY <1>1 DEF Deciding

\* A load that does not stall and does not read memory has found the youngest store it may read,
\* and that has a value.
LEMMA OutcomeForward ==
  ASSUME TypeOK, NEW load \in LoadEntry, Outcome(load) = "forward"
  PROVE  LET y == Youngest(Deciding(load))
         IN  /\ y \in Deciding(load) /\ y \in 0..(SQsize - 1)
             /\ \A s \in Deciding(load) : StoreAge(s) <= StoreAge(y)
             /\ SQ[y].access \in Accesses /\ SQ[y].value \in Value
             /\ SQ[y].access[2] = load.access[2]
<1> DEFINE y == Youngest(Deciding(load))
<1>1. Deciding(load) # {}
  BY DEF Outcome
<1>2. /\ y \in Deciding(load) /\ y \in 0..(SQsize - 1)
      /\ \A s \in Deciding(load) : StoreAge(s) <= StoreAge(y)
  BY <1>1, DecidingType, YoungestIsOne DEF TypeOK
<1>3. /\ SQ[y].access # NoAccess /\ SQ[y].value # NoValue
      /\ SQ[y].access[2] = load.access[2]
  BY <1>1 DEF Outcome
<1>4. SQ[y] \in StoreEntry
  BY <1>2 DEF TypeOK
<1> QED BY <1>2, <1>3, <1>4 DEF StoreEntry

\* What a load gets is a value for each of its bytes.
LEMMA WithValueType ==
  ASSUME TypeOK, NEW load \in LoadEntry, load.access # NoAccess, Outcome(load) # "stall"
  PROVE  /\ WithValue(load) \in LoadEntry
         /\ WithValue(load).value \in [BytesOf(load.access) -> Value]
         /\ WithValue(load).value # NoValue
<1>1. load.access \in Accesses
  BY DEF LoadEntry
<1> DEFINE v == [b \in BytesOf(load.access) |->
                   IF Outcome(load) = "forward" THEN SQ[Youngest(Deciding(load))].value ELSE memory[b]]
<1>2. \A b \in BytesOf(load.access) : b \in Byte
  BY <1>1 DEF Byte
<1>3. v \in [BytesOf(load.access) -> Value]
  BY <1>2, OutcomeForward DEF TypeOK
<1>4. v \in LoadedValue
  BY <1>1, <1>3 DEF LoadedValue
<1>5. WithValue(load) = [load EXCEPT !.mdp_stall = FALSE, !.value = v]
  BY DEF WithValue
<1>6. v # NoValue
  BY <1>4, LoadStoreUnitAssumption
<1> HIDE DEF v
<1> QED BY <1>3, <1>4, <1>5, <1>6 DEF LoadEntry

-----------------------------------------------------------------------------
(* The invariant *)

\* What the instructions in flight recorded of the LQ.
lqs == [i \in 1..Len(inflight) |-> inflight[i].lq]
\* The same of the SQ.
sqs == [i \in 1..Len(inflight) |-> inflight[i].sq]

\* QueuesHoldSurvivors, conjunct by conjunct, in the terms of PhaseQueue_proof.
LQPlaced == Placed(lqs, Loads, 1..Len(inflight), lq_head, lq_tail, lq_length, LQsize)
\* The same for the SQ and the stores.
SQPlaced == Placed(sqs, Stores, 1..Len(inflight), sq_head, sq_tail, sq_length, SQsize)

\* An entry of the LQ is valid exactly if a load in flight has it.
LQValid == \A l \in 0..(LQsize - 1) : LQ[l].valid <=> \E i \in Loads : inflight[i].lq.idx = l
\* The same for the SQ and the stores.
SQValid == \A s \in 0..(SQsize - 1) : SQ[s].valid <=> \E i \in Stores : inflight[i].sq.idx = s

\* The SQ tail a load's entry holds is the one the load recorded.
LoadsKnowOlderStores == \A i \in Loads : LQ[inflight[i].lq.idx].sq = inflight[i].sq

\* The inductive form of QueuesHoldSurvivors.
InOrder == LQPlaced /\ SQPlaced /\ LQValid /\ SQValid /\ LoadsKnowOlderStores

\* The instructions in flight.
LEMMA InflightType ==
  ASSUME TypeOK
  PROVE  /\ Len(inflight) \in Nat
         /\ Loads \in SUBSET (1..Len(inflight)) /\ Stores \in SUBSET (1..Len(inflight))
         /\ \A i \in 1..Len(inflight) :
              /\ inflight[i] \in Payload
              /\ inflight[i].lq \in Pointer(LQsize) /\ inflight[i].sq \in Pointer(SQsize)
              /\ inflight[i].lq.idx \in 0..(LQsize - 1) /\ inflight[i].sq.idx \in 0..(SQsize - 1)
              /\ lqs[i] = inflight[i].lq /\ sqs[i] = inflight[i].sq
<1>1. Len(inflight) \in Nat /\ \A i \in 1..Len(inflight) : inflight[i] \in Payload
  BY ElementOfSeq DEF TypeOK
<1>2. \A N, p : p \in Pointer(N) => p.idx \in 0..(N - 1)
  BY DEF Pointer
<1>3. Loads \in SUBSET (1..Len(inflight)) /\ Stores \in SUBSET (1..Len(inflight))
  BY DEF Loads, Stores
<1>4. \A i \in 1..Len(inflight) : lqs[i] = inflight[i].lq /\ sqs[i] = inflight[i].sq
  BY DEF lqs, sqs
<1> QED BY <1>1, <1>2, <1>3, <1>4 DEF Payload

\* The invariant says what QueuesHoldSurvivors says.
LEMMA InOrderIsQueuesHoldSurvivors ==
  ASSUME TypeOK, InOrder
  PROVE  QueuesHoldSurvivors
<1>1. /\ lq_length = Cardinality(Loads) /\ lq_tail = AdvanceBy(lq_head, lq_length, LQsize)
      /\ \A i \in 1..Len(inflight) : lqs[i] = AdvanceBy(lq_head, Count(Loads, i), LQsize)
  BY DEF InOrder, LQPlaced, Placed
<1>2. /\ sq_length = Cardinality(Stores) /\ sq_tail = AdvanceBy(sq_head, sq_length, SQsize)
      /\ \A i \in 1..Len(inflight) : sqs[i] = AdvanceBy(sq_head, Count(Stores, i), SQsize)
  BY DEF InOrder, SQPlaced, Placed
<1>3. \A S, i : Count(S, i) = Cardinality(OlderOf(S, i))
  BY DEF Count, OlderOf
<1>4. {l \in DOMAIN LQ : LQ[l].valid} = {inflight[i].lq.idx : i \in Loads}
  <2>1. DOMAIN LQ = 0..(LQsize - 1) /\ \A i \in Loads : inflight[i].lq.idx \in 0..(LQsize - 1)
    BY InflightType DEF TypeOK
  <2> QED BY <2>1 DEF InOrder, LQValid
<1>5. {s \in DOMAIN SQ : SQ[s].valid} = {inflight[i].sq.idx : i \in Stores}
  <2>1. DOMAIN SQ = 0..(SQsize - 1) /\ \A i \in Stores : inflight[i].sq.idx \in 0..(SQsize - 1)
    BY InflightType DEF TypeOK
  <2> QED BY <2>1 DEF InOrder, SQValid
<1>6. \A i \in 1..Len(inflight) :
        /\ inflight[i].lq = AdvanceBy(lq_head, Cardinality(OlderOf(Loads, i)), LQsize)
        /\ inflight[i].sq = AdvanceBy(sq_head, Cardinality(OlderOf(Stores, i)), SQsize)
  BY <1>1, <1>2, <1>3, InflightType
<1> QED BY <1>1, <1>2, <1>4, <1>5, <1>6 DEF InOrder, LoadsKnowOlderStores, QueuesHoldSurvivors

\* The entries of the instructions in flight are their own, and their pointers are valid.
LEMMA OwnEntries ==
  ASSUME TypeOK, InOrder
  PROVE  /\ \A i, j \in Loads : inflight[i].lq.idx = inflight[j].lq.idx => i = j
         /\ \A i, j \in Stores : inflight[i].sq.idx = inflight[j].sq.idx => i = j
         /\ lq_length < LQsize => \A i \in Loads : inflight[i].lq.idx # lq_tail.idx
         /\ sq_length < SQsize => \A i \in Stores : inflight[i].sq.idx # sq_tail.idx
         /\ 1 \in Loads => inflight[1].lq = lq_head /\ lq_length > 0
         /\ 1 \in Stores => inflight[1].sq = sq_head /\ sq_length > 0
<1> DEFINE n == Len(inflight)
           P == 1..n
<1>1. n \in Nat /\ P \in SUBSET (1..n) /\ Loads \in SUBSET P /\ Stores \in SUBSET P
  BY InflightType
<1>0. \A i \in P : lqs[i] = inflight[i].lq /\ sqs[i] = inflight[i].sq
  BY InflightType
<1>2. /\ LQsize \in Nat \ {0} /\ lq_head \in Pointer(LQsize)
      /\ Placed(lqs, Loads, P, lq_head, lq_tail, lq_length, LQsize)
      /\ SQsize \in Nat \ {0} /\ sq_head \in Pointer(SQsize)
      /\ Placed(sqs, Stores, P, sq_head, sq_tail, sq_length, SQsize)
  BY LoadStoreUnitAssumption DEF TypeOK, InOrder, LQPlaced, SQPlaced
<1> HIDE DEF n, P
<1>3. /\ lq_tail \in Pointer(LQsize) /\ Ordered(lq_head, lq_tail) /\ Distance(lq_head, lq_tail, LQsize) = lq_length
      /\ \A i \in P : lqs[i] \in Pointer(LQsize)
      /\ \A i, j \in Loads : lqs[i].idx = lqs[j].idx => i = j
      /\ lq_length < LQsize => \A i \in Loads : lqs[i].idx # lq_tail.idx
      /\ 1 \in P => lqs[1] = lq_head
      /\ 1 \in Loads => lq_length > 0
  BY <1>1, <1>2, PlacedEntries, Zenon
<1>4. /\ sq_tail \in Pointer(SQsize) /\ Ordered(sq_head, sq_tail) /\ Distance(sq_head, sq_tail, SQsize) = sq_length
      /\ \A i \in P : sqs[i] \in Pointer(SQsize)
      /\ \A i, j \in Stores : sqs[i].idx = sqs[j].idx => i = j
      /\ sq_length < SQsize => \A i \in Stores : sqs[i].idx # sq_tail.idx
      /\ 1 \in P => sqs[1] = sq_head
      /\ 1 \in Stores => sq_length > 0
  BY <1>1, <1>2, PlacedEntries, Zenon
<1>5. \A i \in Loads : lqs[i] = inflight[i].lq
  BY <1>0, <1>1
<1>6. \A i \in Stores : sqs[i] = inflight[i].sq
  BY <1>0, <1>1
<1> QED BY <1>1, <1>3, <1>4, <1>5, <1>6

-----------------------------------------------------------------------------
(* Execution and resolution move no entry. *)

\* What is neither dispatched nor retired nor rolled back keeps the invariant, whatever it does
\* to addresses, values and flags.
LEMMA Unmoved ==
  ASSUME TypeOK, InOrder,
         inflight' \in Seq(Payload), Len(inflight') = Len(inflight),
         \A i \in 1..Len(inflight) : /\ inflight'[i].kind = inflight[i].kind
                                    /\ inflight'[i].lq = inflight[i].lq
                                    /\ inflight'[i].sq = inflight[i].sq,
         LQ' \in [0..(LQsize - 1) -> LoadEntry], SQ' \in [0..(SQsize - 1) -> StoreEntry],
         \A l \in 0..(LQsize - 1) : LQ'[l].valid = LQ[l].valid /\ LQ'[l].sq = LQ[l].sq,
         \A s \in 0..(SQsize - 1) : SQ'[s].valid = SQ[s].valid,
         UNCHANGED <<lq_head, lq_tail, lq_length, sq_head, sq_tail, sq_length, memory>>
  PROVE  TypeOK' /\ InOrder'
<1>1. TypeOK'
  BY DEF TypeOK
<1>2. Loads' = Loads /\ Stores' = Stores /\ lqs' = lqs /\ sqs' = sqs
  BY DEF Loads, Stores, lqs, sqs
<1>3. LQPlaced' /\ SQPlaced'
  BY <1>2 DEF InOrder, LQPlaced, SQPlaced
<1>4. \A i \in Loads \cup Stores : i \in 1..Len(inflight)
  BY DEF Loads, Stores
<1>5. LQValid' /\ SQValid'
  BY <1>2, <1>4 DEF InOrder, LQValid, SQValid
<1>6. LoadsKnowOlderStores'
  BY <1>2, <1>4, InflightType DEF InOrder, LoadsKnowOlderStores
<1> QED BY <1>1, <1>3, <1>5, <1>6 DEF InOrder

\* One instruction in flight is changed, in its flags only.
LEMMA FlagsChange ==
  ASSUME TypeOK, NEW i \in 1..Len(inflight), NEW e \in Payload,
         e.kind = inflight[i].kind, e.lq = inflight[i].lq, e.sq = inflight[i].sq,
         inflight' = [inflight EXCEPT ![i] = e]
  PROVE  /\ inflight' \in Seq(Payload) /\ Len(inflight') = Len(inflight)
         /\ \A j \in 1..Len(inflight) : /\ inflight'[j].kind = inflight[j].kind
                                        /\ inflight'[j].lq = inflight[j].lq
                                        /\ inflight'[j].sq = inflight[j].sq
<1>1. /\ inflight' \in Seq(Payload) /\ Len(inflight') = Len(inflight)
      /\ \A j \in 1..Len(inflight) : inflight'[j] = IF j = i THEN e ELSE inflight[j]
  BY ExceptSeq DEF TypeOK
<1> QED BY <1>1

\* Neither moves an entry nor changes what is in flight.
LEMMA StoreAddrStep ==
  ASSUME TypeOK, InOrder, NEW i \in 1..Len(inflight), NEW access \in Accesses,
         NEW fault \in BOOLEAN, StoreAddr(i, access, fault)
  PROVE  TypeOK' /\ InOrder'
<1> DEFINE s == inflight[i].sq.idx
           viol == IF SPEC_DISAMBIG THEN Violated(inflight[i].lq, access) ELSE {}
           marked == [j \in 1..Len(inflight) |->
                        IF inflight[j].kind = "load" /\ inflight[j].lq.idx \in viol
                        THEN [inflight[j] EXCEPT !.load_viol = TRUE] ELSE inflight[j]]
<1>1. s \in 0..(SQsize - 1) /\ SQ[s] \in StoreEntry
  BY InflightType DEF TypeOK
<1>2. SQ' = [SQ EXCEPT ![s].access = access]
  BY DEF StoreAddr
<1>3. /\ SQ' \in [0..(SQsize - 1) -> StoreEntry]
      /\ \A t \in 0..(SQsize - 1) : SQ'[t].valid = SQ[t].valid
  BY <1>1, <1>2 DEF TypeOK, StoreEntry
<1>4. /\ inflight' \in Seq(Payload) /\ Len(inflight') = Len(inflight)
      /\ \A j \in 1..Len(inflight) : /\ inflight'[j].kind = inflight[j].kind
                                     /\ inflight'[j].lq = inflight[j].lq
                                     /\ inflight'[j].sq = inflight[j].sq
  <2>1. CASE fault
    <3> DEFINE e == [inflight[i] EXCEPT !.exception = TRUE]
    <3>1. /\ e \in Payload
          /\ e.kind = inflight[i].kind /\ e.lq = inflight[i].lq /\ e.sq = inflight[i].sq
      BY InflightType DEF Payload
    <3>2. inflight' = [inflight EXCEPT ![i] = e]
      BY <2>1 DEF StoreAddr
    <3> HIDE DEF e
    <3> QED BY <3>1, <3>2, FlagsChange
  <2>2. CASE ~fault
    <3>1. inflight' = marked
      BY <2>2 DEF StoreAddr
    <3>2. \A j \in 1..Len(inflight) : /\ marked[j] \in Payload
                                     /\ marked[j].kind = inflight[j].kind
                                     /\ marked[j].lq = inflight[j].lq
                                     /\ marked[j].sq = inflight[j].sq
      <4> HIDE DEF viol
      <4> QED BY InflightType DEF Payload
    <3>3. marked \in [1..Len(inflight) -> Payload] /\ Len(inflight) \in Nat
      BY <3>2, InflightType
    <3> HIDE DEF marked
    <3> QED BY <3>1, <3>2, <3>3, FunctionIsSequence
  <2> QED BY <2>1, <2>2
<1>5. UNCHANGED <<lqVars, sq_head, sq_tail, sq_length, memory>>
  BY DEF StoreAddr
<1>6. LQ' \in [0..(LQsize - 1) -> LoadEntry]
      /\ \A l \in 0..(LQsize - 1) : LQ'[l].valid = LQ[l].valid /\ LQ'[l].sq = LQ[l].sq
  BY <1>5 DEF lqVars, TypeOK
<1> QED BY <1>3, <1>4, <1>5, <1>6, Unmoved DEF lqVars

\* Neither moves an entry nor changes what is in flight.
LEMMA StoreValueStep ==
  ASSUME TypeOK, InOrder, NEW i \in 1..Len(inflight), NEW value \in Value, StoreValue(i, value)
  PROVE  TypeOK' /\ InOrder'
<1> DEFINE s == inflight[i].sq.idx
<1>1. s \in 0..(SQsize - 1) /\ SQ[s] \in StoreEntry
  BY InflightType DEF TypeOK
<1>2. SQ' = [SQ EXCEPT ![s].value = value]
  BY DEF StoreValue
<1>3. /\ SQ' \in [0..(SQsize - 1) -> StoreEntry]
      /\ \A t \in 0..(SQsize - 1) : SQ'[t].valid = SQ[t].valid
  BY <1>1, <1>2 DEF TypeOK, StoreEntry
<1>4. UNCHANGED <<lqVars, sq_head, sq_tail, sq_length, memory, inflight>>
  BY DEF StoreValue
<1>5. LQ' \in [0..(LQsize - 1) -> LoadEntry]
      /\ \A l \in 0..(LQsize - 1) : LQ'[l].valid = LQ[l].valid /\ LQ'[l].sq = LQ[l].sq
  BY <1>4 DEF lqVars, TypeOK
<1>6. inflight' \in Seq(Payload)
  BY <1>4 DEF TypeOK
<1> QED BY <1>3, <1>4, <1>5, <1>6, Unmoved DEF lqVars

\* A load entry gets an address, and perhaps a value; its instruction perhaps an exception.
LEMMA LoadEntryChange ==
  ASSUME TypeOK, InOrder, NEW i \in 1..Len(inflight), NEW e \in LoadEntry, NEW fault \in BOOLEAN,
         e.valid = LQ[inflight[i].lq.idx].valid, e.sq = LQ[inflight[i].lq.idx].sq,
         LQ' = [LQ EXCEPT ![inflight[i].lq.idx] = e],
         inflight' = [inflight EXCEPT ![i].exception = fault],
         UNCHANGED <<lq_head, lq_tail, lq_length, sqVars, memory>>
  PROVE  TypeOK' /\ InOrder'
<1> DEFINE f == [inflight[i] EXCEPT !.exception = fault]
<1>1. /\ f \in Payload
      /\ f.kind = inflight[i].kind /\ f.lq = inflight[i].lq /\ f.sq = inflight[i].sq
  BY InflightType DEF Payload
<1>2. inflight' = [inflight EXCEPT ![i] = f]
  OBVIOUS
<1> HIDE DEF f
<1>3. /\ inflight' \in Seq(Payload) /\ Len(inflight') = Len(inflight)
      /\ \A j \in 1..Len(inflight) : /\ inflight'[j].kind = inflight[j].kind
                                     /\ inflight'[j].lq = inflight[j].lq
                                     /\ inflight'[j].sq = inflight[j].sq
  BY <1>1, <1>2, FlagsChange
<1>4. inflight[i].lq.idx \in 0..(LQsize - 1)
  BY InflightType
<1>5. LQ' \in [0..(LQsize - 1) -> LoadEntry]
      /\ \A l \in 0..(LQsize - 1) : LQ'[l].valid = LQ[l].valid /\ LQ'[l].sq = LQ[l].sq
  BY <1>4 DEF TypeOK
<1>6. /\ SQ' \in [0..(SQsize - 1) -> StoreEntry]
      /\ \A s \in 0..(SQsize - 1) : SQ'[s].valid = SQ[s].valid
  BY DEF sqVars, TypeOK
<1> QED BY <1>3, <1>5, <1>6, Unmoved DEF sqVars

\* Neither moves an entry nor changes what is in flight.
LEMMA LoadAddrStep ==
  ASSUME TypeOK, InOrder, NEW i \in 1..Len(inflight), NEW access \in Accesses,
         NEW loading \in BOOLEAN, NEW fault \in BOOLEAN, LoadAddr(i, access, loading, fault)
  PROVE  TypeOK' /\ InOrder'
<1> DEFINE l == inflight[i].lq.idx
           load == [LQ[l] EXCEPT !.access = access]
           runs == Outcome(load) = "forward" \/ (Outcome(load) = "memory" /\ ~loading)
           e == IF runs THEN WithValue(load) ELSE load
<1>1. l \in 0..(LQsize - 1) /\ LQ[l] \in LoadEntry
  BY InflightType DEF TypeOK
<1>2. load \in LoadEntry /\ load.access = access /\ load.valid = LQ[l].valid /\ load.sq = LQ[l].sq
  BY <1>1 DEF LoadEntry
<1>3. access # NoAccess
  BY LoadStoreUnitAssumption
<1>4. e \in LoadEntry /\ e.valid = LQ[l].valid /\ e.sq = LQ[l].sq
  <2> HIDE DEF load
  <2>1. CASE runs
    <3>1. Outcome(load) # "stall"
      BY <2>1
    <3>2. WithValue(load) \in LoadEntry
      BY <1>2, <1>3, <3>1, WithValueType
    <3>3. WithValue(load).valid = load.valid /\ WithValue(load).sq = load.sq
      BY <1>2 DEF WithValue, LoadEntry
    <3> QED BY <1>2, <2>1, <3>2, <3>3
  <2>2. CASE ~runs
    BY <1>2, <2>2
  <2> QED BY <2>1, <2>2
<1>5. LQ' = [LQ EXCEPT ![l] = e] /\ inflight' = [inflight EXCEPT ![i].exception = fault]
  BY DEF LoadAddr
<1>6. UNCHANGED <<lq_head, lq_tail, lq_length, sqVars, memory>>
  BY DEF LoadAddr
<1> HIDE DEF e
<1> QED BY <1>4, <1>5, <1>6, LoadEntryChange

\* Neither moves an entry nor changes what is in flight.
LEMMA LoadUnstallStep ==
  ASSUME TypeOK, InOrder, NEW i \in Waiting, NEW fault \in BOOLEAN, LoadUnstall(i, fault)
  PROVE  TypeOK' /\ InOrder'
<1> DEFINE l == inflight[i].lq.idx
           e == WithValue(LQ[l])
<1>1. i \in 1..Len(inflight) /\ LQ[l].access # NoAccess
  BY DEF Waiting
<1>2. l \in 0..(LQsize - 1) /\ LQ[l] \in LoadEntry
  BY <1>1, InflightType DEF TypeOK
<1>3. e \in LoadEntry
  BY <1>1, <1>2, WithValueType DEF LoadUnstall
<1>4. e.valid = LQ[l].valid /\ e.sq = LQ[l].sq
  BY <1>2 DEF WithValue, LoadEntry
<1>5. LQ' = [LQ EXCEPT ![l] = e] /\ inflight' = [inflight EXCEPT ![i].exception = fault]
  BY DEF LoadUnstall
<1>6. UNCHANGED <<lq_head, lq_tail, lq_length, sqVars, memory>>
  BY DEF LoadUnstall
<1> HIDE DEF e
<1> QED BY <1>1, <1>3, <1>4, <1>5, <1>6, LoadEntryChange

\* Neither moves an entry nor changes what is in flight.
LEMMA ResolveCorrectStep ==
  ASSUME TypeOK, InOrder, NEW i \in 1..Len(inflight), ResolveCorrect(i)
  PROVE  TypeOK' /\ InOrder'
<1> DEFINE f == [inflight[i] EXCEPT !.resolved = TRUE]
<1>1. /\ f \in Payload
      /\ f.kind = inflight[i].kind /\ f.lq = inflight[i].lq /\ f.sq = inflight[i].sq
  BY InflightType DEF Payload
<1>2. inflight' = [inflight EXCEPT ![i] = f] /\ UNCHANGED <<lqVars, sqVars, memory>>
  BY DEF ResolveCorrect
<1> HIDE DEF f
<1>3. /\ inflight' \in Seq(Payload) /\ Len(inflight') = Len(inflight)
      /\ \A j \in 1..Len(inflight) : /\ inflight'[j].kind = inflight[j].kind
                                     /\ inflight'[j].lq = inflight[j].lq
                                     /\ inflight'[j].sq = inflight[j].sq
  BY <1>1, <1>2, FlagsChange
<1>4. /\ LQ' \in [0..(LQsize - 1) -> LoadEntry] /\ SQ' \in [0..(SQsize - 1) -> StoreEntry]
      /\ \A l \in 0..(LQsize - 1) : LQ'[l].valid = LQ[l].valid /\ LQ'[l].sq = LQ[l].sq
      /\ \A s \in 0..(SQsize - 1) : SQ'[s].valid = SQ[s].valid
  BY <1>2 DEF lqVars, sqVars, TypeOK
<1> QED BY <1>2, <1>3, <1>4, Unmoved DEF lqVars, sqVars

-----------------------------------------------------------------------------
(* Dispatch *)

\* What a dispatched instruction adds to those in flight.
LEMMA DispatchedInstruction ==
  ASSUME TypeOK, NEW kind \in {"load", "store", "branch"},
         Len(inflight) < ActiveListSize, inflight' = Dispatched(kind)
  PROVE  LET n == Len(inflight)
         IN  /\ inflight' \in Seq(Payload) /\ Len(inflight') = n + 1 /\ Len(inflight') <= ActiveListSize
             /\ 1..Len(inflight') = (1..n) \cup {n + 1}
             /\ \A i \in 1..n : inflight'[i] = inflight[i]
             /\ inflight'[n + 1].lq = lq_tail /\ inflight'[n + 1].sq = sq_tail
             /\ ~inflight'[n + 1].exception
             /\ \A i \in 1..n : lqs'[i] = lqs[i] /\ sqs'[i] = sqs[i]
             /\ lqs'[n + 1] = lq_tail /\ sqs'[n + 1] = sq_tail
             /\ Loads' = IF kind = "load" THEN Loads \cup {n + 1} ELSE Loads
             /\ Stores' = IF kind = "store" THEN Stores \cup {n + 1} ELSE Stores
<1> DEFINE n == Len(inflight)
           e == [kind |-> kind, lq |-> lq_tail, sq |-> sq_tail, resolved |-> FALSE,
                 exception |-> FALSE, load_viol |-> FALSE]
<1>1. e \in Payload /\ e.kind = kind /\ e.lq = lq_tail /\ e.sq = sq_tail /\ ~e.exception
  BY DEF TypeOK, Payload
<1>2. inflight' = Append(inflight, e)
  BY DEF Dispatched
<1> HIDE DEF e
<1>3. /\ inflight' \in Seq(Payload) /\ Len(inflight') = n + 1
      /\ \A i \in 1..n : inflight'[i] = inflight[i]
      /\ inflight'[n + 1] = e
  BY <1>1, <1>2, AppendProperties DEF TypeOK
<1>4. n \in Nat
  BY InflightType
<1>5. 1..Len(inflight') = (1..n) \cup {n + 1} /\ Len(inflight') <= ActiveListSize
  BY <1>3, <1>4, LoadStoreUnitAssumption
<1>6. /\ \A i \in 1..n : lqs'[i] = lqs[i] /\ sqs'[i] = sqs[i]
      /\ lqs'[n + 1] = lq_tail /\ sqs'[n + 1] = sq_tail
  BY <1>1, <1>3, <1>4, <1>5 DEF lqs, sqs
<1>7. /\ Loads' = IF kind = "load" THEN Loads \cup {n + 1} ELSE Loads
      /\ Stores' = IF kind = "store" THEN Stores \cup {n + 1} ELSE Stores
  <2>1. \A i \in 1..n : i # n + 1
    BY <1>4
  <2>2. Loads' = {i \in (1..n) \cup {n + 1} : inflight'[i].kind = "load"}
    BY <1>5 DEF Loads
  <2>3. Stores' = {i \in (1..n) \cup {n + 1} : inflight'[i].kind = "store"}
    BY <1>5 DEF Stores
  <2>4. inflight'[n + 1].kind = kind
    BY <1>1, <1>3
  <2> HIDE DEF n
  <2> QED BY <1>3, <2>2, <2>3, <2>4 DEF Loads, Stores, n
<1> QED BY <1>1, <1>3, <1>5, <1>6, <1>7

\* Its pointers are the tails, and a queue it takes an entry of grows by one.
LEMMA DispatchedPlaced ==
  ASSUME TypeOK, InOrder, NEW kind \in {"load", "store", "branch"},
         Len(inflight) < ActiveListSize, inflight' = Dispatched(kind)
  PROVE  /\ kind # "load" => Placed(lqs', Loads', 1..Len(inflight'), lq_head, lq_tail, lq_length, LQsize)
         /\ kind = "load" /\ lq_length < LQsize
            => Placed(lqs', Loads', 1..Len(inflight'), lq_head, Advance(lq_tail, LQsize),
                      lq_length + 1, LQsize)
         /\ kind # "store" => Placed(sqs', Stores', 1..Len(inflight'), sq_head, sq_tail, sq_length, SQsize)
         /\ kind = "store" /\ sq_length < SQsize
            => Placed(sqs', Stores', 1..Len(inflight'), sq_head, Advance(sq_tail, SQsize),
                      sq_length + 1, SQsize)
<1> DEFINE n == Len(inflight)
           P == 1..n
<1>1. n \in Nat /\ P \in SUBSET (1..n) /\ Loads \in SUBSET P /\ Stores \in SUBSET P
  BY InflightType
<1>2. /\ LQsize \in Nat \ {0} /\ lq_head \in Pointer(LQsize)
      /\ Placed(lqs, Loads, P, lq_head, lq_tail, lq_length, LQsize)
      /\ SQsize \in Nat \ {0} /\ sq_head \in Pointer(SQsize)
      /\ Placed(sqs, Stores, P, sq_head, sq_tail, sq_length, SQsize)
  BY LoadStoreUnitAssumption DEF TypeOK, InOrder, LQPlaced, SQPlaced
<1>3. /\ \A i \in P : lqs'[i] = lqs[i]
      /\ \A i \in P : sqs'[i] = sqs[i]
      /\ lqs'[n + 1] = lq_tail /\ sqs'[n + 1] = sq_tail
  BY DispatchedInstruction
<1>4. /\ 1..Len(inflight') = P \cup {n + 1}
      /\ Loads' = IF kind = "load" THEN Loads \cup {n + 1} ELSE Loads
      /\ Stores' = IF kind = "store" THEN Stores \cup {n + 1} ELSE Stores
  BY DispatchedInstruction
<1> HIDE DEF n, P
<1>5. Placed(lqs', Loads, P \cup {n + 1}, lq_head, lq_tail, lq_length, LQsize)
  BY <1>1, <1>2, <1>3, PlacedSkip, Zenon
<1>6. Placed(sqs', Stores, P \cup {n + 1}, sq_head, sq_tail, sq_length, SQsize)
  BY <1>1, <1>2, <1>3, PlacedSkip, Zenon
<1>7. ASSUME lq_length < LQsize
      PROVE  Placed(lqs', Loads \cup {n + 1}, P \cup {n + 1}, lq_head, Advance(lq_tail, LQsize),
                    lq_length + 1, LQsize)
  BY <1>1, <1>2, <1>3, <1>7, PlacedPush, Zenon
<1>8. ASSUME sq_length < SQsize
      PROVE  Placed(sqs', Stores \cup {n + 1}, P \cup {n + 1}, sq_head, Advance(sq_tail, SQsize),
                    sq_length + 1, SQsize)
  BY <1>1, <1>2, <1>3, <1>8, PlacedPush, Zenon
<1> QED BY <1>4, <1>5, <1>6, <1>7, <1>8

\* A load takes the entry at the LQ's tail.
LEMMA DispatchLoadStep ==
  ASSUME TypeOK, InOrder, NEW mdp_stall \in BOOLEAN, DispatchLoad(mdp_stall)
  PROVE  TypeOK' /\ InOrder'
<1> DEFINE n == Len(inflight)
           e == [valid |-> TRUE, access |-> NoAccess, value |-> NoValue,
                 mdp_stall |-> ~SPEC_DISAMBIG \/ mdp_stall, sq |-> sq_tail]
<1>1. /\ Len(inflight) < ActiveListSize /\ inflight' = Dispatched("load")
      /\ LQ' = [LQ EXCEPT ![lq_tail.idx] = e]
      /\ lq_tail' = Advance(lq_tail, LQsize) /\ lq_length' = lq_length + 1
      /\ UNCHANGED <<lq_head, sqVars, memory>>
  BY DEF DispatchLoad
<1>2. lq_length < LQsize /\ lq_length \in 0..LQsize
  BY LoadStoreUnitAssumption DEF DispatchLoad, stall, TypeOK
<1>3. e \in LoadEntry /\ e.valid = TRUE /\ e.sq = sq_tail
  BY LoadStoreUnitAssumption DEF TypeOK, LoadEntry
<1> HIDE DEF e
<1>4. lq_tail.idx \in 0..(LQsize - 1) /\ Advance(lq_tail, LQsize) \in Pointer(LQsize)
  BY AdvanceType, LoadStoreUnitAssumption DEF TypeOK, Pointer
<1>5. /\ inflight' \in Seq(Payload) /\ Len(inflight') <= ActiveListSize /\ n \in Nat
      /\ \A i \in 1..n : inflight'[i] = inflight[i]
      /\ inflight'[n + 1].lq = lq_tail /\ inflight'[n + 1].sq = sq_tail
      /\ Loads' = Loads \cup {n + 1} /\ Stores' = Stores
  BY <1>1, DispatchedInstruction, InflightType
<1>6. TypeOK'
  <2>1. LQ' \in [0..(LQsize - 1) -> LoadEntry]
    BY <1>1, <1>3, <1>4 DEF TypeOK
  <2>2. lq_length' \in 0..LQsize
    BY <1>1, <1>2, LoadStoreUnitAssumption
  <2> QED BY <1>1, <1>4, <1>5, <2>1, <2>2 DEF TypeOK, sqVars
<1>7. LQPlaced' /\ SQPlaced'
  BY <1>1, <1>2, DispatchedPlaced DEF LQPlaced, SQPlaced, sqVars
<1>8. \A i \in Loads \cup Stores : i \in 1..n /\ inflight'[i] = inflight[i]
  BY <1>5 DEF Loads, Stores
<1>9. \A l \in 0..(LQsize - 1) : LQ'[l] = IF l = lq_tail.idx THEN e ELSE LQ[l]
  BY <1>1, <1>4 DEF TypeOK
<1>10. LQValid'
  <2> SUFFICES ASSUME NEW l \in 0..(LQsize - 1)
               PROVE  LQ'[l].valid <=> \E i \in Loads' : inflight'[i].lq.idx = l
    BY DEF LQValid
  <2>1. CASE l = lq_tail.idx
    BY <1>3, <1>5, <1>9, <2>1
  <2>2. CASE l # lq_tail.idx
    BY <1>5, <1>8, <1>9, <2>2 DEF InOrder, LQValid
  <2> QED BY <2>1, <2>2
<1>11. SQValid'
  BY <1>1, <1>5, <1>8 DEF InOrder, SQValid, sqVars
<1>12. LoadsKnowOlderStores'
  <2> SUFFICES ASSUME NEW i \in Loads'
               PROVE  LQ'[inflight'[i].lq.idx].sq = inflight'[i].sq
    BY DEF LoadsKnowOlderStores
  <2>1. CASE i = n + 1
    BY <1>3, <1>4, <1>5, <1>9, <2>1
  <2>2. CASE i \in Loads
    <3>1. /\ inflight'[i] = inflight[i] /\ inflight[i].lq.idx # lq_tail.idx
          /\ inflight[i].lq.idx \in 0..(LQsize - 1)
      BY <1>2, <1>8, <2>2, OwnEntries, InflightType
    <3> QED BY <1>9, <2>2, <3>1 DEF InOrder, LoadsKnowOlderStores
  <2> QED BY <1>5, <2>1, <2>2
<1> QED BY <1>6, <1>7, <1>10, <1>11, <1>12 DEF InOrder

\* A store takes the entry at the SQ's tail.
LEMMA DispatchStoreStep ==
  ASSUME TypeOK, InOrder, DispatchStore
  PROVE  TypeOK' /\ InOrder'
<1> DEFINE n == Len(inflight)
           e == [valid |-> TRUE, access |-> NoAccess, value |-> NoValue]
<1>1. /\ Len(inflight) < ActiveListSize /\ inflight' = Dispatched("store")
      /\ SQ' = [SQ EXCEPT ![sq_tail.idx] = e]
      /\ sq_tail' = Advance(sq_tail, SQsize) /\ sq_length' = sq_length + 1
      /\ UNCHANGED <<sq_head, lqVars, memory>>
  BY DEF DispatchStore
<1>2. sq_length < SQsize /\ sq_length \in 0..SQsize
  BY LoadStoreUnitAssumption DEF DispatchStore, stall, TypeOK
<1>3. e \in StoreEntry /\ e.valid = TRUE
  BY DEF StoreEntry
<1> HIDE DEF e
<1>4. sq_tail.idx \in 0..(SQsize - 1) /\ Advance(sq_tail, SQsize) \in Pointer(SQsize)
  BY AdvanceType, LoadStoreUnitAssumption DEF TypeOK, Pointer
<1>5. /\ inflight' \in Seq(Payload) /\ Len(inflight') <= ActiveListSize /\ n \in Nat
      /\ \A i \in 1..n : inflight'[i] = inflight[i]
      /\ inflight'[n + 1].sq = sq_tail
      /\ Stores' = Stores \cup {n + 1} /\ Loads' = Loads
  BY <1>1, DispatchedInstruction, InflightType
<1>6. TypeOK'
  <2>1. SQ' \in [0..(SQsize - 1) -> StoreEntry]
    BY <1>1, <1>3, <1>4 DEF TypeOK
  <2>2. sq_length' \in 0..SQsize
    BY <1>1, <1>2, LoadStoreUnitAssumption
  <2> QED BY <1>1, <1>4, <1>5, <2>1, <2>2 DEF TypeOK, lqVars
<1>7. LQPlaced' /\ SQPlaced'
  BY <1>1, <1>2, DispatchedPlaced DEF LQPlaced, SQPlaced, lqVars
<1>8. \A i \in Loads \cup Stores : i \in 1..n /\ inflight'[i] = inflight[i]
  BY <1>5 DEF Loads, Stores
<1>9. \A s \in 0..(SQsize - 1) : SQ'[s] = IF s = sq_tail.idx THEN e ELSE SQ[s]
  BY <1>1, <1>4 DEF TypeOK
<1>10. SQValid'
  <2> SUFFICES ASSUME NEW s \in 0..(SQsize - 1)
               PROVE  SQ'[s].valid <=> \E i \in Stores' : inflight'[i].sq.idx = s
    BY DEF SQValid
  <2>1. CASE s = sq_tail.idx
    BY <1>3, <1>5, <1>9, <2>1
  <2>2. CASE s # sq_tail.idx
    BY <1>5, <1>8, <1>9, <2>2 DEF InOrder, SQValid
  <2> QED BY <2>1, <2>2
<1>11. LQ' = LQ /\ Loads' = Loads /\ \A i \in Loads : inflight'[i] = inflight[i]
  BY <1>1, <1>5, <1>8 DEF lqVars
<1>12. LQValid' /\ LoadsKnowOlderStores'
  BY <1>11 DEF InOrder, LQValid, LoadsKnowOlderStores
<1> QED BY <1>6, <1>7, <1>10, <1>12 DEF InOrder

\* A branch takes no entry and records both tails.
LEMMA DispatchBranchStep ==
  ASSUME TypeOK, InOrder, DispatchBranch
  PROVE  TypeOK' /\ InOrder'
<1> DEFINE n == Len(inflight)
<1>1. /\ Len(inflight) < ActiveListSize /\ inflight' = Dispatched("branch")
      /\ UNCHANGED <<lqVars, sqVars, memory>>
  BY DEF DispatchBranch
<1>2. /\ inflight' \in Seq(Payload) /\ Len(inflight') <= ActiveListSize
      /\ \A i \in 1..n : inflight'[i] = inflight[i]
      /\ Stores' = Stores /\ Loads' = Loads
  BY <1>1, DispatchedInstruction
<1>3. TypeOK'
  BY <1>1, <1>2 DEF TypeOK, lqVars, sqVars
<1>4. LQPlaced' /\ SQPlaced'
  BY <1>1, DispatchedPlaced DEF LQPlaced, SQPlaced, lqVars, sqVars
<1>5. \A i \in Loads \cup Stores : i \in 1..n /\ inflight'[i] = inflight[i]
  BY <1>2 DEF Loads, Stores
<1>6. LQValid' /\ SQValid' /\ LoadsKnowOlderStores'
  BY <1>1, <1>2, <1>5 DEF InOrder, LQValid, SQValid, LoadsKnowOlderStores, lqVars, sqVars
<1> QED BY <1>3, <1>4, <1>6 DEF InOrder

-----------------------------------------------------------------------------
(* Recovery *)

\* The instructions that survive a misprediction are those up to the branch.
LEMMA RestoredInflight ==
  ASSUME TypeOK, NEW i \in 1..Len(inflight), inflight[i].kind = "branch",
         inflight' = [SubSeq(inflight, 1, i) EXCEPT ![i].resolved = TRUE]
  PROVE  /\ inflight' \in Seq(Payload) /\ Len(inflight') = i /\ i <= Len(inflight)
         /\ \A j \in 1..i : /\ inflight'[j].kind = inflight[j].kind
                            /\ inflight'[j].lq = inflight[j].lq
                            /\ inflight'[j].sq = inflight[j].sq
                            /\ inflight'[j].exception = inflight[j].exception
                            /\ inflight'[j].load_viol = inflight[j].load_viol
         /\ \A j \in 1..i : lqs'[j] = lqs[j] /\ sqs'[j] = sqs[j]
         /\ Loads' = {j \in Loads : j < i} /\ Stores' = {j \in Stores : j < i}
<1> DEFINE s == SubSeq(inflight, 1, i)
           e == [inflight[i] EXCEPT !.resolved = TRUE]
<1>1. i \in Nat \ {0} /\ i <= Len(inflight) /\ Len(inflight) \in Nat
  BY InflightType
<1>2. \A j \in 1..i : j \in 1..Len(inflight) /\ inflight[j] \in Payload
  BY <1>1, InflightType
<1>3. s \in Seq(Payload) /\ Len(s) = i /\ \A j \in 1..i : s[j] = inflight[j]
  BY <1>1, <1>2, SubSeqProperties
<1>4. /\ e \in Payload /\ e.kind = inflight[i].kind
      /\ e.lq = inflight[i].lq /\ e.sq = inflight[i].sq
      /\ e.exception = inflight[i].exception /\ e.load_viol = inflight[i].load_viol
  BY InflightType DEF Payload
<1>5. inflight' = [s EXCEPT ![i] = e]
  <2>1. s[i] = inflight[i]
    BY <1>1, <1>3
  <2> QED BY <2>1
<1> HIDE DEF s, e
<1>6. /\ inflight' \in Seq(Payload) /\ Len(inflight') = i
      /\ \A j \in 1..i : inflight'[j] = IF j = i THEN e ELSE s[j]
  <2>1. i \in 1..Len(s)
    BY <1>1, <1>3
  <2>2. s \in Seq(Payload) /\ Len(s) = i /\ e \in Payload
    BY <1>3, <1>4
  <2>3. /\ [s EXCEPT ![i] = e] \in Seq(Payload) /\ Len([s EXCEPT ![i] = e]) = Len(s)
        /\ \A j \in 1..Len(s) : [s EXCEPT ![i] = e][j] = IF j = i THEN e ELSE s[j]
    BY <2>1, <2>2, ExceptSeq
  <2> QED BY <1>5, <2>2, <2>3
<1>7. \A j \in 1..i : /\ inflight'[j].kind = inflight[j].kind
                      /\ inflight'[j].lq = inflight[j].lq
                      /\ inflight'[j].sq = inflight[j].sq
                      /\ inflight'[j].exception = inflight[j].exception
                      /\ inflight'[j].load_viol = inflight[j].load_viol
  BY <1>3, <1>4, <1>6
<1>8. \A j \in 1..i : lqs'[j] = lqs[j] /\ sqs'[j] = sqs[j]
  BY <1>2, <1>6, <1>7 DEF lqs, sqs
<1>9. Loads' = {j \in Loads : j < i} /\ Stores' = {j \in Stores : j < i}
  <2>1. \A j : j \in 1..i /\ inflight'[j].kind # "branch"
               <=> j \in 1..Len(inflight) /\ j < i /\ inflight[j].kind # "branch"
    BY <1>1, <1>7 DEF Loads
  <2> QED BY <1>1, <1>6, <1>7 DEF Loads, Stores
<1> QED BY <1>1, <1>6, <1>7, <1>8, <1>9

\* Both queues roll back to what the branch recorded.
LEMMA RestoredQueues ==
  ASSUME TypeOK, InOrder, NEW i \in 1..Len(inflight)
  PROVE  /\ Length(lq_head, inflight[i].lq, LQsize) = Count(Loads, i)
         /\ Survivors(lq_head, inflight[i].lq, LQsize) = {inflight[j].lq.idx : j \in {k \in Loads : k < i}}
         /\ Length(sq_head, inflight[i].sq, SQsize) = Count(Stores, i)
         /\ Survivors(sq_head, inflight[i].sq, SQsize) = {inflight[j].sq.idx : j \in {k \in Stores : k < i}}
<1> DEFINE n == Len(inflight)
           P == 1..n
<1>1. n \in Nat /\ P \in SUBSET (1..n) /\ Loads \in SUBSET P /\ Stores \in SUBSET P /\ i \in P
  BY InflightType
<1>2. /\ LQsize \in Nat \ {0} /\ lq_head \in Pointer(LQsize)
      /\ Placed(lqs, Loads, P, lq_head, lq_tail, lq_length, LQsize)
      /\ SQsize \in Nat \ {0} /\ sq_head \in Pointer(SQsize)
      /\ Placed(sqs, Stores, P, sq_head, sq_tail, sq_length, SQsize)
  BY LoadStoreUnitAssumption DEF TypeOK, InOrder, LQPlaced, SQPlaced
<1>3. \A j \in P : lqs[j] = inflight[j].lq /\ sqs[j] = inflight[j].sq
  BY InflightType
<1>4. Count(Loads, i) \in 0..LQsize /\ lqs[i] = AdvanceBy(lq_head, Count(Loads, i), LQsize)
  <2>1. Count(Loads, i) \in 0..Cardinality(Loads)
    <3>1. n \in Nat /\ Loads \in SUBSET (1..n) /\ i \in Int
      BY <1>1
    <3> QED BY <3>1, CountType
  <2> QED BY <1>1, <1>2, <2>1 DEF Placed
<1>5. Count(Stores, i) \in 0..SQsize /\ sqs[i] = AdvanceBy(sq_head, Count(Stores, i), SQsize)
  <2>1. Count(Stores, i) \in 0..Cardinality(Stores)
    <3>1. n \in Nat /\ Stores \in SUBSET (1..n) /\ i \in Int
      BY <1>1
    <3> QED BY <3>1, CountType
  <2> QED BY <1>1, <1>2, <2>1 DEF Placed
<1> HIDE DEF n, P
<1>6. DividedAt(i, lqs, Loads, lq_head, lq_tail, LQsize)
  BY <1>1, <1>2, PlacedSlots, Zenon
<1>7. DividedAt(i, sqs, Stores, sq_head, sq_tail, SQsize)
  BY <1>1, <1>2, PlacedSlots, Zenon
<1>8. /\ Length(lq_head, lqs[i], LQsize) = Count(Loads, i)
      /\ Survivors(lq_head, lqs[i], LQsize) = Slots(lq_head, lqs[i], LQsize)
  BY <1>2, <1>4, LengthOfQueue
<1>9. /\ Length(sq_head, sqs[i], SQsize) = Count(Stores, i)
      /\ Survivors(sq_head, sqs[i], SQsize) = Slots(sq_head, sqs[i], SQsize)
  BY <1>2, <1>5, LengthOfQueue
<1>10. /\ \A j \in Loads : lqs[j].idx = inflight[j].lq.idx
       /\ \A j \in Stores : sqs[j].idx = inflight[j].sq.idx
       /\ lqs[i] = inflight[i].lq /\ sqs[i] = inflight[i].sq
  BY <1>1, <1>3
<1>11. /\ OlderEntries(lqs, Loads, i) = {inflight[j].lq.idx : j \in {k \in Loads : k < i}}
       /\ OlderEntries(sqs, Stores, i) = {inflight[j].sq.idx : j \in {k \in Stores : k < i}}
  BY <1>10 DEF OlderEntries
<1> QED BY <1>6, <1>7, <1>8, <1>9, <1>10, <1>11 DEF DividedAt

\* Rolling back keeps the entries of what survives where they are.
LEMMA RestoredPlaced ==
  ASSUME TypeOK, InOrder, NEW i \in 1..Len(inflight), inflight[i].kind = "branch",
         inflight' = [SubSeq(inflight, 1, i) EXCEPT ![i].resolved = TRUE]
  PROVE  /\ Placed(lqs', Loads', 1..Len(inflight'), lq_head, inflight[i].lq, Count(Loads, i), LQsize)
         /\ Placed(sqs', Stores', 1..Len(inflight'), sq_head, inflight[i].sq, Count(Stores, i), SQsize)
<1> DEFINE n == Len(inflight)
           P == 1..n
           P2 == 1..i
<1>1. n \in Nat /\ P \in SUBSET (1..n) /\ Loads \in SUBSET P /\ Stores \in SUBSET P /\ i \in P
  BY InflightType
<1>2. /\ LQsize \in Nat \ {0} /\ lq_head \in Pointer(LQsize)
      /\ Placed(lqs, Loads, P, lq_head, lq_tail, lq_length, LQsize)
      /\ SQsize \in Nat \ {0} /\ sq_head \in Pointer(SQsize)
      /\ Placed(sqs, Stores, P, sq_head, sq_tail, sq_length, SQsize)
  BY LoadStoreUnitAssumption DEF TypeOK, InOrder, LQPlaced, SQPlaced
<1>3. P2 \in SUBSET {j \in P : j <= i}
  BY <1>1
<1>4. /\ \A j \in P2 : lqs'[j] = lqs[j]
      /\ \A j \in P2 : sqs'[j] = sqs[j]
      /\ Loads' = {j \in Loads : j < i} /\ Stores' = {j \in Stores : j < i}
      /\ 1..Len(inflight') = P2
  BY RestoredInflight
<1>5. lqs[i] = inflight[i].lq /\ sqs[i] = inflight[i].sq
  BY InflightType
<1> HIDE DEF n, P, P2
<1>6. Placed(lqs', {j \in Loads : j < i}, P2, lq_head, lqs[i], Count(Loads, i), LQsize)
  BY <1>1, <1>2, <1>3, <1>4, PlacedRestore, Zenon
<1>7. Placed(sqs', {j \in Stores : j < i}, P2, sq_head, sqs[i], Count(Stores, i), SQsize)
  BY <1>1, <1>2, <1>3, <1>4, PlacedRestore, Zenon
<1> QED BY <1>4, <1>5, <1>6, <1>7

\* A misprediction leaves both queues with what is older than the branch.
LEMMA RestoreStep ==
  ASSUME TypeOK, InOrder, NEW i \in 1..Len(inflight), Restore(i)
  PROVE  TypeOK' /\ InOrder'
<1> DEFINE KeptL == {inflight[j].lq.idx : j \in {k \in Loads : k < i}}
           KeptS == {inflight[j].sq.idx : j \in {k \in Stores : k < i}}
<1>1. /\ inflight[i].kind = "branch"
      /\ inflight' = [SubSeq(inflight, 1, i) EXCEPT ![i].resolved = TRUE]
      /\ lq_tail' = inflight[i].lq /\ sq_tail' = inflight[i].sq
      /\ UNCHANGED <<lq_head, sq_head, memory>>
  BY DEF Restore
<1>2. /\ lq_length' = Count(Loads, i) /\ sq_length' = Count(Stores, i)
      /\ LQ' = [l \in 0..(LQsize - 1) |-> IF l \in KeptL THEN LQ[l] ELSE NoLoad]
      /\ SQ' = [s \in 0..(SQsize - 1) |-> IF s \in KeptS THEN SQ[s] ELSE NoStore]
  <2>1. DOMAIN LQ = 0..(LQsize - 1) /\ DOMAIN SQ = 0..(SQsize - 1)
    BY DEF TypeOK
  <2> QED BY <2>1, RestoredQueues DEF Restore
<1>3. /\ Loads' = {j \in Loads : j < i} /\ Stores' = {j \in Stores : j < i}
      /\ \A j \in 1..i : /\ inflight'[j].kind = inflight[j].kind
                         /\ inflight'[j].lq = inflight[j].lq
                         /\ inflight'[j].sq = inflight[j].sq
      /\ inflight' \in Seq(Payload) /\ Len(inflight') = i /\ i <= Len(inflight)
  BY <1>1, RestoredInflight
<1>4. NoLoad \in LoadEntry /\ ~NoLoad.valid /\ NoStore \in StoreEntry /\ ~NoStore.valid
  <2>1. Origin \in Pointer(SQsize)
    BY OriginType, LoadStoreUnitAssumption
  <2> QED BY <2>1 DEF NoLoad, LoadEntry, NoStore, StoreEntry
<1>5. \A j \in {k \in Loads : k < i} \cup {k \in Stores : k < i} : j \in 1..i
  BY InflightType
<1>6. LQPlaced' /\ SQPlaced'
  BY <1>1, <1>2, RestoredPlaced DEF LQPlaced, SQPlaced
<1>7. TypeOK'
  <2>1. lq_length' \in 0..LQsize /\ sq_length' \in 0..SQsize
    BY <1>6 DEF LQPlaced, SQPlaced, Placed
  <2>2. lq_tail' \in Pointer(LQsize) /\ sq_tail' \in Pointer(SQsize)
    BY <1>1, InflightType
  <2>3. LQ' \in [0..(LQsize - 1) -> LoadEntry] /\ SQ' \in [0..(SQsize - 1) -> StoreEntry]
    <3> HIDE DEF KeptL, KeptS
    <3> QED BY <1>2, <1>4 DEF TypeOK
  <2>4. Len(inflight') <= ActiveListSize
    BY <1>3, InflightType, LoadStoreUnitAssumption DEF TypeOK
  <2> QED BY <1>1, <1>3, <2>1, <2>2, <2>3, <2>4 DEF TypeOK
<1>8. LQValid'
  <2>1. \A l \in 0..(LQsize - 1) : LQ'[l].valid <=> l \in KeptL
    BY <1>2, <1>4 DEF InOrder, LQValid
  <2>2. \A l : l \in KeptL <=> \E j \in Loads' : inflight'[j].lq.idx = l
    BY <1>3, <1>5
  <2> QED BY <2>1, <2>2 DEF LQValid
<1>9. SQValid'
  <2>1. \A s \in 0..(SQsize - 1) : SQ'[s].valid <=> s \in KeptS
    BY <1>2, <1>4 DEF InOrder, SQValid
  <2>2. \A s : s \in KeptS <=> \E j \in Stores' : inflight'[j].sq.idx = s
    BY <1>3, <1>5
  <2> QED BY <2>1, <2>2 DEF SQValid
<1>10. LoadsKnowOlderStores'
  <2> SUFFICES ASSUME NEW j \in Loads'
               PROVE  LQ'[inflight'[j].lq.idx].sq = inflight'[j].sq
    BY DEF LoadsKnowOlderStores
  <2>1. j \in {k \in Loads : k < i} /\ j \in 1..i /\ j \in 1..Len(inflight)
    BY <1>3, <1>5, InflightType
  <2>2. inflight[j].lq.idx \in KeptL /\ inflight[j].lq.idx \in 0..(LQsize - 1)
    BY <2>1, InflightType
  <2>3. LQ'[inflight[j].lq.idx] = LQ[inflight[j].lq.idx]
    BY <1>2, <2>2
  <2>4. inflight'[j].lq = inflight[j].lq /\ inflight'[j].sq = inflight[j].sq
    BY <1>3, <2>1
  <2> QED BY <2>1, <2>3, <2>4 DEF InOrder, LoadsKnowOlderStores
<1> QED BY <1>6, <1>7, <1>8, <1>9, <1>10 DEF InOrder

-----------------------------------------------------------------------------
(* Retirement *)

\* The oldest instruction leaves, the others move up by one.
LEMMA RetiredInflight ==
  ASSUME TypeOK, inflight # <<>>, inflight' = Tail(inflight)
  PROVE  LET n == Len(inflight)
         IN  /\ n \in Nat \ {0} /\ 1 \in 1..n /\ Head(inflight) = inflight[1]
             /\ inflight' \in Seq(Payload) /\ Len(inflight') = n - 1 /\ Len(inflight') <= ActiveListSize
             /\ \A j \in 1..(n - 1) : /\ j + 1 \in 1..n /\ inflight'[j] = inflight[j + 1]
                                      /\ lqs'[j] = lqs[j + 1] /\ sqs'[j] = sqs[j + 1]
                                      /\ (j \in Loads' <=> j + 1 \in Loads)
                                      /\ (j \in Stores' <=> j + 1 \in Stores)
             /\ Loads' \in SUBSET (1..(n - 1)) /\ Stores' \in SUBSET (1..(n - 1))
             /\ \A i \in 1..n : i # 1 => i - 1 \in 1..(n - 1) /\ (i - 1) + 1 = i
<1> DEFINE n == Len(inflight)
<1>1. n \in Nat \ {0} /\ n <= ActiveListSize /\ ActiveListSize \in Nat
  BY EmptySeq, LoadStoreUnitAssumption DEF TypeOK
<1>2. /\ inflight' \in Seq(Payload) /\ Len(inflight') = n - 1
      /\ \A j \in 1..(n - 1) : inflight'[j] = inflight[j + 1]
  BY <1>1, HeadTailProperties DEF TypeOK
<1>3. Head(inflight) = inflight[1] /\ 1 \in 1..n
  BY <1>1
<1>4. \A j \in 1..(n - 1) : j + 1 \in 1..n
  BY <1>1
<1>5. \A j \in 1..(n - 1) : lqs'[j] = lqs[j + 1] /\ sqs'[j] = sqs[j + 1]
  BY <1>2, <1>4 DEF lqs, sqs
<1>6. \A j \in 1..(n - 1) : /\ j \in Loads' <=> j + 1 \in Loads
                            /\ j \in Stores' <=> j + 1 \in Stores
  BY <1>2, <1>4 DEF Loads, Stores
<1>7. Loads' \in SUBSET (1..(n - 1)) /\ Stores' \in SUBSET (1..(n - 1))
  BY <1>2 DEF Loads, Stores
<1>8. \A i \in 1..n : i # 1 => i - 1 \in 1..(n - 1) /\ (i - 1) + 1 = i
  BY <1>1
<1>9. Len(inflight') <= ActiveListSize
  BY <1>1, <1>2
<1> QED BY <1>1, <1>2, <1>3, <1>4, <1>5, <1>6, <1>7, <1>8, <1>9

\* The head passes the entry of an instruction that retires.
LEMMA RetiredPlaced ==
  ASSUME TypeOK, InOrder, inflight # <<>>, inflight' = Tail(inflight)
  PROVE  /\ 1 \in Loads
            => Placed(lqs', Loads', 1..Len(inflight'), Advance(lq_head, LQsize), lq_tail, lq_length - 1, LQsize)
         /\ 1 \notin Loads
            => Placed(lqs', Loads', 1..Len(inflight'), lq_head, lq_tail, lq_length, LQsize)
         /\ 1 \in Stores
            => Placed(sqs', Stores', 1..Len(inflight'), Advance(sq_head, SQsize), sq_tail, sq_length - 1, SQsize)
         /\ 1 \notin Stores
            => Placed(sqs', Stores', 1..Len(inflight'), sq_head, sq_tail, sq_length, SQsize)
<1> DEFINE n == Len(inflight)
           P == 1..n
           P2 == 1..(n - 1)
<1>1. P \in SUBSET (1..n) /\ Loads \in SUBSET P /\ Stores \in SUBSET P
  BY InflightType
<1>2. /\ LQsize \in Nat \ {0} /\ lq_head \in Pointer(LQsize)
      /\ Placed(lqs, Loads, P, lq_head, lq_tail, lq_length, LQsize)
      /\ SQsize \in Nat \ {0} /\ sq_head \in Pointer(SQsize)
      /\ Placed(sqs, Stores, P, sq_head, sq_tail, sq_length, SQsize)
  BY LoadStoreUnitAssumption DEF TypeOK, InOrder, LQPlaced, SQPlaced
<1>3. /\ n \in Nat \ {0} /\ P2 \in SUBSET (1..(n - 1))
      /\ Loads' \in SUBSET P2 /\ Stores' \in SUBSET P2 /\ 1..Len(inflight') = P2
  BY RetiredInflight
<1>4. MovedUp(n, Loads, Loads', P, P2, lqs, lqs') /\ MovedUp(n, Stores, Stores', P, P2, sqs, sqs')
  BY RetiredInflight DEF MovedUp
<1> HIDE DEF n, P, P2
<1>5. /\ 1 \in Loads => Placed(lqs', Loads', P2, Advance(lq_head, LQsize), lq_tail, lq_length - 1, LQsize)
      /\ 1 \notin Loads => Placed(lqs', Loads', P2, lq_head, lq_tail, lq_length, LQsize)
  BY <1>1, <1>2, <1>3, <1>4, PlacedPop, Zenon
<1>6. /\ 1 \in Stores => Placed(sqs', Stores', P2, Advance(sq_head, SQsize), sq_tail, sq_length - 1, SQsize)
      /\ 1 \notin Stores => Placed(sqs', Stores', P2, sq_head, sq_tail, sq_length, SQsize)
  BY <1>1, <1>2, <1>3, <1>4, PlacedPop, Zenon
<1> QED BY <1>3, <1>5, <1>6

\* The oldest load gives up the entry at the LQ's head.
LEMMA CommitLoadStep ==
  ASSUME TypeOK, InOrder, CommitLoad
  PROVE  TypeOK' /\ InOrder'
<1> DEFINE n == Len(inflight)
<1>1. /\ inflight # <<>> /\ inflight' = Tail(inflight)
      /\ LQ' = [LQ EXCEPT ![lq_head.idx] = NoLoad]
      /\ lq_head' = Advance(lq_head, LQsize) /\ lq_length' = lq_length - 1
      /\ UNCHANGED <<lq_tail, sqVars, memory>>
  BY DEF CommitLoad, Retires
<1>2. /\ inflight' \in Seq(Payload) /\ Len(inflight') = n - 1 /\ Len(inflight') <= ActiveListSize
      /\ \A j \in 1..(n - 1) : /\ inflight'[j] = inflight[j + 1]
                               /\ (j \in Loads' <=> j + 1 \in Loads)
                               /\ (j \in Stores' <=> j + 1 \in Stores)
      /\ Loads' \in SUBSET (1..(n - 1)) /\ Stores' \in SUBSET (1..(n - 1))
      /\ \A i \in 1..n : i # 1 => i - 1 \in 1..(n - 1) /\ (i - 1) + 1 = i
  BY <1>1, RetiredInflight
<1>3. 1 \in Loads /\ 1 \notin Stores /\ inflight[1].lq = lq_head
  <2>1. 1 \in 1..n /\ inflight[1].kind = "load"
    BY <1>1, RetiredInflight DEF CommitLoad, Retires
  <2> QED BY <2>1, OwnEntries DEF Loads, Stores
<1>4. LQPlaced' /\ SQPlaced'
  BY <1>1, <1>3, RetiredPlaced DEF LQPlaced, SQPlaced, sqVars
<1>5. NoLoad \in LoadEntry /\ ~NoLoad.valid
  BY OriginType, LoadStoreUnitAssumption DEF NoLoad, LoadEntry
<1>6. lq_head.idx \in 0..(LQsize - 1) /\ Advance(lq_head, LQsize) \in Pointer(LQsize)
  BY AdvanceType, LoadStoreUnitAssumption DEF TypeOK, Pointer
<1>7. TypeOK'
  <2>1. LQ' \in [0..(LQsize - 1) -> LoadEntry]
    BY <1>1, <1>5, <1>6 DEF TypeOK
  <2>2. lq_length' \in 0..LQsize
    BY <1>4 DEF LQPlaced, Placed
  <2> QED BY <1>1, <1>2, <1>6, <2>1, <2>2 DEF TypeOK, sqVars
<1>8. \A l \in 0..(LQsize - 1) : LQ'[l] = IF l = lq_head.idx THEN NoLoad ELSE LQ[l]
  BY <1>1, <1>6 DEF TypeOK
<1>9. \A j \in Loads' : /\ inflight'[j] = inflight[j + 1] /\ j + 1 \in Loads
                        /\ inflight[j + 1].lq.idx # lq_head.idx
                        /\ inflight[j + 1].lq.idx \in 0..(LQsize - 1)
  <2> SUFFICES ASSUME NEW j \in Loads'
               PROVE  /\ inflight'[j] = inflight[j + 1] /\ j + 1 \in Loads
                      /\ inflight[j + 1].lq.idx # lq_head.idx
                      /\ inflight[j + 1].lq.idx \in 0..(LQsize - 1)
    OBVIOUS
  <2>1. j \in 1..(n - 1) /\ j + 1 # 1 /\ inflight'[j] = inflight[j + 1] /\ j + 1 \in Loads
    BY <1>2
  <2>2. inflight[j + 1].lq.idx # inflight[1].lq.idx
    BY <1>3, <2>1, OwnEntries
  <2> QED BY <1>3, <2>1, <2>2, InflightType
<1>10. \A i \in Loads : i # 1 => i - 1 \in Loads' /\ inflight'[i - 1] = inflight[i]
  <2> SUFFICES ASSUME NEW i \in Loads, i # 1
               PROVE  i - 1 \in Loads' /\ inflight'[i - 1] = inflight[i]
    OBVIOUS
  <2>1. i \in 1..n
    BY DEF Loads
  <2>2. i - 1 \in 1..(n - 1) /\ (i - 1) + 1 = i
    BY <1>2, <2>1
  <2> QED BY <1>2, <2>2
<1>11. LQValid'
  <2> SUFFICES ASSUME NEW l \in 0..(LQsize - 1)
               PROVE  LQ'[l].valid <=> \E j \in Loads' : inflight'[j].lq.idx = l
    BY DEF LQValid
  <2>1. CASE l = lq_head.idx
    BY <1>5, <1>8, <1>9, <2>1
  <2>2. CASE l # lq_head.idx
    <3>1. LQ'[l].valid <=> \E i \in Loads : inflight[i].lq.idx = l
      BY <1>8, <2>2 DEF InOrder, LQValid
    <3>2. (\E i \in Loads : inflight[i].lq.idx = l) => \E j \in Loads' : inflight'[j].lq.idx = l
      BY <1>3, <1>10, <2>2
    <3>3. (\E j \in Loads' : inflight'[j].lq.idx = l) => \E i \in Loads : inflight[i].lq.idx = l
      BY <1>9
    <3> QED BY <3>1, <3>2, <3>3
  <2> QED BY <2>1, <2>2
<1>12. SQValid'
  <2>1. \A j \in Stores' : inflight'[j] = inflight[j + 1] /\ j + 1 \in Stores
    BY <1>2
  <2>2. \A i \in Stores : i - 1 \in Stores' /\ inflight'[i - 1] = inflight[i]
    <3> SUFFICES ASSUME NEW i \in Stores
                 PROVE  i - 1 \in Stores' /\ inflight'[i - 1] = inflight[i]
      OBVIOUS
    <3>1. i \in 1..n /\ i # 1
      BY <1>3 DEF Stores
    <3>2. i - 1 \in 1..(n - 1) /\ (i - 1) + 1 = i
      BY <1>2, <3>1
    <3> QED BY <1>2, <3>2
  <2>3. SQ' = SQ
    BY <1>1 DEF sqVars
  <2>4. \A s : (\E i \in Stores : inflight[i].sq.idx = s) <=> (\E j \in Stores' : inflight'[j].sq.idx = s)
    BY <2>1, <2>2
  <2> QED BY <2>3, <2>4 DEF InOrder, SQValid
<1>13. LoadsKnowOlderStores'
  BY <1>8, <1>9 DEF InOrder, LoadsKnowOlderStores
<1> QED BY <1>4, <1>7, <1>11, <1>12, <1>13 DEF InOrder

\* The oldest store gives up the entry at the SQ's head.
LEMMA CommitStoreStep ==
  ASSUME TypeOK, InOrder, CommitStore
  PROVE  TypeOK' /\ InOrder'
<1> DEFINE n == Len(inflight)
           store == SQ[sq_head.idx]
<1>1. /\ inflight # <<>> /\ inflight' = Tail(inflight)
      /\ SQ' = [SQ EXCEPT ![sq_head.idx] = NoStore]
      /\ sq_head' = Advance(sq_head, SQsize) /\ sq_length' = sq_length - 1
      /\ UNCHANGED <<sq_tail, lqVars>>
  BY DEF CommitStore, Retires
<1>2. /\ inflight' \in Seq(Payload) /\ Len(inflight') = n - 1 /\ Len(inflight') <= ActiveListSize
      /\ \A j \in 1..(n - 1) : /\ inflight'[j] = inflight[j + 1]
                               /\ (j \in Loads' <=> j + 1 \in Loads)
                               /\ (j \in Stores' <=> j + 1 \in Stores)
      /\ Loads' \in SUBSET (1..(n - 1)) /\ Stores' \in SUBSET (1..(n - 1))
      /\ \A i \in 1..n : i # 1 => i - 1 \in 1..(n - 1) /\ (i - 1) + 1 = i
  BY <1>1, RetiredInflight
<1>3. 1 \in Stores /\ 1 \notin Loads /\ inflight[1].sq = sq_head
  <2>1. 1 \in 1..n /\ inflight[1].kind = "store"
    BY <1>1, RetiredInflight DEF CommitStore, Retires
  <2> QED BY <2>1, OwnEntries DEF Loads, Stores
<1>4. LQPlaced' /\ SQPlaced'
  BY <1>1, <1>3, RetiredPlaced DEF LQPlaced, SQPlaced, lqVars
<1>5. NoStore \in StoreEntry /\ ~NoStore.valid
  BY DEF NoStore, StoreEntry
<1>6. sq_head.idx \in 0..(SQsize - 1) /\ Advance(sq_head, SQsize) \in Pointer(SQsize)
  BY AdvanceType, LoadStoreUnitAssumption DEF TypeOK, Pointer
<1>7. TypeOK'
  <2>1. SQ' \in [0..(SQsize - 1) -> StoreEntry]
    BY <1>1, <1>5, <1>6 DEF TypeOK
  <2>2. sq_length' \in 0..SQsize
    BY <1>4 DEF SQPlaced, Placed
  <2>3. memory' \in [Byte -> Value]
    <3>1. store \in StoreEntry /\ store.value # NoValue
      BY <1>3, <1>6 DEF CommitStore, TypeOK
    <3>2. store.value \in Value
      BY <3>1 DEF StoreEntry
    <3>3. memory' = [b \in Byte |-> IF b \in BytesOf(store.access) THEN store.value ELSE memory[b]]
      BY DEF CommitStore
    <3> HIDE DEF store
    <3> QED BY <3>2, <3>3 DEF TypeOK
  <2> QED BY <1>1, <1>2, <1>6, <2>1, <2>2, <2>3 DEF TypeOK, lqVars
<1>8. \A s \in 0..(SQsize - 1) : SQ'[s] = IF s = sq_head.idx THEN NoStore ELSE SQ[s]
  BY <1>1, <1>6 DEF TypeOK
<1>9. \A j \in Stores' : /\ inflight'[j] = inflight[j + 1] /\ j + 1 \in Stores
                         /\ inflight[j + 1].sq.idx # sq_head.idx
  <2> SUFFICES ASSUME NEW j \in Stores'
               PROVE  /\ inflight'[j] = inflight[j + 1] /\ j + 1 \in Stores
                      /\ inflight[j + 1].sq.idx # sq_head.idx
    OBVIOUS
  <2>1. j \in 1..(n - 1) /\ j + 1 # 1 /\ inflight'[j] = inflight[j + 1] /\ j + 1 \in Stores
    BY <1>2
  <2>2. inflight[j + 1].sq.idx # inflight[1].sq.idx
    BY <1>3, <2>1, OwnEntries
  <2> QED BY <1>3, <2>1, <2>2
<1>10. \A i \in Stores : i # 1 => i - 1 \in Stores' /\ inflight'[i - 1] = inflight[i]
  <2> SUFFICES ASSUME NEW i \in Stores, i # 1
               PROVE  i - 1 \in Stores' /\ inflight'[i - 1] = inflight[i]
    OBVIOUS
  <2>1. i \in 1..n
    BY DEF Stores
  <2>2. i - 1 \in 1..(n - 1) /\ (i - 1) + 1 = i
    BY <1>2, <2>1
  <2> QED BY <1>2, <2>2
<1>11. SQValid'
  <2> SUFFICES ASSUME NEW s \in 0..(SQsize - 1)
               PROVE  SQ'[s].valid <=> \E j \in Stores' : inflight'[j].sq.idx = s
    BY DEF SQValid
  <2>1. CASE s = sq_head.idx
    BY <1>5, <1>8, <1>9, <2>1
  <2>2. CASE s # sq_head.idx
    <3>1. SQ'[s].valid <=> \E i \in Stores : inflight[i].sq.idx = s
      BY <1>8, <2>2 DEF InOrder, SQValid
    <3>2. (\E i \in Stores : inflight[i].sq.idx = s) => \E j \in Stores' : inflight'[j].sq.idx = s
      BY <1>3, <1>10, <2>2
    <3>3. (\E j \in Stores' : inflight'[j].sq.idx = s) => \E i \in Stores : inflight[i].sq.idx = s
      BY <1>9
    <3> QED BY <3>1, <3>2, <3>3
  <2> QED BY <2>1, <2>2
<1>12. \A j \in Loads' : inflight'[j] = inflight[j + 1] /\ j + 1 \in Loads
  BY <1>2
<1>13. LQValid'
  <2>2. \A i \in Loads : i - 1 \in Loads' /\ inflight'[i - 1] = inflight[i]
    <3> SUFFICES ASSUME NEW i \in Loads
                 PROVE  i - 1 \in Loads' /\ inflight'[i - 1] = inflight[i]
      OBVIOUS
    <3>1. i \in 1..n /\ i # 1
      BY <1>3 DEF Loads
    <3>2. i - 1 \in 1..(n - 1) /\ (i - 1) + 1 = i
      BY <1>2, <3>1
    <3> QED BY <1>2, <3>2
  <2>3. LQ' = LQ
    BY <1>1 DEF lqVars
  <2>4. \A l : (\E i \in Loads : inflight[i].lq.idx = l) <=> (\E j \in Loads' : inflight'[j].lq.idx = l)
    BY <1>12, <2>2
  <2> QED BY <2>3, <2>4 DEF InOrder, LQValid
<1>14. LoadsKnowOlderStores'
  BY <1>1, <1>12 DEF InOrder, LoadsKnowOlderStores, lqVars
<1> QED BY <1>4, <1>7, <1>11, <1>13, <1>14 DEF InOrder

\* A branch that retires has no entry to give up.
LEMMA RetireBranchStep ==
  ASSUME TypeOK, InOrder, RetireBranch
  PROVE  TypeOK' /\ InOrder'
<1> DEFINE n == Len(inflight)
<1>1. /\ inflight # <<>> /\ inflight' = Tail(inflight)
      /\ UNCHANGED <<lqVars, sqVars, memory>>
  BY DEF RetireBranch, Retires
<1>2. /\ inflight' \in Seq(Payload) /\ Len(inflight') = n - 1 /\ Len(inflight') <= ActiveListSize
      /\ \A j \in 1..(n - 1) : /\ inflight'[j] = inflight[j + 1]
                               /\ (j \in Loads' <=> j + 1 \in Loads)
                               /\ (j \in Stores' <=> j + 1 \in Stores)
      /\ Loads' \in SUBSET (1..(n - 1)) /\ Stores' \in SUBSET (1..(n - 1))
      /\ \A i \in 1..n : i # 1 => i - 1 \in 1..(n - 1) /\ (i - 1) + 1 = i
  BY <1>1, RetiredInflight
<1>3. 1 \notin Stores /\ 1 \notin Loads
  <2>1. inflight[1].kind = "branch"
    BY <1>1, RetiredInflight DEF RetireBranch, Retires
  <2> QED BY <2>1 DEF Loads, Stores
<1>4. LQPlaced' /\ SQPlaced'
  BY <1>1, <1>3, RetiredPlaced DEF LQPlaced, SQPlaced, lqVars, sqVars
<1>5. TypeOK'
  BY <1>1, <1>2 DEF TypeOK, lqVars, sqVars
<1>6. /\ \A j \in Loads' : inflight'[j] = inflight[j + 1] /\ j + 1 \in Loads
      /\ \A j \in Stores' : inflight'[j] = inflight[j + 1] /\ j + 1 \in Stores
  BY <1>2
<1>7. \A i \in Loads \cup Stores : /\ inflight'[i - 1] = inflight[i]
                                   /\ i \in Loads => i - 1 \in Loads'
                                   /\ i \in Stores => i - 1 \in Stores'
  <2> SUFFICES ASSUME NEW i \in Loads \cup Stores
               PROVE  /\ inflight'[i - 1] = inflight[i]
                      /\ i \in Loads => i - 1 \in Loads'
                      /\ i \in Stores => i - 1 \in Stores'
    OBVIOUS
  <2>1. i \in 1..n /\ i # 1
    BY <1>3 DEF Loads, Stores
  <2>2. i - 1 \in 1..(n - 1) /\ (i - 1) + 1 = i
    BY <1>2, <2>1
  <2> QED BY <1>2, <2>2
<1>8. \A s : /\ (\E i \in Loads : inflight[i].lq.idx = s) <=> (\E j \in Loads' : inflight'[j].lq.idx = s)
             /\ (\E i \in Stores : inflight[i].sq.idx = s) <=> (\E j \in Stores' : inflight'[j].sq.idx = s)
  BY <1>6, <1>7
<1>9. LQ' = LQ /\ SQ' = SQ
  BY <1>1 DEF lqVars, sqVars
<1>10. LQValid' /\ SQValid'
  BY <1>8, <1>9 DEF InOrder, LQValid, SQValid
<1>11. LoadsKnowOlderStores'
  BY <1>6, <1>9 DEF InOrder, LoadsKnowOlderStores
<1> QED BY <1>4, <1>5, <1>10, <1>11 DEF InOrder

\* Empty queues, when nothing is in flight.
EmptyState ==
  /\ LQ = [l \in 0..(LQsize - 1) |-> NoLoad] /\ SQ = [s \in 0..(SQsize - 1) |-> NoStore]
  /\ lq_head = Origin /\ lq_tail = Origin /\ lq_length = 0
  /\ sq_head = Origin /\ sq_tail = Origin /\ sq_length = 0
  /\ memory \in [Byte -> Value] /\ inflight = <<>>

\* The first state, and the one after a complete squash, satisfy the invariant.
LEMMA EmptyInOrder == EmptyState => TypeOK /\ InOrder
<1> SUFFICES ASSUME EmptyState PROVE TypeOK /\ InOrder
  OBVIOUS
<1> USE DEF EmptyState
<1>1. /\ Origin \in Pointer(LQsize) /\ Origin \in Pointer(SQsize)
      /\ LQsize \in Nat \ {0} /\ SQsize \in Nat \ {0} /\ ActiveListSize \in Nat \ {0}
  BY OriginType, LoadStoreUnitAssumption
<1>2. NoLoad \in LoadEntry /\ ~NoLoad.valid /\ NoStore \in StoreEntry /\ ~NoStore.valid
  BY <1>1 DEF NoLoad, LoadEntry, NoStore, StoreEntry
<1>3. inflight \in Seq(Payload) /\ Len(inflight) = 0
  BY EmptySeq
<1>4. TypeOK
  BY <1>1, <1>2, <1>3 DEF TypeOK
<1>5. 1..Len(inflight) = {} /\ Loads = {} /\ Stores = {}
  BY <1>3 DEF Loads, Stores
<1>6. Cardinality({}) = 0
  BY FS_EmptySet
<1>7. AdvanceBy(Origin, 0, LQsize) = Origin /\ AdvanceBy(Origin, 0, SQsize) = Origin
  BY <1>1, AdvanceByType
<1>8. LQPlaced /\ SQPlaced
  BY <1>1, <1>5, <1>6, <1>7 DEF LQPlaced, SQPlaced, Placed
<1> QED BY <1>2, <1>4, <1>5, <1>8 DEF InOrder, LQValid, SQValid, LoadsKnowOlderStores

\* A step keeps the types and the order of the queues.
LEMMA InOrderStep == TypeOK /\ InOrder /\ [Next]_vars => (TypeOK /\ InOrder)'
<1> SUFFICES ASSUME TypeOK, InOrder, [Next]_vars
             PROVE  TypeOK' /\ InOrder'
  OBVIOUS
<1>1. ASSUME NEW mdp_stall \in BOOLEAN, DispatchLoad(mdp_stall) PROVE TypeOK' /\ InOrder'
  BY <1>1, DispatchLoadStep
<1>2. CASE DispatchStore
  BY <1>2, DispatchStoreStep
<1>3. CASE DispatchBranch
  BY <1>3, DispatchBranchStep
<1>4. ASSUME NEW i \in 1..Len(inflight), NEW access \in Accesses, NEW fault \in BOOLEAN,
             StoreAddr(i, access, fault)
      PROVE  TypeOK' /\ InOrder'
  BY <1>4, StoreAddrStep
<1>5. ASSUME NEW i \in 1..Len(inflight), NEW value \in Value, StoreValue(i, value)
      PROVE  TypeOK' /\ InOrder'
  BY <1>5, StoreValueStep
<1>6. ASSUME NEW i \in 1..Len(inflight), NEW access \in Accesses, NEW loading \in BOOLEAN,
             NEW fault \in BOOLEAN, LoadAddr(i, access, loading, fault)
      PROVE  TypeOK' /\ InOrder'
  BY <1>6, LoadAddrStep
<1>7. ASSUME NEW i \in Waiting, NEW fault \in BOOLEAN, LoadUnstall(i, fault)
      PROVE  TypeOK' /\ InOrder'
  BY <1>7, LoadUnstallStep
<1>8. ASSUME NEW i \in 1..Len(inflight), ResolveCorrect(i) PROVE TypeOK' /\ InOrder'
  BY <1>8, ResolveCorrectStep
<1>9. ASSUME NEW i \in 1..Len(inflight), Restore(i) PROVE TypeOK' /\ InOrder'
  BY <1>9, RestoreStep
<1>10. CASE CommitLoad
  BY <1>10, CommitLoadStep
<1>11. CASE CommitStore
  BY <1>11, CommitStoreStep
<1>12. CASE RetireBranch
  BY <1>12, RetireBranchStep
<1>13. CASE SquashComplete
  <2>1. EmptyState'
    BY <1>13 DEF SquashComplete, EmptyQueues, EmptyState, TypeOK
  <2> QED BY <2>1, EmptyInOrder, PTL
<1>14. CASE UNCHANGED vars
  <2>1. TypeOK'
    BY <1>14 DEF vars, lqVars, sqVars, TypeOK
  <2>2. Loads' = Loads /\ Stores' = Stores /\ lqs' = lqs /\ sqs' = sqs
    BY <1>14 DEF vars, Loads, Stores, lqs, sqs
  <2>3. LQPlaced' /\ SQPlaced'
    BY <1>14, <2>2 DEF InOrder, vars, lqVars, sqVars, LQPlaced, SQPlaced
  <2>4. LQValid' /\ SQValid' /\ LoadsKnowOlderStores'
    BY <1>14, <2>2 DEF InOrder, vars, lqVars, sqVars, LQValid, SQValid, LoadsKnowOlderStores
  <2> QED BY <2>1, <2>3, <2>4 DEF InOrder
<1> QED
  BY <1>1, <1>2, <1>3, <1>4, <1>5, <1>6, <1>7, <1>8, <1>9, <1>10, <1>11, <1>12, <1>13, <1>14 DEF Next

\* TypeOK holds in every reachable state, and so does the order of the queues.
LEMMA QueuesInvariant == Spec => [](TypeOK /\ InOrder)
<1>1. Init => TypeOK /\ InOrder
  <2>1. Init => EmptyState
    BY DEF Init, EmptyState
  <2> QED BY <2>1, EmptyInOrder
<1> QED BY <1>1, InOrderStep, PTL DEF Spec

\* The types of the queues, of memory and of what is in flight: lengths stay within the sizes,
\* pointers within the queues, and no entry is used that is not there.
THEOREM TypeCorrect == Spec => []TypeOK
BY QueuesInvariant, PTL

\* Whatever is dispatched, executed, restored, squashed or retired, the LQ and the SQ hold
\* exactly the loads and the stores in flight, in program order, and the pointer a load has to
\* the SQ separates its older stores from the others.
THEOREM QueuesInOrder == Spec => []QueuesHoldSurvivors
<1>1. TypeOK /\ InOrder => QueuesHoldSurvivors
  BY InOrderIsQueuesHoldSurvivors
<1> QED BY <1>1, QueuesInvariant, PTL

-----------------------------------------------------------------------------
(* What a load reads: the arithmetic of addresses and ages *)

\* Accesses of the same size that conflict are the same access.
LEMMA ConflictSameSize ==
  ASSUME NEW a \in Accesses, NEW b \in Accesses, Conflict(a, b), a[2] = b[2]
  PROVE  a = b
<1>1. /\ a = <<a[1], a[2]>> /\ b = <<b[1], b[2]>>
      /\ a[1] \in Nat /\ b[1] \in Nat /\ a[2] \in {1, 2, 4, 8}
  BY LoadStoreUnitAssumption
<1>2. a[1] % a[2] = 0 /\ b[1] % b[2] = 0
  BY LoadStoreUnitAssumption
<1>3. a[1] \div a[2] = b[1] \div a[2]
  BY <1>1 DEF Conflict
<1>4. a[1] = b[1]
  <2>1. CASE a[2] = 1
    BY <1>1, <1>2, <1>3, <2>1
  <2>2. CASE a[2] = 2
    BY <1>1, <1>2, <1>3, <2>2
  <2>3. CASE a[2] = 4
    BY <1>1, <1>2, <1>3, <2>3
  <2>4. CASE a[2] = 8
    BY <1>1, <1>2, <1>3, <2>4
  <2> QED BY <1>1, <2>1, <2>2, <2>3, <2>4
<1> QED BY <1>1, <1>4

\* An aligned access lies in one block of any larger size.
LEMMA BlockOfByte ==
  ASSUME NEW x \in Nat, NEW s \in {1, 2, 4, 8}, NEW m \in {1, 2, 4, 8}, s <= m,
         x % s = 0, NEW y \in x..(x + s - 1)
  PROVE  y \div m = x \div m
<1>1. CASE m = 1
  BY <1>1
<1>2. CASE m = 2
  BY <1>2
<1>3. CASE m = 4
  BY <1>3
<1>4. CASE m = 8
  BY <1>4
<1> QED BY <1>1, <1>2, <1>3, <1>4

\* Accesses that do not conflict have no byte in common.
LEMMA ConflictOfBytes ==
  ASSUME NEW a \in Accesses, NEW b \in Accesses, ~Conflict(a, b)
  PROVE  BytesOf(a) \cap BytesOf(b) = {}
<1>1. /\ a[1] \in Nat /\ b[1] \in Nat /\ a[2] \in {1, 2, 4, 8} /\ b[2] \in {1, 2, 4, 8}
      /\ a[1] % a[2] = 0 /\ b[1] % b[2] = 0
  BY LoadStoreUnitAssumption
<1>2. SUFFICES ASSUME NEW y \in BytesOf(a), y \in BytesOf(b) PROVE FALSE
  OBVIOUS
<1>3. PICK m \in {1, 2, 4, 8} : m = IF a[2] >= b[2] THEN a[2] ELSE b[2]
  BY <1>1
<1>4. a[2] <= m /\ b[2] <= m
  BY <1>1, <1>3
<1>5. y \div m = a[1] \div m
  BY <1>1, <1>4, BlockOfByte DEF BytesOf
<1>6. y \div m = b[1] \div m
  BY <1>1, <1>2, <1>4, BlockOfByte DEF BytesOf
<1> QED BY <1>3, <1>5, <1>6 DEF Conflict

\* The distance of one slot from another, modulo the size, is the difference of their places.
LEMMA SlotAge ==
  ASSUME NEW N \in Nat \ {0}, NEW h \in Pointer(N), NEW c \in 0..(N - 1), NEW a \in 0..c
  PROVE  (AdvanceBy(h, c, N).idx + N - AdvanceBy(h, a, N).idx) % N = c - a
<1>1. /\ h.idx \in 0..(N - 1) /\ c \in 0..N /\ a \in 0..N
      /\ AdvanceBy(h, c, N).idx = IF h.idx + c < N THEN h.idx + c ELSE h.idx + c - N
      /\ AdvanceBy(h, a, N).idx = IF h.idx + a < N THEN h.idx + a ELSE h.idx + a - N
  <2>1. c \in 0..N /\ a \in 0..N
    OBVIOUS
  <2> QED BY <2>1, AdvanceByIsOnward DEF Pointer, Onward
<1>2. PICK x \in 0..(2 * N - 1) : x = AdvanceBy(h, c, N).idx + N - AdvanceBy(h, a, N).idx
  BY <1>1
<1>3. x % N = IF x < N THEN x ELSE x - N
  BY ModOnce
<1>4. x = c - a \/ x = c - a + N
  BY <1>1, <1>2
<1>5. x % N = c - a
  BY <1>3, <1>4
<1> QED BY <1>2, <1>5

\* The entries of the loads in flight.
LoadOf(i)  == LQ[inflight[i].lq.idx]
\* The entries of the stores in flight.
StoreOf(j) == SQ[inflight[j].sq.idx]

\* They are entries of the queues.
LEMMA EntryTypes ==
  ASSUME TypeOK, NEW i \in 1..Len(inflight)
  PROVE  LoadOf(i) \in LoadEntry /\ StoreOf(i) \in StoreEntry
BY InflightType DEF TypeOK, LoadOf, StoreOf

\* The place of what an instruction recorded, counted from the head.
LEMMA PlaceInQueue ==
  ASSUME TypeOK, InOrder, NEW i \in 1..Len(inflight)
  PROVE  /\ Count(Loads, i) \in 0..LQsize /\ Count(Stores, i) \in 0..SQsize
         /\ inflight[i].lq = AdvanceBy(lq_head, Count(Loads, i), LQsize)
         /\ inflight[i].sq = AdvanceBy(sq_head, Count(Stores, i), SQsize)
         /\ i \in Loads => Count(Loads, i) \in 0..(LQsize - 1)
         /\ i \in Stores => Count(Stores, i) \in 0..(SQsize - 1)
         /\ \A k \in Loads : i < k => Count(Loads, i) <= Count(Loads, k)
         /\ \A k \in 1..Len(inflight) : i \in Loads /\ i < k => Count(Loads, i) < Count(Loads, k)
         /\ \A k \in 1..Len(inflight) : i \in Stores /\ i < k => Count(Stores, i) < Count(Stores, k)
<1> DEFINE n == Len(inflight)
<1>1. n \in Nat /\ Loads \in SUBSET (1..n) /\ Stores \in SUBSET (1..n) /\ i \in Int /\ i \in 1..n
  BY InflightType
<1>2. /\ Cardinality(Loads) \in 0..LQsize /\ Cardinality(Stores) \in 0..SQsize
      /\ lqs[i] = AdvanceBy(lq_head, Count(Loads, i), LQsize)
      /\ sqs[i] = AdvanceBy(sq_head, Count(Stores, i), SQsize)
  BY DEF InOrder, LQPlaced, SQPlaced, Placed
<1>3. LQsize \in Nat /\ SQsize \in Nat
  BY LoadStoreUnitAssumption
<1>4. Count(Loads, i) \in 0..Cardinality(Loads) /\ Count(Stores, i) \in 0..Cardinality(Stores)
  BY <1>1, CountType
<1>5. Count(Loads, n + 1) = Cardinality(Loads) /\ Count(Stores, n + 1) = Cardinality(Stores)
  BY <1>1, CountAll
<1>6. \A S \in SUBSET (1..n) : \A k \in Int : i < k =>
        /\ Count(S, i) <= Count(S, k)
        /\ i \in S => Count(S, i) < Count(S, k)
  <2> SUFFICES ASSUME NEW S \in SUBSET (1..n), NEW k \in Int, i < k
               PROVE  /\ Count(S, i) <= Count(S, k)
                      /\ i \in S => Count(S, i) < Count(S, k)
    OBVIOUS
  <2>1. i <= k
    BY <1>1
  <2> QED BY <1>1, <2>1, CountGrows
<1>7. /\ i \in Loads => Count(Loads, i) < Count(Loads, n + 1)
      /\ i \in Stores => Count(Stores, i) < Count(Stores, n + 1)
  <2>1. n + 1 \in Int /\ i < n + 1
    BY <1>1
  <2> QED BY <1>1, <1>6, <2>1
<1>8. \A k \in 1..n : k \in Int
  BY <1>1
<1>9. /\ \A k \in Loads : i < k => Count(Loads, i) <= Count(Loads, k)
      /\ \A k \in 1..n : i \in Loads /\ i < k => Count(Loads, i) < Count(Loads, k)
      /\ \A k \in 1..n : i \in Stores /\ i < k => Count(Stores, i) < Count(Stores, k)
  BY <1>1, <1>6, <1>8
<1> HIDE DEF n
<1>10. Count(Loads, i) \in 0..LQsize /\ Count(Stores, i) \in 0..SQsize
  BY <1>2, <1>3, <1>4
<1>11. /\ i \in Loads => Count(Loads, i) \in 0..(LQsize - 1)
       /\ i \in Stores => Count(Stores, i) \in 0..(SQsize - 1)
  BY <1>2, <1>3, <1>4, <1>5, <1>7
<1>12. inflight[i].lq = lqs[i] /\ inflight[i].sq = sqs[i]
  BY InflightType
<1> QED BY <1>2, <1>9, <1>10, <1>11, <1>12 DEF n

\* Of two stores, the one farther from the head of the SQ is the younger.
LEMMA StoreAgeIsOrder ==
  ASSUME TypeOK, InOrder, NEW j \in Stores, NEW k \in Stores,
         StoreAge(inflight[j].sq.idx) <= StoreAge(inflight[k].sq.idx)
  PROVE  j <= k
<1>1. j \in 1..Len(inflight) /\ k \in 1..Len(inflight) /\ Len(inflight) \in Nat
  BY InflightType
<1>2. SQsize \in Nat \ {0} /\ sq_head \in Pointer(SQsize)
  BY LoadStoreUnitAssumption DEF TypeOK
<1>3. AdvanceBy(sq_head, 0, SQsize) = sq_head
  <2>1. 0 \in 0..SQsize
    BY <1>2
  <2> QED BY <1>2, <2>1, AdvanceByType
<1>4. ASSUME NEW i \in Stores PROVE StoreAge(inflight[i].sq.idx) = Count(Stores, i)
  <2>1. i \in 1..Len(inflight)
    BY InflightType
  <2>2. /\ Count(Stores, i) \in 0..(SQsize - 1)
        /\ inflight[i].sq = AdvanceBy(sq_head, Count(Stores, i), SQsize)
    BY <2>1, PlaceInQueue
  <2>3. 0 \in 0..Count(Stores, i)
    BY <2>2
  <2>4. (AdvanceBy(sq_head, Count(Stores, i), SQsize).idx + SQsize
           - AdvanceBy(sq_head, 0, SQsize).idx) % SQsize = Count(Stores, i) - 0
    BY <1>2, <2>2, <2>3, SlotAge
  <2> QED BY <1>3, <2>2, <2>4 DEF StoreAge
<1>5. Count(Stores, j) <= Count(Stores, k) /\ Count(Stores, j) \in Nat /\ Count(Stores, k) \in Nat
  BY <1>1, <1>4, PlaceInQueue
<1>6. k < j => Count(Stores, k) < Count(Stores, j)
  BY <1>1, PlaceInQueue
<1> QED BY <1>1, <1>5, <1>6

\* The stores at which a load may stop are older stores, and those it overlaps.
LEMMA DecidingStores ==
  ASSUME TypeOK, InOrder, NEW i \in 1..Len(inflight), NEW load, load.sq = inflight[i].sq
  PROVE  \A s : s \in Deciding(load)
           <=> \E j \in OlderOf(Stores, i) :
                 /\ s = inflight[j].sq.idx
                 /\ IF StoreOf(j).access = NoAccess THEN load.mdp_stall
                                                    ELSE Conflict(StoreOf(j).access, load.access)
<1> DEFINE n == Len(inflight)
           P == 1..n
<1>1. n \in Nat /\ P \in SUBSET (1..n) /\ Stores \in SUBSET P /\ i \in P
  BY InflightType
<1>2. /\ SQsize \in Nat \ {0} /\ sq_head \in Pointer(SQsize)
      /\ Placed(sqs, Stores, P, sq_head, sq_tail, sq_length, SQsize)
  BY LoadStoreUnitAssumption DEF TypeOK, InOrder, SQPlaced
<1>3. sqs[i] = inflight[i].sq /\ \A j \in Stores : sqs[j].idx = inflight[j].sq.idx
  BY InflightType
<1> HIDE DEF n, P
<1>4. DividedAt(i, sqs, Stores, sq_head, sq_tail, SQsize)
  BY <1>1, <1>2, PlacedSlots, Zenon
<1>5. Slots(sq_head, load.sq, SQsize) = {sqs[j].idx : j \in OlderOf(Stores, i)}
  BY <1>3, <1>4 DEF DividedAt, OlderEntries, OlderOf
<1>6. \A j \in OlderOf(Stores, i) : sqs[j].idx = inflight[j].sq.idx
  BY <1>3 DEF OlderOf
<1> QED BY <1>5, <1>6 DEF Deciding, StoreOf

\* A store address that arrives flags, if any load is wrong, one of those wrong or older.
LEMMA ViolatedIsFlagged ==
  ASSUME TypeOK, InOrder, NEW j \in 1..Len(inflight), NEW i \in Loads, j < i, NEW access,
         LoadOf(i).access # NoAccess, LoadOf(i).value # NoValue, Conflict(access, LoadOf(i).access)
  PROVE  \E k \in Loads : k <= i /\ inflight[k].lq.idx \in Violated(inflight[j].lq, access)
<1> DEFINE n == Len(inflight)
           P == 1..n
           from == inflight[j].lq
           hits == {l \in Slots(from, lq_tail, LQsize) :
                      LQ[l].access # NoAccess /\ LQ[l].value # NoValue
                      /\ Conflict(access, LQ[l].access)}
           T == {LoadAge(from, l) : l \in hits}
<1>1. n \in Nat /\ P \in SUBSET (1..n) /\ Loads \in SUBSET P /\ j \in P
  BY InflightType
<1>2. /\ LQsize \in Nat \ {0} /\ lq_head \in Pointer(LQsize)
      /\ Placed(lqs, Loads, P, lq_head, lq_tail, lq_length, LQsize)
  BY LoadStoreUnitAssumption DEF TypeOK, InOrder, LQPlaced
<1>3. lqs[j] = from /\ \A k \in Loads : lqs[k].idx = inflight[k].lq.idx
  BY InflightType
<1>4. DividedAt(j, lqs, Loads, lq_head, lq_tail, LQsize)
  <2> HIDE DEF n, P
  <2> QED BY <1>1, <1>2, PlacedSlots, Zenon
<1>5. \A l : l \in Slots(from, lq_tail, LQsize) <=> \E k \in Loads : k >= j /\ l = inflight[k].lq.idx
  <2> HIDE DEF from
  <2>1. Slots(from, lq_tail, LQsize) = {lqs[k].idx : k \in {m \in Loads : m >= j}}
    BY <1>3, <1>4 DEF DividedAt, OtherEntries
  <2> QED BY <1>3, <2>1
<1>6. ASSUME NEW k \in Loads, k >= j
      PROVE  LoadAge(from, inflight[k].lq.idx) = Count(Loads, k) - Count(Loads, j)
  <2>1. k \in 1..n /\ j \in 1..n /\ j \in Int /\ k \in Int
    BY <1>1
  <2>2. /\ Count(Loads, k) \in 0..(LQsize - 1) /\ Count(Loads, j) \in 0..LQsize
        /\ inflight[k].lq = AdvanceBy(lq_head, Count(Loads, k), LQsize)
        /\ from = AdvanceBy(lq_head, Count(Loads, j), LQsize)
        /\ j < k => Count(Loads, j) <= Count(Loads, k)
    BY <2>1, PlaceInQueue
  <2>3. Count(Loads, j) \in 0..Count(Loads, k)
    BY <1>6, <2>1, <2>2
  <2> HIDE DEF from
  <2>4. (AdvanceBy(lq_head, Count(Loads, k), LQsize).idx + LQsize
           - AdvanceBy(lq_head, Count(Loads, j), LQsize).idx) % LQsize
        = Count(Loads, k) - Count(Loads, j)
    BY <1>2, <2>2, <2>3, SlotAge
  <2> QED BY <2>2, <2>4 DEF LoadAge
<1>7. ASSUME NEW k \in Loads, k >= j
      PROVE  Count(Loads, k) \in Nat /\ Count(Loads, j) \in Nat /\ Count(Loads, k) - Count(Loads, j) \in Nat
  <2>1. k \in 1..n /\ j \in 1..n /\ j \in Int /\ k \in Int
    BY <1>1
  <2>2. /\ Count(Loads, k) \in 0..(LQsize - 1) /\ Count(Loads, j) \in 0..LQsize
        /\ j < k => Count(Loads, j) <= Count(Loads, k)
    BY <2>1, PlaceInQueue
  <2> QED BY <1>7, <2>1, <2>2
<1>8. i >= j /\ i \in 1..n
  BY <1>1
<1>9. inflight[i].lq.idx \in hits
  BY <1>5, <1>8 DEF LoadOf
<1>10. T \subseteq Nat /\ T # {}
  <2> SUFFICES ASSUME NEW l \in hits PROVE LoadAge(from, l) \in Nat
    BY <1>9
  <2>1. PICK k \in Loads : k >= j /\ l = inflight[k].lq.idx
    BY <1>5
  <2> QED BY <1>6, <1>7, <2>1
<1>11. PICK x \in T : \A y \in T : x <= y
  <2> HIDE DEF T
  <2> QED BY <1>10, LeastNat
<1>12. PICK l \in hits : x = LoadAge(from, l)
  BY <1>11
<1>13. l \in Violated(from, access)
  <2>1. \A m \in hits : LoadAge(from, l) <= LoadAge(from, m)
    BY <1>11, <1>12
  <2> QED BY <2>1 DEF Violated
<1>14. PICK k \in Loads : k >= j /\ l = inflight[k].lq.idx
  BY <1>5
<1>15. Count(Loads, k) <= Count(Loads, i)
  <2>1. LoadAge(from, l) <= LoadAge(from, inflight[i].lq.idx)
    BY <1>9, <1>11, <1>12
  <2>2. Count(Loads, k) - Count(Loads, j) <= Count(Loads, i) - Count(Loads, j)
    BY <1>6, <1>8, <1>14, <2>1
  <2> QED BY <1>7, <1>8, <1>14, <2>2
<1>16. k <= i
  <2>1. k \in 1..n /\ k \in Int /\ i \in Int
    BY <1>1, <1>8
  <2>2. i < k => Count(Loads, i) < Count(Loads, k)
    BY <1>8, <2>1, PlaceInQueue
  <2> QED BY <1>7, <1>8, <1>14, <1>15, <2>1, <2>2
<1> QED BY <1>13, <1>14, <1>16

-----------------------------------------------------------------------------
(* The values of loads *)

\* The older stores whose addresses are known to overlap an access of the i-th instruction.
Overlapped(i, access) ==
  {j \in OlderOf(Stores, i) :
     StoreOf(j).access # NoAccess /\ Conflict(StoreOf(j).access, access)}

\* Neither the i-th instruction nor an older one is flagged or excepting.
Clean(i) == \A k \in 1..i : ~inflight[k].load_viol /\ ~inflight[k].exception

\* The value is that of the youngest of them, which is the same access, or memory's.
RightValue(i, access, value) ==
  /\ Overlapped(i, access) = {} => \A b \in BytesOf(access) : value[b] = memory[b]
  /\ \A j \in Overlapped(i, access) :
       (\A k \in Overlapped(i, access) : k <= j)
       => /\ StoreOf(j).access = access /\ StoreOf(j).value # NoValue
          /\ \A b \in BytesOf(access) : value[b] = StoreOf(j).value

\* A load that does not speculate has gone ahead of no unknown store that it may overlap last.
UnknownAreOlder(i, access) ==
  \A j \in OlderOf(Stores, i) :
    StoreOf(j).access = NoAccess => \E k \in Overlapped(i, access) : j < k

\* The inductive form of UnflaggedLoadsAreRight.  It speaks of a load from its dispatch on, of
\* the older stores whose addresses are known so far, and of loads that do not speculate.
LoadIsRight(i) ==
  IF LoadOf(i).value = NoValue
  THEN ~inflight[i].exception /\ (SPEC_DISAMBIG \/ LoadOf(i).mdp_stall)
  ELSE /\ LoadOf(i).access # NoAccess
       /\ SPEC_DISAMBIG \/ UnknownAreOlder(i, LoadOf(i).access)
       /\ Clean(i) => RightValue(i, LoadOf(i).access, LoadOf(i).value)

\* Every load in flight is right.
LoadsAreRight == \A i \in Loads : LoadIsRight(i)

\* Of some stores in flight there is a youngest.
LEMMA YoungestStore ==
  ASSUME TypeOK, NEW W \in SUBSET (1..Len(inflight)), W # {}
  PROVE  \E j \in W : \A k \in W : k <= j
<1> DEFINE n == Len(inflight)
           T == {n - j : j \in W}
<1>1. n \in Nat /\ \A j \in W : j \in 1..n
  BY InflightType
<1>2. T \subseteq Nat /\ T # {}
  <2> SUFFICES ASSUME NEW j \in W PROVE n - j \in Nat
    OBVIOUS
  <2>1. n \in Nat /\ j \in 1..n
    BY <1>1
  <2> QED BY <2>1
<1>3. PICK x \in T : \A y \in T : x <= y
  <2> HIDE DEF T
  <2> QED BY <1>2, LeastNat
<1>4. PICK j \in W : x = n - j
  BY <1>3
<1>5. \A k \in W : n - j <= n - k
  BY <1>3, <1>4
<1> QED BY <1>1, <1>5

\* The invariant implies what the run checks.
LEMMA LoadsAreRightImplies ==
  ASSUME TypeOK, LoadsAreRight
  PROVE  UnflaggedLoadsAreRight
<1> SUFFICES ASSUME NEW i \in Loads, LoadOf(i).value # NoValue, Clean(i),
                    \A j \in OlderOf(Stores, i) : StoreOf(j).access # NoAccess
             PROVE  IF Writers(i) = {}
                    THEN \A b \in BytesOf(LoadOf(i).access) : LoadOf(i).value[b] = memory[b]
                    ELSE LET store == StoreOf(CHOOSE j \in Writers(i) : \A k \in Writers(i) : k <= j)
                         IN  /\ store.access = LoadOf(i).access
                             /\ \A b \in BytesOf(LoadOf(i).access) : LoadOf(i).value[b] = store.value
  BY DEF UnflaggedLoadsAreRight, LoadOf, StoreOf, Clean
<1>1. Writers(i) = Overlapped(i, LoadOf(i).access)
  BY DEF Writers, Overlapped, LoadOf, StoreOf
<1>2. RightValue(i, LoadOf(i).access, LoadOf(i).value)
  BY DEF LoadsAreRight, LoadIsRight
<1>3. CASE Writers(i) = {}
  BY <1>1, <1>2, <1>3 DEF RightValue
<1>4. CASE Writers(i) # {}
  <2>1. Writers(i) \in SUBSET (1..Len(inflight))
    BY DEF Writers, OlderOf, Stores
  <2>2. \E j \in Writers(i) : \A k \in Writers(i) : k <= j
    BY <1>4, <2>1, YoungestStore
  <2>3. PICK y : y = CHOOSE j \in Writers(i) : \A k \in Writers(i) : k <= j
    OBVIOUS
  <2>4. y \in Writers(i) /\ \A k \in Writers(i) : k <= y
    BY <2>2, <2>3
  <2>5. StoreOf(y).access = LoadOf(i).access
        /\ \A b \in BytesOf(LoadOf(i).access) : LoadOf(i).value[b] = StoreOf(y).value
    BY <1>1, <1>2, <2>4 DEF RightValue
  <2> QED BY <1>4, <2>3, <2>5
<1> QED BY <1>3, <1>4

\* What a load gets when it executes is right.
LEMMA ValueObtained ==
  ASSUME TypeOK, InOrder, NEW i \in Loads, NEW load \in LoadEntry, load.sq = inflight[i].sq,
         load.access # NoAccess, Outcome(load) # "stall", SPEC_DISAMBIG \/ load.mdp_stall
  PROVE  /\ SPEC_DISAMBIG \/ UnknownAreOlder(i, load.access)
         /\ RightValue(i, load.access, WithValue(load).value)
<1> DEFINE W == Overlapped(i, load.access)
           v == [b \in BytesOf(load.access) |->
                   IF Outcome(load) = "forward" THEN SQ[Youngest(Deciding(load))].value ELSE memory[b]]
<1>1. i \in 1..Len(inflight) /\ Len(inflight) \in Nat /\ load.access \in Accesses
  BY InflightType DEF LoadEntry
<1>2. \A s : s \in Deciding(load)
        <=> \E j \in OlderOf(Stores, i) :
              /\ s = inflight[j].sq.idx
              /\ IF StoreOf(j).access = NoAccess THEN load.mdp_stall
                                                 ELSE Conflict(StoreOf(j).access, load.access)
  BY <1>1, DecidingStores
<1>3. WithValue(load).value = v
  BY DEF WithValue, LoadEntry
<1>4. Outcome(load) \in {"memory", "stall", "forward"}
  BY DEF Outcome
<1>5. \A j \in W : inflight[j].sq.idx \in Deciding(load)
  BY <1>2 DEF Overlapped
<1>6. \A j \in OlderOf(Stores, i) : j \in Stores /\ j \in 1..Len(inflight)
  BY DEF OlderOf, Stores
<1>7. \A j \in OlderOf(Stores, i) : StoreOf(j).access = NoAccess /\ ~SPEC_DISAMBIG
                                    => inflight[j].sq.idx \in Deciding(load)
  BY <1>2
<1>8. CASE Outcome(load) = "memory"
  <2>1. Deciding(load) = {}
    BY <1>8 DEF Outcome
  <2>2. W = {} /\ (SPEC_DISAMBIG \/ UnknownAreOlder(i, load.access))
    <3>1. W = {}
      BY <1>5, <2>1
    <3>2. \A j \in OlderOf(Stores, i) : StoreOf(j).access = NoAccess => SPEC_DISAMBIG
      BY <1>7, <2>1
    <3> QED BY <3>1, <3>2 DEF UnknownAreOlder
  <2>3. \A b \in BytesOf(load.access) : v[b] = memory[b]
    BY <1>8
  <2> HIDE DEF v
  <2> QED BY <1>3, <2>2, <2>3 DEF RightValue
<1>9. CASE Outcome(load) = "forward"
  <2>1. PICK y : y = Youngest(Deciding(load))
    OBVIOUS
  <2>2. /\ y \in Deciding(load) /\ \A s \in Deciding(load) : StoreAge(s) <= StoreAge(y)
        /\ SQ[y].access \in Accesses /\ SQ[y].value \in Value /\ SQ[y].access[2] = load.access[2]
    BY <1>9, <2>1, OutcomeForward
  <2>3. PICK j \in OlderOf(Stores, i) :
          /\ y = inflight[j].sq.idx
          /\ IF StoreOf(j).access = NoAccess THEN load.mdp_stall
                                             ELSE Conflict(StoreOf(j).access, load.access)
    BY <1>2, <2>2
  <2>4. StoreOf(j).access # NoAccess /\ Conflict(StoreOf(j).access, load.access)
    BY <2>2, <2>3, LoadStoreUnitAssumption DEF StoreOf
  <2>5. j \in W /\ j \in Stores
    BY <1>6, <2>4 DEF Overlapped
  <2>6. StoreOf(j).access = load.access
    BY <1>1, <2>2, <2>3, <2>4, ConflictSameSize DEF StoreOf
  <2>7. StoreOf(j).value = SQ[y].value /\ SQ[y].value # NoValue
    BY <2>2, <2>3, LoadStoreUnitAssumption DEF StoreOf
  <2>8. ASSUME NEW k \in OlderOf(Stores, i), inflight[k].sq.idx \in Deciding(load)
        PROVE  k <= j
    <3>1. StoreAge(inflight[k].sq.idx) <= StoreAge(inflight[j].sq.idx)
      BY <2>2, <2>3, <2>8
    <3> QED BY <1>6, <2>5, <3>1, StoreAgeIsOrder
  <2>9. \A k \in W : k <= j
    BY <1>5, <2>8 DEF Overlapped
  <2>10. SPEC_DISAMBIG \/ UnknownAreOlder(i, load.access)
    <3> SUFFICES ASSUME ~SPEC_DISAMBIG, NEW k \in OlderOf(Stores, i), StoreOf(k).access = NoAccess
                 PROVE  k < j
      BY <2>5 DEF UnknownAreOlder
    <3>1. k <= j /\ k # j
      BY <1>7, <2>4, <2>8
    <3> QED BY <1>1, <1>6, <2>5, <3>1
  <2>11. \A b \in BytesOf(load.access) : v[b] = StoreOf(j).value
    BY <1>9, <2>1, <2>7
  <2>12. \A k \in W : (\A m \in W : m <= k) => k = j
    <3> SUFFICES ASSUME NEW k \in W, \A m \in W : m <= k PROVE k = j
      OBVIOUS
    <3>1. k <= j /\ j <= k
      BY <2>5, <2>9
    <3>2. k \in Int /\ j \in Int
      BY <1>6 DEF Overlapped
    <3> QED BY <3>1, <3>2
  <2>13. StoreOf(j).value # NoValue
    BY <2>7
  <2> HIDE DEF v
  <2> QED BY <1>3, <2>5, <2>6, <2>10, <2>11, <2>12, <2>13 DEF RightValue
<1> QED BY <1>4, <1>8, <1>9

-----------------------------------------------------------------------------
(* Every step keeps the values right. *)

\* A load whose entry, whose older stores and whose memory a step leaves alone stays right.
LEMMA KeptRight ==
  ASSUME NEW i, LoadIsRight(i), LoadOf(i)' = LoadOf(i),
         OlderOf(Stores, i)' = OlderOf(Stores, i),
         \A j \in OlderOf(Stores, i) : StoreOf(j)' = StoreOf(j),
         memory' = memory, inflight'[i].exception = inflight[i].exception, Clean(i)' => Clean(i)
  PROVE  LoadIsRight(i)'
<1>1. Overlapped(i, LoadOf(i).access)' = Overlapped(i, LoadOf(i).access)
  BY DEF Overlapped
<1>2. \A j \in Overlapped(i, LoadOf(i).access) : StoreOf(j)' = StoreOf(j)
  BY DEF Overlapped
<1>3. UnknownAreOlder(i, LoadOf(i).access) => UnknownAreOlder(i, LoadOf(i).access)'
  BY <1>1 DEF UnknownAreOlder
<1>4. RightValue(i, LoadOf(i).access, LoadOf(i).value) => RightValue(i, LoadOf(i).access, LoadOf(i).value)'
  BY <1>1, <1>2 DEF RightValue
<1> QED BY <1>3, <1>4 DEF LoadIsRight

\* The same for a load that moves up by one, the oldest instruction having retired, unflagged.
LEMMA ShiftedRight ==
  ASSUME TypeOK, NEW n \in Nat, NEW i \in 1..n, LoadIsRight(i + 1), LoadOf(i)' = LoadOf(i + 1),
         Stores \in SUBSET (1..(n + 1)), Stores' \in SUBSET (1..n),
         \A j \in 1..n : j \in Stores' <=> j + 1 \in Stores,
         \A j \in 1..n : inflight'[j] = inflight[j + 1] /\ (j \in Stores' => StoreOf(j)' = StoreOf(j + 1)),
         ~inflight[1].exception, ~inflight[1].load_viol,
         1 \in Stores => StoreOf(1).access # NoAccess,
         LoadOf(i + 1).value # NoValue
           => IF 1 \in Overlapped(i + 1, LoadOf(i + 1).access)
              THEN \A b \in BytesOf(StoreOf(1).access) : memory'[b] = StoreOf(1).value
              ELSE \A b \in BytesOf(LoadOf(i + 1).access) : memory'[b] = memory[b]
  PROVE  LoadIsRight(i)'
<1> DEFINE W == Overlapped(i + 1, LoadOf(i + 1).access)
           W2 == Overlapped(i, LoadOf(i).access)'
<1>1. /\ \A j \in 1..n : j + 1 # 1
      /\ \A k \in 1..(n + 1) : k # 1 => k - 1 \in 1..n /\ (k - 1) + 1 = k
  OBVIOUS
<1>2. \A j \in 1..n : j \in OlderOf(Stores, i)' <=> j + 1 \in OlderOf(Stores, i + 1)
  BY DEF OlderOf
<1>3. \A j : j \in OlderOf(Stores, i)' => j \in 1..n /\ StoreOf(j)' = StoreOf(j + 1)
  BY DEF OlderOf
<1>4. \A j : j \in W2 => j \in 1..n /\ j + 1 \in W
  BY <1>2, <1>3 DEF Overlapped
<1>5. \A j \in 1..n : j + 1 \in W => j \in W2
  BY <1>2, <1>3 DEF Overlapped
<1>6. \A k \in W : k \in 1..(n + 1) /\ k \in Stores
  BY DEF Overlapped, OlderOf
<1>7. ASSUME Clean(i)' PROVE Clean(i + 1)
  <2> SUFFICES ASSUME NEW k \in 1..(i + 1)
               PROVE  ~inflight[k].load_viol /\ ~inflight[k].exception
    BY DEF Clean
  <2>1. CASE k = 1
    BY <2>1
  <2>2. CASE k # 1
    <3>1. k - 1 \in 1..i /\ k - 1 \in 1..n /\ (k - 1) + 1 = k
      BY <2>2
    <3>2. ~inflight'[k - 1].load_viol /\ ~inflight'[k - 1].exception
      BY <1>7, <3>1 DEF Clean
    <3> QED BY <3>1, <3>2
  <2> QED BY <2>1, <2>2
<1>8. inflight'[i].exception = inflight[i + 1].exception
  OBVIOUS
<1> HIDE DEF W, W2
<1>9. ASSUME UnknownAreOlder(i + 1, LoadOf(i + 1).access)
      PROVE  UnknownAreOlder(i, LoadOf(i).access)'
  <2> SUFFICES ASSUME NEW j \in OlderOf(Stores, i)', StoreOf(j)'.access = NoAccess
               PROVE  \E k \in W2 : j < k
    BY DEF UnknownAreOlder, W2
  <2>1. j \in 1..n /\ j + 1 \in OlderOf(Stores, i + 1) /\ StoreOf(j + 1).access = NoAccess
    BY <1>2, <1>3
  <2>2. PICK k \in W : j + 1 < k
    BY <1>9, <2>1 DEF UnknownAreOlder, W
  <2>3. k - 1 \in 1..n /\ (k - 1) + 1 = k /\ j < k - 1
    BY <1>6, <2>1, <2>2
  <2> QED BY <1>5, <2>2, <2>3
<1>10. ASSUME LoadOf(i + 1).value # NoValue,
              RightValue(i + 1, LoadOf(i + 1).access, LoadOf(i + 1).value)
       PROVE  RightValue(i, LoadOf(i).access, LoadOf(i).value)'
  <2>1. /\ W = {} => \A b \in BytesOf(LoadOf(i + 1).access) : LoadOf(i + 1).value[b] = memory[b]
        /\ \A j \in W :
             (\A k \in W : k <= j)
             => /\ StoreOf(j).access = LoadOf(i + 1).access /\ StoreOf(j).value # NoValue
                /\ \A b \in BytesOf(LoadOf(i + 1).access) : LoadOf(i + 1).value[b] = StoreOf(j).value
    BY <1>10 DEF RightValue, W
  <2>2. ASSUME W2 = {} PROVE \A b \in BytesOf(LoadOf(i + 1).access) : LoadOf(i + 1).value[b] = memory'[b]
    <3>1. \A k \in W : k = 1
      BY <1>1, <1>5, <1>6, <2>2
    <3>2. CASE 1 \in W
      <4>1. /\ StoreOf(1).access = LoadOf(i + 1).access
            /\ \A b \in BytesOf(LoadOf(i + 1).access) : LoadOf(i + 1).value[b] = StoreOf(1).value
        BY <2>1, <3>1, <3>2
      <4> QED BY <1>10, <3>2, <4>1 DEF W
    <3>3. CASE 1 \notin W
      <4>1. W = {}
        BY <3>1, <3>3
      <4> QED BY <1>10, <2>1, <3>3, <4>1 DEF W
    <3> QED BY <3>2, <3>3
  <2>3. ASSUME NEW j \in W2, \A k \in W2 : k <= j
        PROVE  /\ StoreOf(j)'.access = LoadOf(i + 1).access /\ StoreOf(j)'.value # NoValue
               /\ \A b \in BytesOf(LoadOf(i + 1).access) : LoadOf(i + 1).value[b] = StoreOf(j)'.value
    <3>1. j \in 1..n /\ j + 1 \in W
      BY <1>4
    <3>2. StoreOf(j)' = StoreOf(j + 1)
      BY <1>6, <3>1
    <3>3. ASSUME NEW k \in W PROVE k <= j + 1
      <4>1. k \in 1..(n + 1)
        BY <1>6
      <4>2. CASE k = 1
        BY <3>1, <4>2
      <4>3. CASE k # 1
        <5>1. k - 1 \in 1..n /\ (k - 1) + 1 = k
          BY <1>1, <4>1, <4>3
        <5>2. k - 1 <= j
          BY <1>5, <2>3, <5>1
        <5> QED BY <3>1, <4>1, <5>2
      <4> QED BY <4>2, <4>3
    <3> QED BY <2>1, <3>1, <3>2, <3>3
  <2> QED BY <2>2, <2>3 DEF RightValue, W2
<1> QED BY <1>7, <1>8, <1>9, <1>10 DEF LoadIsRight

\* Dispatch disturbs no older load.
LEMMA DispatchKeepsRight ==
  ASSUME TypeOK, NEW kind \in {"load", "store", "branch"}, Len(inflight) < ActiveListSize,
         inflight' = Dispatched(kind), NEW i \in Loads, LoadIsRight(i),
         LoadOf(i)' = LoadOf(i), \A j \in Stores : StoreOf(j)' = StoreOf(j), memory' = memory
  PROVE  LoadIsRight(i)'
<1> DEFINE n == Len(inflight)
<1>1. /\ n \in Nat /\ \A k \in 1..n : inflight'[k] = inflight[k]
      /\ Stores' = Stores \/ Stores' = Stores \cup {n + 1}
  BY DispatchedInstruction, InflightType
<1>2. i \in 1..n /\ \A k \in 1..i : k \in 1..n
  <2>1. i \in 1..n
    BY DEF Loads
  <2> QED BY <1>1, <2>1
<1>3. ~(n + 1 < i)
  BY <1>1, <1>2
<1>4. OlderOf(Stores, i)' = OlderOf(Stores, i)
  BY <1>1, <1>3 DEF OlderOf
<1>5. Clean(i)' => Clean(i)
  BY <1>1, <1>2 DEF Clean
<1>6. \A j \in OlderOf(Stores, i) : StoreOf(j)' = StoreOf(j)
  BY DEF OlderOf
<1> QED BY <1>1, <1>2, <1>4, <1>5, <1>6, KeptRight

\* A load that is dispatched has no value yet, and is not speculative unless it may be.
LEMMA DispatchLoadRight ==
  ASSUME TypeOK, InOrder, LoadsAreRight, NEW mdp_stall \in BOOLEAN, DispatchLoad(mdp_stall)
  PROVE  LoadsAreRight'
<1> DEFINE e == [valid |-> TRUE, access |-> NoAccess, value |-> NoValue,
                 mdp_stall |-> ~SPEC_DISAMBIG \/ mdp_stall, sq |-> sq_tail]
<1>0. PICK n : n = Len(inflight)
  OBVIOUS
<1>1. /\ Len(inflight) < ActiveListSize /\ inflight' = Dispatched("load")
      /\ LQ' = [LQ EXCEPT ![lq_tail.idx] = e] /\ UNCHANGED <<sqVars, memory>>
  BY DEF DispatchLoad
<1>2. lq_length < LQsize /\ lq_tail.idx \in 0..(LQsize - 1)
  BY LoadStoreUnitAssumption DEF DispatchLoad, stall, TypeOK, Pointer
<1>3. /\ \A i \in 1..n : inflight'[i] = inflight[i]
      /\ inflight'[n + 1].lq = lq_tail /\ ~inflight'[n + 1].exception
      /\ Loads' = Loads \cup {n + 1}
  BY <1>0, <1>1, DispatchedInstruction
<1>4. \A l \in 0..(LQsize - 1) : LQ'[l] = IF l = lq_tail.idx THEN e ELSE LQ[l]
  BY <1>1, <1>2 DEF TypeOK
<1>5. LoadIsRight(n + 1)'
  <2>1. LoadOf(n + 1)' = e
    BY <1>2, <1>3, <1>4 DEF LoadOf
  <2>2. LoadOf(n + 1)'.value = NoValue /\ (SPEC_DISAMBIG \/ LoadOf(n + 1)'.mdp_stall)
    <3>1. LoadOf(n + 1)'.value = NoValue /\ LoadOf(n + 1)'.mdp_stall = (~SPEC_DISAMBIG \/ mdp_stall)
      BY <2>1
    <3> QED BY <3>1, Zenon
  <2> QED BY <1>3, <2>2, Zenon DEF LoadIsRight
<1>6. ASSUME NEW i \in Loads PROVE LoadIsRight(i)'
  <2>1. i \in 1..n /\ inflight[i].lq.idx \in 0..(LQsize - 1) /\ inflight[i].lq.idx # lq_tail.idx
    BY <1>0, <1>2, InflightType, OwnEntries
  <2>2. LoadOf(i)' = LoadOf(i)
    BY <1>3, <1>4, <2>1 DEF LoadOf
  <2>3. \A j \in Stores : StoreOf(j)' = StoreOf(j)
    BY <1>0, <1>1, <1>3, InflightType DEF StoreOf, sqVars
  <2>4. LoadIsRight(i)
    BY DEF LoadsAreRight
  <2> QED BY <1>1, <2>2, <2>3, <2>4, DispatchKeepsRight
<1> QED BY <1>3, <1>5, <1>6 DEF LoadsAreRight

\* A store that is dispatched is younger than every load.
LEMMA DispatchStoreRight ==
  ASSUME TypeOK, InOrder, LoadsAreRight, DispatchStore
  PROVE  LoadsAreRight'
<1> DEFINE n == Len(inflight)
<1>1. /\ Len(inflight) < ActiveListSize /\ inflight' = Dispatched("store")
      /\ SQ' = [SQ EXCEPT ![sq_tail.idx] = [valid |-> TRUE, access |-> NoAccess, value |-> NoValue]]
      /\ UNCHANGED <<lqVars, memory>>
  BY DEF DispatchStore
<1>2. sq_length < SQsize /\ sq_tail.idx \in 0..(SQsize - 1)
  BY LoadStoreUnitAssumption DEF DispatchStore, stall, TypeOK, Pointer
<1>3. (\A i \in 1..n : inflight'[i] = inflight[i]) /\ Loads' = Loads
  BY <1>1, DispatchedInstruction
<1>4. ASSUME NEW i \in Loads PROVE LoadIsRight(i)'
  <2>1. LoadOf(i)' = LoadOf(i)
    BY <1>1, <1>3, InflightType DEF LoadOf, lqVars
  <2>2. \A j \in Stores : StoreOf(j)' = StoreOf(j)
    <3> SUFFICES ASSUME NEW j \in Stores PROVE StoreOf(j)' = StoreOf(j)
      OBVIOUS
    <3>1. j \in 1..n /\ inflight[j].sq.idx \in 0..(SQsize - 1) /\ inflight[j].sq.idx # sq_tail.idx
      BY <1>2, InflightType, OwnEntries
    <3> QED BY <1>1, <1>3, <3>1 DEF StoreOf, TypeOK
  <2>3. LoadIsRight(i)
    BY DEF LoadsAreRight
  <2> QED BY <1>1, <2>1, <2>2, <2>3, DispatchKeepsRight
<1> QED BY <1>3, <1>4 DEF LoadsAreRight

\* A branch has no entry.
LEMMA DispatchBranchRight ==
  ASSUME TypeOK, InOrder, LoadsAreRight, DispatchBranch
  PROVE  LoadsAreRight'
<1> DEFINE n == Len(inflight)
<1>1. /\ Len(inflight) < ActiveListSize /\ inflight' = Dispatched("branch")
      /\ UNCHANGED <<lqVars, sqVars, memory>>
  BY DEF DispatchBranch
<1>2. (\A i \in 1..n : inflight'[i] = inflight[i]) /\ Loads' = Loads
  BY <1>1, DispatchedInstruction
<1>3. ASSUME NEW i \in Loads PROVE LoadIsRight(i)'
  <2>1. LoadOf(i)' = LoadOf(i) /\ \A j \in Stores : StoreOf(j)' = StoreOf(j)
    BY <1>1, <1>2, InflightType DEF LoadOf, StoreOf, lqVars, sqVars
  <2>2. LoadIsRight(i)
    BY DEF LoadsAreRight
  <2> QED BY <1>1, <2>1, <2>2, DispatchKeepsRight
<1> QED BY <1>2, <1>3 DEF LoadsAreRight

\* An address that arrives late leaves right the loads it does not flag: a load with a value that
\* it should have fed is flagged, or an older one is.
LEMMA StoreAddrRight ==
  ASSUME TypeOK, InOrder, LoadsAreRight, NEW j \in 1..Len(inflight), NEW access \in Accesses,
         NEW fault \in BOOLEAN, StoreAddr(j, access, fault)
  PROVE  LoadsAreRight'
<1> DEFINE n == Len(inflight)
           s == inflight[j].sq.idx
           viol == IF SPEC_DISAMBIG THEN Violated(inflight[j].lq, access) ELSE {}
<1>1. /\ j \in Stores /\ j \notin Loads /\ SQ[s].access = NoAccess
      /\ SQ' = [SQ EXCEPT ![s].access = access] /\ s \in 0..(SQsize - 1) /\ SQ[s] \in StoreEntry
      /\ UNCHANGED <<lqVars, memory>>
  BY InflightType DEF StoreAddr, Stores, Loads, TypeOK
<1>2. /\ inflight \in [1..n -> Payload] /\ n \in Nat
      /\ inflight' = IF fault
                     THEN [inflight EXCEPT ![j].exception = TRUE]
                     ELSE [k \in 1..n |->
                             IF inflight[k].kind = "load" /\ inflight[k].lq.idx \in viol
                             THEN [inflight[k] EXCEPT !.load_viol = TRUE] ELSE inflight[k]]
  BY LenProperties DEF StoreAddr, TypeOK
<1> HIDE DEF viol
<1>3. ASSUME NEW k \in 1..n
      PROVE  /\ inflight'[k].kind = inflight[k].kind /\ inflight'[k].lq = inflight[k].lq
             /\ inflight'[k].sq = inflight[k].sq
             /\ k # j => inflight'[k].exception = inflight[k].exception
             /\ inflight[k].exception => inflight'[k].exception
             /\ inflight[k].load_viol => inflight'[k].load_viol
             /\ fault => inflight'[j].exception
             /\ ~fault /\ k \in Loads /\ inflight[k].lq.idx \in viol => inflight'[k].load_viol
  BY <1>2 DEF Payload, Loads
<1>4. DOMAIN inflight' = 1..n /\ Len(inflight') = n
  <2>1. DOMAIN inflight' = 1..n
    BY <1>2
  <2>2. inflight' \in Seq(Payload)
    BY StoreAddrStep DEF TypeOK
  <2>3. Len(inflight') \in Nat /\ DOMAIN inflight' = 1..Len(inflight')
    BY <2>2, LenProperties
  <2> QED BY <1>2, <2>1, <2>3
<1>5. Loads' = Loads /\ Stores' = Stores /\ \A i : OlderOf(Stores, i)' = OlderOf(Stores, i)
  BY <1>3, <1>4 DEF Loads, Stores, OlderOf
<1>6. \A i \in Loads : i \in 1..n /\ i # j /\ LoadOf(i)' = LoadOf(i) /\ (Clean(i)' => Clean(i))
  <2> SUFFICES ASSUME NEW i \in Loads
               PROVE  i \in 1..n /\ i # j /\ LoadOf(i)' = LoadOf(i) /\ (Clean(i)' => Clean(i))
    OBVIOUS
  <2>1. i \in 1..n /\ i # j
    BY <1>1 DEF Loads
  <2>2. \A k \in 1..i : k \in 1..n
    BY <1>2, <2>1
  <2> QED BY <1>1, <1>3, <2>1, <2>2 DEF LoadOf, lqVars, Clean
<1>7. /\ StoreOf(j)'.access = access
      /\ \A k \in Stores : k # j => StoreOf(k)' = StoreOf(k)
  <2>1. StoreOf(j)'.access = access
    BY <1>1, <1>3 DEF StoreOf, StoreEntry, TypeOK
  <2>2. ASSUME NEW k \in Stores, k # j PROVE StoreOf(k)' = StoreOf(k)
    <3>1. k \in 1..n /\ inflight[k].sq.idx # s /\ inflight[k].sq.idx \in 0..(SQsize - 1)
      BY <1>1, <2>2, OwnEntries, InflightType
    <3> QED BY <1>1, <1>3, <3>1 DEF StoreOf, TypeOK
  <2> QED BY <2>1, <2>2
<1>8. ASSUME NEW i \in Loads PROVE LoadIsRight(i)'
  <2>1. LoadIsRight(i) /\ i \in 1..n /\ i # j /\ LoadOf(i)' = LoadOf(i) /\ (Clean(i)' => Clean(i))
        /\ inflight'[i].exception = inflight[i].exception
    BY <1>3, <1>6 DEF LoadsAreRight
  <2>2. CASE j \notin OlderOf(Stores, i)
    <3>1. \A k \in OlderOf(Stores, i) : StoreOf(k)' = StoreOf(k)
      BY <1>7, <2>2 DEF OlderOf
    <3> QED BY <1>1, <1>5, <2>1, <3>1, KeptRight
  <2>3. CASE j \in OlderOf(Stores, i) /\ LoadOf(i).value = NoValue
    BY <2>1, <2>3 DEF LoadIsRight
  <2>4. CASE j \in OlderOf(Stores, i) /\ LoadOf(i).value # NoValue
    <3> DEFINE W == Overlapped(i, LoadOf(i).access)
               W2 == Overlapped(i, LoadOf(i).access)'
    <3>1. W2 = W \cup {k \in {j} : Conflict(access, LoadOf(i).access)}
      <4>1. access # NoAccess /\ StoreOf(j).access = NoAccess
        BY <1>1, LoadStoreUnitAssumption DEF StoreOf
      <4>2. \A k \in OlderOf(Stores, i) : k # j => StoreOf(k)' = StoreOf(k)
        BY <1>7 DEF OlderOf
      <4>3. W2 = {k \in OlderOf(Stores, i) : /\ StoreOf(k)'.access # NoAccess
                                             /\ Conflict(StoreOf(k)'.access, LoadOf(i).access)}
        BY <1>5, <2>1 DEF Overlapped
      <4>4. W = {k \in OlderOf(Stores, i) : /\ StoreOf(k).access # NoAccess
                                            /\ Conflict(StoreOf(k).access, LoadOf(i).access)}
        BY DEF Overlapped
      <4> HIDE DEF W, W2
      <4> QED BY <1>7, <2>4, <4>1, <4>2, <4>3, <4>4
    <3>2. \A k \in W : k # j /\ k \in Int /\ StoreOf(k)' = StoreOf(k)
      <4>1. StoreOf(j).access = NoAccess
        BY <1>1 DEF StoreOf
      <4>2. \A k \in Stores : k \in Int
        BY DEF Stores
      <4> QED BY <1>7, <4>1, <4>2 DEF Overlapped, OlderOf
    <3>3. j \in Int /\ j < i
      BY <2>4 DEF OlderOf
    <3>4. LoadOf(i).access # NoAccess
      BY <2>1, <2>4 DEF LoadIsRight
    <3> HIDE DEF W, W2
    <3>5. SPEC_DISAMBIG \/ UnknownAreOlder(i, LoadOf(i).access)'
      <4> SUFFICES ASSUME ~SPEC_DISAMBIG, NEW k \in OlderOf(Stores, i), StoreOf(k)'.access = NoAccess
                   PROVE  \E m \in W2 : k < m
        BY <1>5 DEF UnknownAreOlder, W2
      <4>1. k # j /\ StoreOf(k)' = StoreOf(k)
        BY <1>7, LoadStoreUnitAssumption DEF OlderOf
      <4>2. \E m \in W : k < m
        BY <2>1, <2>4, <4>1 DEF LoadIsRight, UnknownAreOlder, W
      <4> QED BY <3>1, <4>2
    <3>6. ASSUME Clean(i)' PROVE RightValue(i, LoadOf(i).access, LoadOf(i).value)'
      <4>1. RightValue(i, LoadOf(i).access, LoadOf(i).value)
        BY <2>1, <2>4, <3>6 DEF LoadIsRight
      <4>2. ~fault
        <5>1. j \in 1..i
          BY <2>1, <3>3
        <5> QED BY <1>3, <3>6, <5>1 DEF Clean
      <4>3. CASE ~Conflict(access, LoadOf(i).access)
        <5>1. W2 = W
          BY <3>1, <4>3
        <5> QED BY <1>1, <2>1, <3>2, <4>1, <5>1 DEF RightValue, W, W2
      <4>4. CASE Conflict(access, LoadOf(i).access) /\ SPEC_DISAMBIG
        <5>1. PICK k \in Loads : k <= i /\ inflight[k].lq.idx \in Violated(inflight[j].lq, access)
          BY <2>4, <3>3, <3>4, <4>4, ViolatedIsFlagged
        <5>2. k \in 1..n /\ k \in 1..i
          BY <2>1, <5>1 DEF Loads
        <5>3. inflight'[k].load_viol
          BY <1>3, <4>2, <4>4, <5>1, <5>2 DEF viol
        <5> QED BY <3>6, <5>2, <5>3 DEF Clean
      <4>5. CASE Conflict(access, LoadOf(i).access) /\ ~SPEC_DISAMBIG
        <5>1. PICK m \in W : j < m
          <6>1. StoreOf(j).access = NoAccess
            BY <1>1 DEF StoreOf
          <6> QED BY <2>1, <2>4, <4>5, <6>1 DEF LoadIsRight, UnknownAreOlder, W
        <5>2. W2 = W \cup {j} /\ W2 # {} /\ W # {}
          BY <3>1, <4>5, <5>1
        <5>3. ASSUME NEW k \in W2, \A q \in W2 : q <= k PROVE k \in W
          BY <3>2, <3>3, <5>1, <5>2, <5>3
        <5> QED BY <1>1, <2>1, <3>2, <4>1, <5>2, <5>3 DEF RightValue, W, W2
      <4> QED BY <4>3, <4>4, <4>5
    <3> QED BY <2>1, <2>4, <3>4, <3>5, <3>6 DEF LoadIsRight
  <2> QED BY <2>2, <2>3, <2>4
<1> QED BY <1>5, <1>8 DEF LoadsAreRight

\* No load that has its value took it from a store that had none.
LEMMA StoreValueRight ==
  ASSUME TypeOK, InOrder, LoadsAreRight, NEW j \in 1..Len(inflight), NEW value \in Value,
         StoreValue(j, value)
  PROVE  LoadsAreRight'
<1> DEFINE s == inflight[j].sq.idx
<1>1. /\ j \in Stores /\ SQ[s].value = NoValue /\ SQ' = [SQ EXCEPT ![s].value = value]
      /\ s \in 0..(SQsize - 1) /\ SQ[s] \in StoreEntry
      /\ UNCHANGED <<lqVars, memory, inflight>>
  BY InflightType DEF StoreValue, Stores, TypeOK
<1>2. Loads' = Loads /\ Stores' = Stores
  BY <1>1 DEF Loads, Stores
<1>3. ASSUME NEW k \in Stores
      PROVE  StoreOf(k)'.access = StoreOf(k).access /\ (StoreOf(k).value # NoValue => StoreOf(k)' = StoreOf(k))
  <2>1. inflight[k].sq.idx \in 0..(SQsize - 1)
    BY InflightType
  <2> QED BY <1>1, <2>1 DEF StoreOf, StoreEntry, TypeOK
<1>4. ASSUME NEW i \in Loads PROVE LoadIsRight(i)'
  <2> DEFINE W == Overlapped(i, LoadOf(i).access)
             W2 == Overlapped(i, LoadOf(i).access)'
  <2>1. /\ LoadIsRight(i) /\ LoadOf(i)' = LoadOf(i) /\ OlderOf(Stores, i)' = OlderOf(Stores, i)
        /\ Clean(i)' = Clean(i) /\ inflight' = inflight /\ memory' = memory
    BY <1>1, <1>2 DEF LoadsAreRight, LoadOf, OlderOf, Clean, lqVars
  <2>2. \A k \in OlderOf(Stores, i) : /\ StoreOf(k)'.access = StoreOf(k).access
                                      /\ StoreOf(k).value # NoValue => StoreOf(k)' = StoreOf(k)
    BY <1>3 DEF OlderOf
  <2>3. W2 = W /\ \A k \in W : k \in OlderOf(Stores, i)
    BY <2>1, <2>2 DEF Overlapped
  <2> HIDE DEF W, W2
  <2>4. UnknownAreOlder(i, LoadOf(i).access) => UnknownAreOlder(i, LoadOf(i).access)'
    BY <2>1, <2>2, <2>3 DEF UnknownAreOlder, W, W2
  <2>5. RightValue(i, LoadOf(i).access, LoadOf(i).value) => RightValue(i, LoadOf(i).access, LoadOf(i).value)'
    BY <2>1, <2>2, <2>3 DEF RightValue, W, W2
  <2> QED BY <2>1, <2>4, <2>5 DEF LoadIsRight
<1> QED BY <1>2, <1>4 DEF LoadsAreRight

\* A load that has no value yet gets an entry that is right, and an exception only with a value.
LEMMA LoadEntryRight ==
  ASSUME TypeOK, InOrder, LoadsAreRight, NEW i \in Loads, NEW e \in LoadEntry, NEW fault \in BOOLEAN,
         LoadOf(i).value = NoValue,
         LQ' = [LQ EXCEPT ![inflight[i].lq.idx] = e],
         inflight' = [inflight EXCEPT ![i].exception = fault],
         UNCHANGED <<sqVars, memory>>,
         IF e.value = NoValue
         THEN ~fault /\ (SPEC_DISAMBIG \/ e.mdp_stall)
         ELSE /\ e.access # NoAccess /\ (SPEC_DISAMBIG \/ UnknownAreOlder(i, e.access))
              /\ RightValue(i, e.access, e.value)
  PROVE  LoadsAreRight'
<1>0. PICK n : n = Len(inflight)
  OBVIOUS
<1>1. n \in Nat /\ i \in 1..n /\ inflight \in [1..n -> Payload] /\ DOMAIN inflight' = 1..n
  BY <1>0, LenProperties DEF TypeOK, Loads
<1>2. Len(inflight') = n
  <2> DEFINE f == [inflight[i] EXCEPT !.exception = fault]
  <2>1. f \in Payload
    BY <1>1 DEF Payload
  <2>2. inflight' = [inflight EXCEPT ![i] = f]
    OBVIOUS
  <2> HIDE DEF f
  <2> QED BY <1>0, <1>1, <2>1, <2>2, ExceptSeq DEF TypeOK
<1>3. ASSUME NEW k \in 1..n
      PROVE  /\ inflight'[k].kind = inflight[k].kind /\ inflight'[k].lq = inflight[k].lq
             /\ inflight'[k].sq = inflight[k].sq /\ inflight'[k].load_viol = inflight[k].load_viol
             /\ inflight'[k].exception = IF k = i THEN fault ELSE inflight[k].exception
  BY <1>1 DEF Payload
<1>4. Loads' = Loads /\ Stores' = Stores /\ \A k : OlderOf(Stores, k)' = OlderOf(Stores, k)
  BY <1>0, <1>2, <1>3 DEF Loads, Stores, OlderOf
<1>5. \A k \in Stores : StoreOf(k)' = StoreOf(k)
  BY <1>0, <1>3 DEF StoreOf, Stores, sqVars
<1>6. LoadIsRight(i) /\ ~inflight[i].exception
  BY DEF LoadsAreRight, LoadIsRight
<1>7. LoadOf(i)' = e /\ \A k \in Loads : k # i => LoadOf(k)' = LoadOf(k)
  <2>1. \A k \in Loads : k \in 1..n /\ inflight[k].lq.idx \in 0..(LQsize - 1)
                         /\ (k # i => inflight[k].lq.idx # inflight[i].lq.idx)
    BY <1>0, InflightType, OwnEntries
  <2> QED BY <1>1, <1>3, <2>1 DEF LoadOf, TypeOK
<1>8. ASSUME NEW k \in Loads, k # i PROVE LoadIsRight(k)'
  <2>1. k \in 1..n /\ \A m \in 1..k : m \in 1..n
    BY <1>0, <1>1 DEF Loads
  <2>2. Clean(k)' => Clean(k)
    BY <1>3, <1>6, <2>1 DEF Clean
  <2>3. LoadIsRight(k) /\ \A j \in OlderOf(Stores, k) : StoreOf(j)' = StoreOf(j)
    BY <1>5 DEF LoadsAreRight, OlderOf
  <2> QED BY <1>3, <1>4, <1>7, <1>8, <2>1, <2>2, <2>3, KeptRight
<1>9. LoadIsRight(i)'
  <2>1. CASE e.value = NoValue
    BY <1>1, <1>3, <1>7, <2>1 DEF LoadIsRight
  <2>2. CASE e.value # NoValue
    <3> DEFINE W == Overlapped(i, e.access)
               W2 == Overlapped(i, LoadOf(i).access)'
    <3>1. \A k \in OlderOf(Stores, i) : StoreOf(k)' = StoreOf(k)
      BY <1>5 DEF OlderOf
    <3>2. W2 = W /\ \A k \in W : k \in OlderOf(Stores, i)
      BY <1>4, <1>7, <3>1 DEF Overlapped
    <3> HIDE DEF W, W2
    <3>3. SPEC_DISAMBIG \/ UnknownAreOlder(i, LoadOf(i).access)'
      BY <1>4, <1>7, <2>2, <3>1, <3>2 DEF UnknownAreOlder, W, W2
    <3>4. RightValue(i, LoadOf(i).access, LoadOf(i).value)'
      BY <1>7, <2>2, <3>1, <3>2 DEF RightValue, W, W2
    <3> QED BY <1>7, <2>2, <3>3, <3>4 DEF LoadIsRight
  <2> QED BY <2>1, <2>2
<1> QED BY <1>4, <1>8, <1>9 DEF LoadsAreRight

\* A load that gets its value when its address is known gets the right one.
LEMMA LoadAddrRight ==
  ASSUME TypeOK, InOrder, LoadsAreRight, NEW i \in 1..Len(inflight), NEW access \in Accesses,
         NEW loading \in BOOLEAN, NEW fault \in BOOLEAN, LoadAddr(i, access, loading, fault)
  PROVE  LoadsAreRight'
<1> DEFINE load == [LoadOf(i) EXCEPT !.access = access]
           runs == Outcome(load) = "forward" \/ (Outcome(load) = "memory" /\ ~loading)
           e == IF runs THEN WithValue(load) ELSE load
<1>1. /\ i \in Loads /\ LoadOf(i).access = NoAccess /\ (fault => runs)
      /\ LQ' = [LQ EXCEPT ![inflight[i].lq.idx] = e]
      /\ inflight' = [inflight EXCEPT ![i].exception = fault]
      /\ UNCHANGED <<sqVars, memory>>
  BY DEF LoadAddr, LoadOf, Loads
<1>2. LoadOf(i).value = NoValue /\ (SPEC_DISAMBIG \/ LoadOf(i).mdp_stall)
  <2>1. LoadIsRight(i)
    BY <1>1 DEF LoadsAreRight
  <2> QED BY <1>1, <2>1 DEF LoadIsRight
<1>3. access # NoAccess
  BY LoadStoreUnitAssumption
<1>4. /\ load \in LoadEntry /\ load.access = access /\ load.value = NoValue
      /\ load.sq = inflight[i].sq /\ load.mdp_stall = LoadOf(i).mdp_stall
  <2>1. LoadOf(i) \in LoadEntry /\ LoadOf(i).sq = inflight[i].sq
    BY <1>1, EntryTypes DEF InOrder, LoadsKnowOlderStores, LoadOf
  <2> QED BY <1>2, <2>1 DEF LoadEntry
<1> HIDE DEF load
<1>5. CASE runs
  <2>1. /\ WithValue(load) \in LoadEntry /\ WithValue(load).value # NoValue
        /\ WithValue(load).access = access
    BY <1>3, <1>4, <1>5, WithValueType DEF WithValue, LoadEntry
  <2>2. /\ SPEC_DISAMBIG \/ UnknownAreOlder(i, access)
        /\ RightValue(i, access, WithValue(load).value)
    <3>1. Outcome(load) # "stall"
      BY <1>5
    <3>2. SPEC_DISAMBIG \/ load.mdp_stall
      BY <1>2, <1>4
    <3>3. /\ SPEC_DISAMBIG \/ UnknownAreOlder(i, load.access)
          /\ RightValue(i, load.access, WithValue(load).value)
      BY <1>1, <1>3, <1>4, <3>1, <3>2, ValueObtained
    <3> QED BY <1>4, <3>3
  <2>3. LQ' = [LQ EXCEPT ![inflight[i].lq.idx] = WithValue(load)]
    BY <1>1, <1>5
  <2> HIDE DEF e
  <2> QED BY <1>1, <1>2, <1>3, <2>1, <2>2, <2>3, LoadEntryRight
<1>6. CASE ~runs
  <2>1. LQ' = [LQ EXCEPT ![inflight[i].lq.idx] = load] /\ ~fault
    BY <1>1, <1>6
  <2>2. SPEC_DISAMBIG \/ load.mdp_stall
    BY <1>2, <1>4
  <2> HIDE DEF e
  <2> QED BY <1>1, <1>2, <1>4, <2>1, <2>2, LoadEntryRight
<1> QED BY <1>5, <1>6

\* So does a load that has waited.
LEMMA LoadUnstallRight ==
  ASSUME TypeOK, InOrder, LoadsAreRight, NEW i \in Waiting, NEW fault \in BOOLEAN, LoadUnstall(i, fault)
  PROVE  LoadsAreRight'
<1> DEFINE load == LoadOf(i)
<1>1. /\ i \in Loads /\ i \in 1..Len(inflight) /\ load.access # NoAccess /\ load.value = NoValue
  BY DEF Waiting, Loads, LoadOf
<1>2. /\ LQ' = [LQ EXCEPT ![inflight[i].lq.idx] = WithValue(load)] /\ Outcome(load) # "stall"
      /\ inflight' = [inflight EXCEPT ![i].exception = fault]
      /\ UNCHANGED <<sqVars, memory>>
  BY DEF LoadUnstall, LoadOf
<1>3. SPEC_DISAMBIG \/ load.mdp_stall
  BY <1>1 DEF LoadsAreRight, LoadIsRight
<1>4. load \in LoadEntry /\ load.sq = inflight[i].sq
  BY <1>1, EntryTypes DEF InOrder, LoadsKnowOlderStores, LoadOf
<1>5. /\ WithValue(load) \in LoadEntry /\ WithValue(load).value # NoValue
      /\ WithValue(load).access = load.access
  <2> HIDE DEF load
  <2> QED BY <1>1, <1>2, <1>4, WithValueType DEF WithValue, LoadEntry
<1>6. /\ SPEC_DISAMBIG \/ UnknownAreOlder(i, load.access)
      /\ RightValue(i, load.access, WithValue(load).value)
  BY <1>1, <1>2, <1>3, <1>4, ValueObtained
<1> QED BY <1>1, <1>2, <1>5, <1>6, LoadEntryRight

\* A branch that resolves disturbs no load.
LEMMA ResolveCorrectRight ==
  ASSUME TypeOK, InOrder, LoadsAreRight, NEW j \in 1..Len(inflight), ResolveCorrect(j)
  PROVE  LoadsAreRight'
<1>0. PICK n : n = Len(inflight)
  OBVIOUS
<1>1. /\ n \in Nat /\ inflight \in [1..n -> Payload] /\ DOMAIN inflight' = 1..n /\ j \in 1..n
      /\ inflight' = [inflight EXCEPT ![j].resolved = TRUE]
      /\ UNCHANGED <<lqVars, sqVars, memory>>
  BY <1>0, LenProperties DEF TypeOK, ResolveCorrect
<1>2. Len(inflight') = n
  <2>1. inflight' \in Seq(Payload)
    BY ResolveCorrectStep DEF TypeOK
  <2>2. Len(inflight') \in Nat /\ DOMAIN inflight' = 1..Len(inflight')
    BY <2>1, LenProperties
  <2> QED BY <1>1, <2>2
<1>3. ASSUME NEW k \in 1..n
      PROVE  /\ inflight'[k].kind = inflight[k].kind /\ inflight'[k].lq = inflight[k].lq
             /\ inflight'[k].sq = inflight[k].sq /\ inflight'[k].load_viol = inflight[k].load_viol
             /\ inflight'[k].exception = inflight[k].exception
  BY <1>1 DEF Payload
<1>4. Loads' = Loads /\ Stores' = Stores /\ \A k : OlderOf(Stores, k)' = OlderOf(Stores, k)
  BY <1>0, <1>2, <1>3 DEF Loads, Stores, OlderOf
<1>5. ASSUME NEW i \in Loads PROVE LoadIsRight(i)'
  <2>1. i \in 1..n /\ \A m \in 1..i : m \in 1..n
    BY <1>0, <1>1 DEF Loads
  <2>2. Clean(i)' => Clean(i)
    BY <1>3, <2>1 DEF Clean
  <2>3. LoadIsRight(i) /\ LoadOf(i)' = LoadOf(i) /\ \A k \in OlderOf(Stores, i) : StoreOf(k)' = StoreOf(k)
    BY <1>0, <1>1, <1>3, <2>1 DEF LoadsAreRight, LoadOf, StoreOf, OlderOf, Stores, lqVars, sqVars
  <2> QED BY <1>1, <1>3, <1>4, <2>1, <2>2, <2>3, KeptRight
<1> QED BY <1>4, <1>5 DEF LoadsAreRight

\* What survives a misprediction keeps its entry.
LEMMA RestoredEntries ==
  ASSUME TypeOK, InOrder, NEW b \in 1..Len(inflight), Restore(b)
  PROVE  /\ \A j \in Loads : j < b => LoadOf(j)' = LoadOf(j)
         /\ \A j \in Stores : j < b => StoreOf(j)' = StoreOf(j)
<1>1. /\ DOMAIN LQ = 0..(LQsize - 1) /\ DOMAIN SQ = 0..(SQsize - 1)
      /\ inflight[b].kind = "branch"
      /\ inflight' = [SubSeq(inflight, 1, b) EXCEPT ![b].resolved = TRUE]
      /\ LQ' = [l \in DOMAIN LQ |-> IF l \in Survivors(lq_head, inflight[b].lq, LQsize) THEN LQ[l] ELSE NoLoad]
      /\ SQ' = [s \in DOMAIN SQ |-> IF s \in Survivors(sq_head, inflight[b].sq, SQsize) THEN SQ[s] ELSE NoStore]
  BY DEF Restore, TypeOK
<1>2. /\ Survivors(lq_head, inflight[b].lq, LQsize) = {inflight[j].lq.idx : j \in {k \in Loads : k < b}}
      /\ Survivors(sq_head, inflight[b].sq, SQsize) = {inflight[j].sq.idx : j \in {k \in Stores : k < b}}
  BY RestoredQueues
<1>3. ASSUME NEW j \in 1..Len(inflight), j < b
      PROVE  /\ inflight[j].lq.idx \in DOMAIN LQ /\ inflight'[j].lq = inflight[j].lq
             /\ inflight[j].sq.idx \in DOMAIN SQ /\ inflight'[j].sq = inflight[j].sq
  <2>1. j \in 1..b
    BY <1>3, InflightType
  <2> QED BY <1>1, <2>1, InflightType, RestoredInflight
<1>4. ASSUME NEW j \in Loads, j < b PROVE LoadOf(j)' = LoadOf(j)
  <2>1. j \in 1..Len(inflight) /\ j \in {k \in Loads : k < b}
    BY <1>4 DEF Loads
  <2>2. inflight[j].lq.idx \in Survivors(lq_head, inflight[b].lq, LQsize)
    BY <1>2, <2>1
  <2> QED BY <1>1, <1>3, <1>4, <2>1, <2>2 DEF LoadOf
<1>5. ASSUME NEW j \in Stores, j < b PROVE StoreOf(j)' = StoreOf(j)
  <2>1. j \in 1..Len(inflight) /\ j \in {k \in Stores : k < b}
    BY <1>5 DEF Stores
  <2>2. inflight[j].sq.idx \in Survivors(sq_head, inflight[b].sq, SQsize)
    BY <1>2, <2>1
  <2> QED BY <1>1, <1>3, <1>5, <2>1, <2>2 DEF StoreOf
<1> QED BY <1>4, <1>5

\* A misprediction disturbs none of the loads it leaves.
LEMMA RestoreRight ==
  ASSUME TypeOK, InOrder, LoadsAreRight, NEW b \in 1..Len(inflight), Restore(b)
  PROVE  LoadsAreRight'
<1>1. /\ inflight[b].kind = "branch" /\ memory' = memory
      /\ inflight' = [SubSeq(inflight, 1, b) EXCEPT ![b].resolved = TRUE]
  BY DEF Restore
<1>2. /\ Loads' = {j \in Loads : j < b} /\ Stores' = {j \in Stores : j < b}
      /\ \A j \in 1..b : /\ inflight'[j].exception = inflight[j].exception
                         /\ inflight'[j].load_viol = inflight[j].load_viol
  BY <1>1, RestoredInflight
<1>3. ASSUME NEW i \in Loads' PROVE LoadIsRight(i)'
  <2>1. i \in Loads /\ i < b /\ i \in 1..b /\ b \in Nat /\ \A k \in 1..i : k \in 1..b
    BY <1>2, InflightType DEF Loads
  <2>2. \A j \in OlderOf(Stores, i) : j \in Stores /\ j < b
    BY <2>1, InflightType DEF OlderOf, Stores
  <2>3. OlderOf(Stores, i)' = OlderOf(Stores, i)
    BY <1>2, <2>2 DEF OlderOf
  <2>4. /\ LoadOf(i)' = LoadOf(i)
        /\ \A j \in OlderOf(Stores, i) : StoreOf(j)' = StoreOf(j)
    BY <2>1, <2>2, RestoredEntries
  <2>5. Clean(i)' => Clean(i)
    BY <1>2, <2>1 DEF Clean
  <2>6. LoadIsRight(i) /\ inflight'[i].exception = inflight[i].exception
    BY <1>2, <2>1 DEF LoadsAreRight
  <2> QED BY <1>1, <2>3, <2>4, <2>5, <2>6, KeptRight
<1> QED BY <1>3 DEF LoadsAreRight

\* What retires is neither flagged nor excepting, and what is left keeps its entry.
LEMMA RetiredEntries ==
  ASSUME TypeOK, InOrder, CommitLoad \/ CommitStore \/ RetireBranch, NEW n, n = Len(inflight) - 1
  PROVE  /\ n \in Nat /\ Len(inflight) = n + 1 /\ 1 \in 1..Len(inflight) /\ inflight' = Tail(inflight)
         /\ ~inflight[1].exception /\ ~inflight[1].load_viol
         /\ Loads' \in SUBSET (1..n) /\ Stores' \in SUBSET (1..n) /\ Stores \in SUBSET (1..(n + 1))
         /\ \A j \in 1..n : /\ j + 1 \in 1..Len(inflight) /\ inflight'[j] = inflight[j + 1]
                            /\ (j \in Loads' <=> j + 1 \in Loads)
                            /\ (j \in Stores' <=> j + 1 \in Stores)
         /\ \A j \in 1..n : /\ j \in Loads' => LoadOf(j)' = LoadOf(j + 1)
                            /\ j \in Stores' => StoreOf(j)' = StoreOf(j + 1)
<1>1. /\ inflight # <<>> /\ inflight' = Tail(inflight)
      /\ ~Head(inflight).exception /\ ~Head(inflight).load_viol
  BY DEF CommitLoad, CommitStore, RetireBranch, Retires
<1>2. /\ n \in Nat /\ Len(inflight) = n + 1 /\ 1 \in 1..Len(inflight) /\ Head(inflight) = inflight[1]
      /\ Loads' \in SUBSET (1..n) /\ Stores' \in SUBSET (1..n)
      /\ \A j \in 1..n : /\ j + 1 \in 1..Len(inflight) /\ inflight'[j] = inflight[j + 1]
                         /\ (j \in Loads' <=> j + 1 \in Loads)
                         /\ (j \in Stores' <=> j + 1 \in Stores)
  BY <1>1, RetiredInflight
<1>3. Stores \in SUBSET (1..(n + 1))
  BY <1>2 DEF Stores
<1>4. \A j \in 1..n : j + 1 # 1
  BY <1>2
<1>5. ASSUME NEW j \in Loads' PROVE LoadOf(j)' = LoadOf(j + 1)
  <2>1. j \in 1..n /\ j + 1 \in Loads /\ j + 1 # 1 /\ j + 1 \in 1..Len(inflight)
    BY <1>2, <1>4
  <2>2. inflight[j + 1].lq.idx \in 0..(LQsize - 1)
    BY <2>1, InflightType
  <2>3. LQ'[inflight[j + 1].lq.idx] = LQ[inflight[j + 1].lq.idx]
    <3>1. CASE CommitLoad
      <4>1. 1 \in Loads /\ LQ' = [LQ EXCEPT ![lq_head.idx] = NoLoad]
        BY <1>2, <3>1 DEF CommitLoad, Retires, Loads
      <4>2. inflight[1].lq = lq_head /\ inflight[j + 1].lq.idx # inflight[1].lq.idx
        BY <1>2, <2>1, <4>1, OwnEntries
      <4> QED BY <2>2, <4>1, <4>2 DEF TypeOK
    <3>2. CASE CommitStore \/ RetireBranch
      BY <3>2 DEF CommitStore, RetireBranch, lqVars
    <3> QED BY <3>1, <3>2
  <2> QED BY <1>2, <2>1, <2>3 DEF LoadOf
<1>6. ASSUME NEW j \in Stores' PROVE StoreOf(j)' = StoreOf(j + 1)
  <2>1. j \in 1..n /\ j + 1 \in Stores /\ j + 1 # 1 /\ j + 1 \in 1..Len(inflight)
    BY <1>2, <1>4
  <2>2. inflight[j + 1].sq.idx \in 0..(SQsize - 1)
    BY <2>1, InflightType
  <2>3. SQ'[inflight[j + 1].sq.idx] = SQ[inflight[j + 1].sq.idx]
    <3>1. CASE CommitStore
      <4>1. 1 \in Stores /\ SQ' = [SQ EXCEPT ![sq_head.idx] = NoStore]
        BY <1>2, <3>1 DEF CommitStore, Retires, Stores
      <4>2. inflight[1].sq = sq_head /\ inflight[j + 1].sq.idx # inflight[1].sq.idx
        BY <1>2, <2>1, <4>1, OwnEntries
      <4> QED BY <2>2, <4>1, <4>2 DEF TypeOK
    <3>2. CASE CommitLoad \/ RetireBranch
      BY <3>2 DEF CommitLoad, RetireBranch, sqVars
    <3> QED BY <3>1, <3>2
  <2> QED BY <1>2, <2>1, <2>3 DEF StoreOf
<1> QED BY <1>1, <1>2, <1>3, <1>5, <1>6

\* A load or a branch that retires takes nothing from the loads behind it.
LEMMA CommitLoadRight ==
  ASSUME TypeOK, InOrder, LoadsAreRight, CommitLoad \/ RetireBranch
  PROVE  LoadsAreRight'
<1>1. PICK n : n = Len(inflight) - 1
  OBVIOUS
<1>2. 1 \notin Stores /\ memory' = memory
  BY RetiredInflight DEF CommitLoad, RetireBranch, Retires, Stores
<1>3. ASSUME NEW i \in Loads' PROVE LoadIsRight(i)'
  <2>1. i \in 1..n /\ i + 1 \in Loads /\ LoadIsRight(i + 1)
    BY <1>1, RetiredEntries DEF LoadsAreRight
  <2>2. 1 \notin Overlapped(i + 1, LoadOf(i + 1).access)
    BY <1>2 DEF Overlapped, OlderOf
  <2> QED BY <1>1, <1>2, <2>1, <2>2, RetiredEntries, ShiftedRight
<1> QED BY <1>3 DEF LoadsAreRight

\* A store that commits leaves to memory what the loads behind it took from its entry.
LEMMA CommitStoreRight ==
  ASSUME TypeOK, InOrder, LoadsAreRight, CommitStore
  PROVE  LoadsAreRight'
<1>1. PICK n : n = Len(inflight) - 1
  OBVIOUS
<1>2. 1 \in Stores /\ inflight[1].sq = sq_head
  <2>1. 1 \in Stores
    BY RetiredInflight DEF CommitStore, Retires, Stores
  <2> QED BY <2>1, OwnEntries DEF Stores
<1>3. PICK store : store = StoreOf(1)
  OBVIOUS
<1>4. /\ store.access \in Accesses
      /\ memory' = [b \in Byte |-> IF b \in BytesOf(store.access) THEN store.value ELSE memory[b]]
  <2>1. store = SQ[sq_head.idx] /\ store \in StoreEntry /\ store.access # NoAccess
    BY <1>2, <1>3, EntryTypes DEF StoreOf, CommitStore, Stores
  <2> QED BY <2>1 DEF CommitStore, StoreEntry
<1>5. \A a \in Accesses : BytesOf(a) \subseteq Byte
  BY DEF Byte
<1>6. ASSUME NEW i \in Loads' PROVE LoadIsRight(i)'
  <2>1. i \in 1..n /\ i + 1 \in Loads /\ LoadIsRight(i + 1) /\ i + 1 \in 1..Len(inflight)
    BY <1>1, RetiredEntries DEF LoadsAreRight
  <2>2. LoadOf(i + 1).value # NoValue => LoadOf(i + 1).access \in Accesses
    BY <2>1, EntryTypes DEF LoadIsRight, LoadEntry
  <2>3. 1 \in OlderOf(Stores, i + 1)
    BY <1>1, <1>2, <2>1 DEF OlderOf
  <2>4. ASSUME 1 \in Overlapped(i + 1, LoadOf(i + 1).access)
        PROVE  \A b \in BytesOf(StoreOf(1).access) : memory'[b] = StoreOf(1).value
    BY <1>3, <1>4, <1>5
  <2>5. ASSUME 1 \notin Overlapped(i + 1, LoadOf(i + 1).access), LoadOf(i + 1).value # NoValue
        PROVE  \A b \in BytesOf(LoadOf(i + 1).access) : memory'[b] = memory[b]
    <3>1. LoadOf(i + 1).access \in Accesses /\ ~Conflict(store.access, LoadOf(i + 1).access)
      BY <1>3, <1>4, <2>2, <2>3, <2>5, LoadStoreUnitAssumption DEF Overlapped
    <3>2. \A b \in BytesOf(LoadOf(i + 1).access) : b \notin BytesOf(store.access)
      BY <1>4, <3>1, ConflictOfBytes
    <3> QED BY <1>4, <1>5, <3>1, <3>2
  <2>6. 1 \in Stores => StoreOf(1).access # NoAccess
    BY <1>3, <1>4, LoadStoreUnitAssumption
  <2> QED BY <1>1, <2>1, <2>4, <2>5, <2>6, RetiredEntries, ShiftedRight
<1> QED BY <1>6 DEF LoadsAreRight

-----------------------------------------------------------------------------

\* A step keeps the values of the loads right.
LEMMA LoadsAreRightStep == TypeOK /\ InOrder /\ LoadsAreRight /\ [Next]_vars => LoadsAreRight'
<1> SUFFICES ASSUME TypeOK, InOrder, LoadsAreRight, [Next]_vars
             PROVE  LoadsAreRight'
  OBVIOUS
<1>1. ASSUME NEW mdp_stall \in BOOLEAN, DispatchLoad(mdp_stall) PROVE LoadsAreRight'
  BY <1>1, DispatchLoadRight
<1>2. CASE DispatchStore
  BY <1>2, DispatchStoreRight
<1>3. CASE DispatchBranch
  BY <1>3, DispatchBranchRight
<1>4. ASSUME NEW i \in 1..Len(inflight), NEW access \in Accesses, NEW fault \in BOOLEAN,
             StoreAddr(i, access, fault)
      PROVE  LoadsAreRight'
  BY <1>4, StoreAddrRight
<1>5. ASSUME NEW i \in 1..Len(inflight), NEW value \in Value, StoreValue(i, value)
      PROVE  LoadsAreRight'
  BY <1>5, StoreValueRight
<1>6. ASSUME NEW i \in 1..Len(inflight), NEW access \in Accesses, NEW loading \in BOOLEAN,
             NEW fault \in BOOLEAN, LoadAddr(i, access, loading, fault)
      PROVE  LoadsAreRight'
  BY <1>6, LoadAddrRight
<1>7. ASSUME NEW i \in Waiting, NEW fault \in BOOLEAN, LoadUnstall(i, fault)
      PROVE  LoadsAreRight'
  BY <1>7, LoadUnstallRight
<1>8. ASSUME NEW i \in 1..Len(inflight), ResolveCorrect(i) PROVE LoadsAreRight'
  BY <1>8, ResolveCorrectRight
<1>9. ASSUME NEW i \in 1..Len(inflight), Restore(i) PROVE LoadsAreRight'
  BY <1>9, RestoreRight
<1>10. CASE CommitLoad \/ RetireBranch
  BY <1>10, CommitLoadRight
<1>11. CASE CommitStore
  BY <1>11, CommitStoreRight
<1>12. CASE SquashComplete
  <2>1. inflight' = <<>>
    BY <1>12 DEF SquashComplete, EmptyQueues
  <2>2. Len(inflight') = 0
    BY <2>1
  <2>3. Loads' = {}
    BY <2>2 DEF Loads
  <2> QED BY <2>3 DEF LoadsAreRight
<1>13. CASE UNCHANGED vars
  <2>1. ASSUME NEW i \in Loads PROVE LoadIsRight(i)'
    <3>1. /\ LoadIsRight(i) /\ LoadOf(i)' = LoadOf(i) /\ memory' = memory
          /\ \A j : StoreOf(j)' = StoreOf(j)
      BY <1>13 DEF LoadsAreRight, LoadOf, StoreOf, vars, lqVars, sqVars
    <3>2. OlderOf(Stores, i)' = OlderOf(Stores, i) /\ inflight' = inflight
      BY <1>13 DEF OlderOf, Stores, vars
    <3>3. Clean(i)' => Clean(i)
      BY <3>2 DEF Clean
    <3> QED BY <3>1, <3>2, <3>3, KeptRight
  <2>2. Loads' = Loads
    BY <1>13 DEF Loads, vars
  <2> QED BY <2>1, <2>2 DEF LoadsAreRight
<1> QED
  BY <1>1, <1>2, <1>3, <1>4, <1>5, <1>6, <1>7, <1>8, <1>9, <1>10, <1>11, <1>12, <1>13 DEF Next

\* Whatever the order in which addresses and values arrive, whatever is restored, squashed or
\* retired in between, a load that will be allowed to commit has the value of the youngest older
\* store it overlaps, or memory's: what retires unflagged read what the program says.
THEOREM LoadsReadRight == Spec => []UnflaggedLoadsAreRight
<1>1. Init => LoadsAreRight
  <2> SUFFICES ASSUME Init PROVE Loads = {}
    BY DEF LoadsAreRight
  <2>1. Len(inflight) = 0
    BY DEF Init
  <2> QED BY <2>1 DEF Loads
<1>2. TypeOK /\ InOrder /\ LoadsAreRight => UnflaggedLoadsAreRight
  BY LoadsAreRightImplies
<1> QED BY <1>1, <1>2, QueuesInvariant, LoadsAreRightStep, PTL DEF Spec
=============================================================================
