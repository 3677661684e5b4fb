------------------------ MODULE StrideVP_refinement ------------------------
(***************************************************************************)
(* Proof that the stride value predictor implements ValueQueue: the VPQ,   *)
(* read from head to tail, is a first-in first-out queue, and the          *)
(* predictor learns from its oldest entry only.                            *)
(***************************************************************************)
EXTENDS StrideVP_proof

-----------------------------------------------------------------------------
(* The VPQ as a sequence *)

\* SlotAt, Computed and Queue for any table, pointers and sequence of instructions.
SlotFrom(h, k) == IF h.idx + k < VPQsize THEN h.idx + k ELSE h.idx + k - VPQsize

ComputedIn(q, s) == \E i \in 1..Len(q) : q[i].kind = "value" /\ q[i].VPQTail = s /\ q[i].done

EntryOf(table, q, s) ==
  [tag |-> table[s].tag, index |-> table[s].pcIndex,
   value |-> IF ComputedIn(q, s) THEN table[s].value ELSE NotComputed]

QueueOf(table, h, t, q) ==
  [k \in 1..Distance(h, t, VPQsize) |-> EntryOf(table, q, SlotFrom(h, k - 1))]

\* Queue is QueueOf the variables, before and after a step.
LEMMA QueueIs ==
  /\ Queue = QueueOf(vpQueueTable, vpQueue_Head, vpQueue_Tail, inflight)
  /\ Queue' = QueueOf(vpQueueTable', vpQueue_Head', vpQueue_Tail', inflight')
BY DEF Queue, QueueOf, EntryOf, SlotAt, SlotFrom, Computed, ComputedIn

\* The VPQ is a sequence of entries.
LEMMA QueueSeq ==
  ASSUME NEW table, NEW h, NEW t, NEW q, Distance(h, t, VPQsize) \in Nat
  PROVE  /\ Len(QueueOf(table, h, t, q)) = Distance(h, t, VPQsize)
         /\ \A k \in 1..Distance(h, t, VPQsize) :
              QueueOf(table, h, t, q)[k] = EntryOf(table, q, SlotFrom(h, k - 1))
BY DEF QueueOf

\* Slots and offsets from the head.
LEMMA SlotOffsets ==
  ASSUME NEW h \in Pointer(VPQsize)
  PROVE  /\ \A k \in 0..(VPQsize - 1) : /\ SlotFrom(h, k) \in 0..(VPQsize - 1)
                                        /\ OffsetOf(h, SlotFrom(h, k)) = k
         /\ \A s \in 0..(VPQsize - 1) : SlotFrom(h, OffsetOf(h, s)) = s
         /\ SlotFrom(h, 0) = h.idx
         /\ \A k \in 0..(VPQsize - 2) : SlotFrom(Advance(h, VPQsize), k) = SlotFrom(h, k + 1)
BY StrideVPAssumption DEF Pointer, SlotFrom, OffsetOf, Advance

\* An entry with the same contents and the same answer to whether it is computed is the same.
LEMMA EntrySame ==
  ASSUME NEW table, NEW table2, NEW q, NEW r, NEW s, table2[s] = table[s],
         ComputedIn(r, s) <=> ComputedIn(q, s)
  PROVE  EntryOf(table2, r, s) = EntryOf(table, q, s)
BY DEF EntryOf

\* Moving the tail back, or nowhere, leaves a prefix.
LEMMA QueuePrefix ==
  ASSUME NEW table, NEW table2, NEW h, NEW t, NEW u, NEW q, NEW r,
         Distance(h, t, VPQsize) \in Nat, Distance(h, u, VPQsize) \in 0..Distance(h, t, VPQsize),
         \A k \in 0..(Distance(h, u, VPQsize) - 1) :
           EntryOf(table2, r, SlotFrom(h, k)) = EntryOf(table, q, SlotFrom(h, k))
  PROVE  QueueOf(table2, h, u, r) = SubSeq(QueueOf(table, h, t, q), 1, Distance(h, u, VPQsize))
<1> DEFINE n == Distance(h, u, VPQsize)
           m == Distance(h, t, VPQsize)
           e(k) == EntryOf(table, q, SlotFrom(h, k - 1))
<1>1. \A k \in 1..n : EntryOf(table2, r, SlotFrom(h, k - 1)) = e(k)
  OBVIOUS
<1>2. QueueOf(table2, h, u, r) = [k \in 1..n |-> e(k)] /\ QueueOf(table, h, t, q) = [k \in 1..m |-> e(k)]
  BY <1>1 DEF QueueOf
<1>3. n \in Nat /\ m \in Nat /\ n <= m
  OBVIOUS
<1> HIDE DEF n, m, e
<1> QED BY <1>2, <1>3 DEF n

\* Moving the tail by an entry appends it.
LEMMA QueueAppend ==
  ASSUME NEW table, NEW table2, NEW h, NEW t, NEW u, NEW q, NEW r,
         Distance(h, t, VPQsize) \in Nat, Distance(h, u, VPQsize) = Distance(h, t, VPQsize) + 1,
         \A k \in 0..(Distance(h, t, VPQsize) - 1) :
           EntryOf(table2, r, SlotFrom(h, k)) = EntryOf(table, q, SlotFrom(h, k))
  PROVE  QueueOf(table2, h, u, r) =
           Append(QueueOf(table, h, t, q),
                  EntryOf(table2, r, SlotFrom(h, Distance(h, t, VPQsize))))
<1> DEFINE m == Distance(h, t, VPQsize)
           e(k) == EntryOf(table, q, SlotFrom(h, k - 1))
           f(k) == EntryOf(table2, r, SlotFrom(h, k - 1))
<1>1. \A k \in 1..m : f(k) = e(k)
  OBVIOUS
<1>2. /\ QueueOf(table2, h, u, r) = [k \in 1..(m + 1) |-> f(k)]
      /\ QueueOf(table, h, t, q) = [k \in 1..m |-> e(k)]
  BY DEF QueueOf
<1>3. EntryOf(table2, r, SlotFrom(h, m)) = f(m + 1) /\ m \in Nat
  OBVIOUS
<1> HIDE DEF m, e, f
<1>4. [k \in 1..(m + 1) |-> f(k)] = Append([k \in 1..m |-> e(k)], f(m + 1))
  BY <1>1, <1>3
<1> QED BY <1>2, <1>3, <1>4 DEF m

\* Moving the head over an entry removes the oldest.
LEMMA QueueTail ==
  ASSUME NEW table, NEW table2, NEW h \in Pointer(VPQsize), NEW t \in Pointer(VPQsize),
         NEW q, NEW r, Ordered(h, t), Distance(h, t, VPQsize) > 0,
         \A k \in 1..(Distance(h, t, VPQsize) - 1) :
           EntryOf(table2, r, SlotFrom(h, k)) = EntryOf(table, q, SlotFrom(h, k))
  PROVE  QueueOf(table2, Advance(h, VPQsize), t, r) = Tail(QueueOf(table, h, t, q))
<1> DEFINE m == Distance(h, t, VPQsize)
           g == Advance(h, VPQsize)
           e(k) == EntryOf(table, q, SlotFrom(h, k - 1))
<1>1. Distance(g, t, VPQsize) = m - 1 /\ m \in 1..VPQsize
  BY AdvanceHead, DistanceType, StrideVPAssumption
<1>2. \A k \in 1..(m - 1) : SlotFrom(g, k - 1) = SlotFrom(h, k)
  BY <1>1, SlotOffsets, StrideVPAssumption
<1>3. \A k \in 1..(m - 1) : EntryOf(table2, r, SlotFrom(g, k - 1)) = e(k + 1)
  BY <1>1, <1>2
<1>4. QueueOf(table2, g, t, r) = [k \in 1..(m - 1) |-> e(k + 1)] /\ QueueOf(table, h, t, q) = [k \in 1..m |-> e(k)]
  BY <1>1, <1>3 DEF QueueOf
<1>5. m \in Nat \ {0}
  BY <1>1, StrideVPAssumption
<1> HIDE DEF m, e, g
<1>6. [k \in 1..(m - 1) |-> e(k + 1)] = Tail([k \in 1..m |-> e(k)])
  BY <1>5
<1> QED BY <1>4, <1>6 DEF g

-----------------------------------------------------------------------------
(* What the predictor knows *)

\* Counting an instance changes nothing of what an entry knows.
LEMMA KnownCount ==
  ASSUME NEW e \in SVPEntry, NEW tag
  PROVE  Known(CountInstance(e, tag)) = Known(e)
BY DEF Known, CountInstance, SVPEntry

\* What is learned does not depend on the instances in flight.
LEMMA KnownTrained ==
  ASSUME NEW e \in SVPEntry, NEW tag, NEW value, NEW count
  PROVE  Known(Trained(e, tag, value, count)) = KnownAfter(Known(e), tag, value)
<1> DEFINE b == [tag |-> e.tag, conf |-> e.conf, retVal |-> e.retVal, stride |-> e.stride,
                 instance |-> 0]
<1>1. KnownAfter(Known(e), tag, value) = Known(Trained(b, tag, value, 0))
  BY DEF KnownAfter, Known
<1>2. CASE e.tag = tag
  BY <1>1, <1>2 DEF Trained, Known, SVPEntry
<1>3. CASE e.tag # tag /\ e.conf <= Replace
  BY <1>1, <1>3 DEF Trained, Known, SVPEntry
<1>4. CASE e.tag # tag /\ ~(e.conf <= Replace)
  BY <1>1, <1>4 DEF Trained, Known, SVPEntry
<1> QED BY <1>2, <1>3, <1>4

\* Entries that know the same make the same predictor.
LEMMA PredictorSame ==
  ASSUME \A index \in Index : Known(svp'[index]) = Known(svp[index])
  PROVE  UNCHANGED Predictor
BY DEF Predictor

\* A complete squash resets counters only, whatever the table.
LEMMA KnownNoInstances ==
  ASSUME NEW table \in [Index -> SVPEntry], NEW index \in Index
  PROVE  Known(NoInstances(table)[index]) = Known(table[index])
<1>1. NoInstances(table)[index] = [table[index] EXCEPT !.instance = 0] /\ table[index] \in SVPEntry
  BY DEF NoInstances
<1> QED BY <1>1 DEF Known, SVPEntry

\* A rollback changes counters only.
LEMMA KnownWalk ==
  ASSUME svp \in [Index -> SVPEntry], NEW from, NEW index \in Index
  PROVE  Known(WalkDecreament(from)[index]) = Known(svp[index])
<1> DEFINE n == WrapSub(svp[index].instance,
                        Cardinality(Matching(vpQueueTable, from, vpQueue_Tail, svp[index].tag, index)),
                        InstanceMod)
<1>1. WalkDecreament(from)[index] = [svp[index] EXCEPT !.instance = n] /\ svp[index] \in SVPEntry
  BY DEF WalkDecreament
<1> HIDE DEF n
<1> QED BY <1>1 DEF Known, SVPEntry

-----------------------------------------------------------------------------
(* Each step of the VPQ is a step of the queue *)

\* Nothing is known of the values and nothing is in flight at the start.
LEMMA RefineInit == Init => VQ!Init
<1> SUFFICES ASSUME Init PROVE VQ!Init
  OBVIOUS
<1>1. Queue = <<>>
  BY DistanceZero, OriginType, StrideVPAssumption DEF Queue, Init
<1>2. Predictor = [index \in Index |-> KnownBlank]
  BY DEF Predictor, Init, Known, KnownBlank
<1> QED BY <1>1, <1>2 DEF VQ!Init

\* What every step of the proof starts from.
LEMMA RefineFacts ==
  ASSUME TypeInv, OrderInv
  PROVE  /\ vpQueue_Head \in Pointer(VPQsize) /\ vpQueue_Tail \in Pointer(VPQsize)
         /\ Ordered(vpQueue_Head, vpQueue_Tail)
         /\ Distance(vpQueue_Head, vpQueue_Tail, VPQsize) \in 0..VPQsize
         /\ Distance(vpQueue_Head, vpQueue_Tail, VPQsize) \in Nat
         /\ inflight \in Seq(Payload) /\ Len(inflight) \in Nat
         /\ \A i \in 1..Len(inflight) : inflight[i] \in Payload
         /\ vpQueueTable \in [0..(VPQsize - 1) -> VPQEntry]
         /\ svp \in [Index -> SVPEntry]
         /\ Len(Queue) = Distance(vpQueue_Head, vpQueue_Tail, VPQsize)
         /\ \A k \in 1..Distance(vpQueue_Head, vpQueue_Tail, VPQsize) :
              Queue[k] = EntryOf(vpQueueTable, inflight, SlotFrom(vpQueue_Head, k - 1))
<1>1. Distance(vpQueue_Head, vpQueue_Tail, VPQsize) \in Nat
  BY QueueFacts, StrideVPAssumption
<1> QED BY <1>1, QueueFacts, QueueIs, QueueSeq DEF TypeInv, TypeOK

\* An instruction that is not computed, or not eligible, adds no computed entry.
LEMMA ComputedAppend ==
  ASSUME NEW q \in Seq(Payload), NEW w, w.kind # "value" \/ ~w.done, NEW s
  PROVE  ComputedIn(Append(q, w), s) <=> ComputedIn(q, s)
<1>1. /\ Len(Append(q, w)) = Len(q) + 1 /\ Len(q) \in Nat
      /\ \A i \in 1..Len(q) : Append(q, w)[i] = q[i]
      /\ Append(q, w)[Len(q) + 1] = w
  OBVIOUS
<1> QED BY <1>1 DEF ComputedIn

\* A step that changes neither the VPQ nor who has computed changes nothing of the queue.
LEMMA QueueSame ==
  ASSUME TypeInv, OrderInv, UNCHANGED <<vpQueueTable, vpQueue_Head, vpQueue_Tail>>,
         \A s : ComputedIn(inflight', s) <=> ComputedIn(inflight, s)
  PROVE  UNCHANGED Queue
<1> DEFINE m == Distance(vpQueue_Head, vpQueue_Tail, VPQsize)
<1>1. \A s : EntryOf(vpQueueTable, inflight', s) = EntryOf(vpQueueTable, inflight, s)
  BY EntrySame
<1>2. QueueOf(vpQueueTable, vpQueue_Head, vpQueue_Tail, inflight') =
        QueueOf(vpQueueTable, vpQueue_Head, vpQueue_Tail, inflight)
  BY <1>1 DEF QueueOf
<1>3. Queue' = QueueOf(vpQueueTable', vpQueue_Head', vpQueue_Tail', inflight')
  BY QueueIs
<1> QED BY <1>2, <1>3, QueueIs

\* A renamed branch has no entry.
LEMMA RenameBranchRefines ==
  ASSUME TypeInv, OrderInv, RenameBranch
  PROVE  UNCHANGED <<Queue, Predictor>>
<1>1. /\ UNCHANGED <<svp, vpQueueTable, vpQueue_Head, vpQueue_Tail>>
      /\ inflight' = Append(inflight, BranchPayload)
  BY DEF RenameBranch, BranchPayload, vpqVars
<1>2. \A s : ComputedIn(inflight', s) <=> ComputedIn(inflight, s)
  BY <1>1, RefineFacts, ComputedAppend DEF BranchPayload
<1> QED BY <1>1, <1>2, QueueSame DEF Predictor

\* A renamed eligible instruction is pushed.
LEMMA RenameEligibleRefines ==
  ASSUME TypeInv, OrderInv, RenameEligible
  PROVE  \E tag \in Tag, index \in Index : VQ!Push(tag, index)
<1> DEFINE pc    == Head(RENAME2).pc
           tag   == extractTag(pc)
           index == extractPCIndex(pc)
           e     == CountInstance(svp[index], tag)
           w     == [kind |-> "value", pc |-> pc,
                     VPQTail |-> vpQueue_Tail.idx, VPQTailPhase |-> 0,
                     predictedValue |-> IF e.tag = tag THEN Prediction(e) ELSE 0,
                     isConfident |-> e.tag = tag /\ e.conf = confMax,
                     done |-> FALSE, value |-> 0, val_misp |-> FALSE]
           m     == Distance(vpQueue_Head, vpQueue_Tail, VPQsize)
           new   == [tag |-> tag, pcIndex |-> index, value |-> 0]
<1>1. /\ svp' = [svp EXCEPT ![index] = e]
      /\ vpQueueTable' = [vpQueueTable EXCEPT ![vpQueue_Tail.idx] = new]
      /\ vpQueue_Head' = vpQueue_Head /\ vpQueue_Tail' = Advance(vpQueue_Tail, VPQsize)
      /\ inflight' = Append(inflight, w)
      /\ renaming /\ Head(RENAME2).kind = "value"
  BY DEF RenameEligible
<1>2. w.kind = "value" /\ ~w.done /\ w.VPQTail = vpQueue_Tail.idx
  OBVIOUS
<1>3. tag \in Tag /\ index \in Index
  <2>1. Head(RENAME2) \in Instruction
    BY <1>1, HeadTailProperties DEF TypeInv, TypeOK, RenamingHasBundle
  <2> QED BY <2>1, InstructionType, ExtractType
<1>4. m < VPQsize /\ m \in Nat
  BY <1>1, RoomForHead, RefineFacts
<1>5. UNCHANGED Predictor
  <2>1. \A i \in Index : Known(svp'[i]) = Known(svp[i])
    BY <1>1, <1>3, RefineFacts, KnownCount
  <2> QED BY <2>1, PredictorSame
<1> HIDE DEF w, tag, index, e
<1>6. \A s : ComputedIn(inflight', s) <=> ComputedIn(inflight, s)
  BY <1>1, <1>2, RefineFacts, ComputedAppend
<1>7. SlotFrom(vpQueue_Head, m) = vpQueue_Tail.idx
  <2>1. OffsetOf(vpQueue_Head, vpQueue_Tail.idx) = m
    BY <1>4, RefineFacts, OffsetOfTail
  <2> QED BY <2>1, RefineFacts, SlotOffsets DEF Pointer
<1>8. ASSUME NEW k \in 0..(m - 1)
      PROVE  EntryOf(vpQueueTable', inflight', SlotFrom(vpQueue_Head, k)) =
               EntryOf(vpQueueTable, inflight, SlotFrom(vpQueue_Head, k))
  <2>1. SlotFrom(vpQueue_Head, k) # SlotFrom(vpQueue_Head, m)
    BY <1>4, RefineFacts, SlotOffsets, StrideVPAssumption
  <2>2. vpQueueTable'[SlotFrom(vpQueue_Head, k)] = vpQueueTable[SlotFrom(vpQueue_Head, k)]
    BY <1>1, <1>7, <2>1, RefineFacts
  <2> QED BY <1>6, <2>2, EntrySame
<1>9. EntryOf(vpQueueTable', inflight', vpQueue_Tail.idx) =
        [tag |-> tag, index |-> index, value |-> NotComputed]
  <2>1. ~ComputedIn(inflight', vpQueue_Tail.idx)
    BY <1>4, <1>6, TailEntryFree DEF ComputedIn
  <2>2. vpQueueTable'[vpQueue_Tail.idx] = [tag |-> tag, pcIndex |-> index, value |-> 0]
    BY <1>1, RefineFacts DEF Pointer
  <2> QED BY <2>1, <2>2 DEF EntryOf
<1>10. Distance(vpQueue_Head, vpQueue_Tail', VPQsize) = m + 1
  BY <1>1, <1>4, RefineFacts, AdvanceTail, StrideVPAssumption
<1>11. QueueOf(vpQueueTable', vpQueue_Head, vpQueue_Tail', inflight') =
         Append(Queue, EntryOf(vpQueueTable', inflight', vpQueue_Tail.idx))
  BY <1>4, <1>7, <1>8, <1>10, QueueAppend, QueueIs
<1>12. Queue' = QueueOf(vpQueueTable', vpQueue_Head, vpQueue_Tail', inflight')
  BY <1>1, QueueIs
<1>13. VQ!Push(tag, index)
  BY <1>4, <1>5, <1>9, <1>11, <1>12, RefineFacts DEF VQ!Push
<1> QED BY <1>3, <1>13

\* A computed value goes into its instruction's entry, which nothing had computed before.
LEMMA SetValueRefines ==
  ASSUME TypeInv, OrderInv, NEW i \in 1..Len(inflight), NEW value \in Value, SetValue(i, value)
  PROVE  \E k \in 1..Len(Queue) : VQ!Fill(k, value)
<1> DEFINE s == inflight[i].VPQTail
           m == Distance(vpQueue_Head, vpQueue_Tail, VPQsize)
           k == OffsetOf(vpQueue_Head, s) + 1
<1>1. /\ UNCHANGED <<svp, vpQueue_Head, vpQueue_Tail>>
      /\ vpQueueTable' = [vpQueueTable EXCEPT ![s].value = value]
      /\ inflight[i].kind = "value" /\ ~inflight[i].done
      /\ inflight' = [inflight EXCEPT ![i].done = TRUE, ![i].value = value,
                        ![i].val_misp = ~oracleConf /\ inflight[i].isConfident
                                        /\ value # inflight[i].predictedValue]
  BY DEF SetValue
<1>2. s \in 0..(VPQsize - 1) /\ inflight[i] \in Payload
  BY RefineFacts DEF Payload
<1>3. k \in 1..m /\ SlotFrom(vpQueue_Head, k - 1) = s
  <2>1. /\ PositionOf(vpQueue_Head, inflight[i]) = OffsetOf(vpQueue_Head, s)
        /\ PositionOf(vpQueue_Head, inflight[i]) \in 0..VPQsize
        /\ TakesOf(inflight[i]) = 1
    BY <1>1, <1>2, RefineFacts, PositionType DEF PositionOf
  <2>2. PositionOf(vpQueue_Head, inflight[i]) + TakesOf(inflight[i]) <= m
    BY DEF OrderInv, InOrder
  <2>3. SlotFrom(vpQueue_Head, OffsetOf(vpQueue_Head, s)) = s
    BY <1>2, RefineFacts, SlotOffsets
  <2>4. k - 1 = OffsetOf(vpQueue_Head, s)
    BY <2>1, StrideVPAssumption
  <2> QED BY <2>1, <2>2, <2>3, <2>4, RefineFacts, StrideVPAssumption
<1> HIDE DEF k
<1>4. \A r \in 1..m : SlotFrom(vpQueue_Head, r - 1) = s => r = k
  <2>1. \A r \in 1..m : r - 1 \in 0..(VPQsize - 1)
    BY RefineFacts, StrideVPAssumption
  <2>2. k - 1 \in 0..(VPQsize - 1) /\ k \in Int
    BY <1>3, <2>1
  <2>3. \A r \in 1..m : OffsetOf(vpQueue_Head, SlotFrom(vpQueue_Head, r - 1)) = r - 1
    BY <2>1, RefineFacts, SlotOffsets
  <2> QED BY <1>3, <2>2, <2>3
<1>5. /\ Len(inflight') = Len(inflight)
      /\ \A j \in 1..Len(inflight) : j # i => inflight'[j] = inflight[j]
      /\ inflight'[i].kind = "value" /\ inflight'[i].VPQTail = s
  BY <1>1, RefineFacts, SetValueEffect
<1>6. inflight'[i].done
  <2> DEFINE w == [inflight[i] EXCEPT !.done = TRUE, !.value = value,
                     !.val_misp = ~oracleConf /\ inflight[i].isConfident
                                  /\ value # inflight[i].predictedValue]
  <2>1. w.done
    BY <1>2 DEF Payload
  <2>2. inflight' = [inflight EXCEPT ![i] = w]
    BY <1>1
  <2> HIDE DEF w
  <2> QED BY <2>1, <2>2, RefineFacts
<1>7. ComputedIn(inflight', s)
  BY <1>5, <1>6 DEF ComputedIn
<1>8. ~ComputedIn(inflight, s)
  BY <1>1, EntriesDistinct DEF ComputedIn
<1>9. ASSUME NEW x, x # s
      PROVE  ComputedIn(inflight', x) <=> ComputedIn(inflight, x)
  BY <1>5, <1>9 DEF ComputedIn
<1>10. ASSUME NEW r \in 1..m, r # k
       PROVE  Queue'[r] = Queue[r]
  <2>1. SlotFrom(vpQueue_Head, r - 1) # s
    BY <1>4, <1>10
  <2>2. vpQueueTable'[SlotFrom(vpQueue_Head, r - 1)] = vpQueueTable[SlotFrom(vpQueue_Head, r - 1)]
    BY <1>1, <1>2, <2>1, RefineFacts
  <2>3. EntryOf(vpQueueTable', inflight', SlotFrom(vpQueue_Head, r - 1)) =
          EntryOf(vpQueueTable, inflight, SlotFrom(vpQueue_Head, r - 1))
    BY <1>9, <2>1, <2>2, EntrySame
  <2> QED BY <1>1, <2>3, RefineFacts, QueueIs, QueueSeq
<1>11. /\ Queue[k] = EntryOf(vpQueueTable, inflight, s)
       /\ Queue'[k] = EntryOf(vpQueueTable', inflight', s)
  BY <1>1, <1>3, RefineFacts, QueueIs, QueueSeq
<1>12. Queue[k].value = NotComputed
  BY <1>8, <1>11 DEF EntryOf
<1>13. Queue'[k] = [Queue[k] EXCEPT !.value = value]
  <2>1. /\ vpQueueTable'[s].tag = vpQueueTable[s].tag
        /\ vpQueueTable'[s].pcIndex = vpQueueTable[s].pcIndex
        /\ vpQueueTable'[s].value = value
    BY <1>1, <1>2, RefineFacts DEF VPQEntry
  <2> QED BY <1>7, <1>11, <2>1 DEF EntryOf
<1>14. Queue' = [Queue EXCEPT ![k] = [Queue[k] EXCEPT !.value = value]]
  <2>1. Queue = [r \in 1..m |-> Queue[r]] /\ Queue' = [r \in 1..m |-> Queue'[r]]
    BY <1>1, QueueIs DEF QueueOf
  <2> HIDE DEF m
  <2> QED BY <1>3, <1>10, <1>13, <2>1
<1>15. Queue' = [Queue EXCEPT ![k].value = value]
  BY <1>3, <1>14, RefineFacts
<1>16. UNCHANGED Predictor
  BY <1>1 DEF Predictor
<1> QED BY <1>3, <1>12, <1>15, <1>16, RefineFacts DEF VQ!Fill

\* A resolved branch has no entry.
LEMMA ResolveCorrectRefines ==
  ASSUME TypeInv, OrderInv, NEW i \in 1..Len(inflight), ResolveCorrect(i)
  PROVE  UNCHANGED <<Queue, Predictor>>
<1>1. /\ UNCHANGED <<svp, vpQueueTable, vpQueue_Head, vpQueue_Tail>>
      /\ inflight' = [inflight EXCEPT ![i].done = TRUE]
      /\ inflight[i].kind = "branch" /\ inflight[i] \in Payload
  BY RefineFacts DEF ResolveCorrect, vpqVars
<1>2. /\ Len(inflight') = Len(inflight)
      /\ \A j \in 1..Len(inflight) : j # i => inflight'[j] = inflight[j]
      /\ inflight'[i].kind = "branch"
  BY <1>1, RefineFacts DEF Payload
<1>3. \A s : ComputedIn(inflight', s) <=> ComputedIn(inflight, s)
  BY <1>1, <1>2 DEF ComputedIn
<1> QED BY <1>1, <1>3, QueueSame DEF Predictor

\* A rollback squashes what is behind the tail that the branch checkpointed.
LEMMA MispredictRefines ==
  ASSUME TypeInv, TypeInv', OrderInv, OrderInv', NEW i \in 1..Len(inflight), Mispredict(i)
  PROVE  \E k \in 0..Len(Queue) : VQ!Squash(k)
<1> DEFINE c == Checkpointed(inflight[i])
           n == Distance(vpQueue_Head, c, VPQsize)
           m == Distance(vpQueue_Head, vpQueue_Tail, VPQsize)
<1>1. /\ svp' = WalkDecreament(c) /\ vpQueue_Tail' = c
      /\ UNCHANGED <<vpQueueTable, vpQueue_Head>>
      /\ inflight' = [SubSeq(inflight, 1, i) EXCEPT ![i].done = TRUE]
      /\ inflight[i].kind = "branch" /\ inflight[i] \in Payload
  BY RefineFacts DEF Mispredict
<1>2. n \in 0..m /\ m \in Nat /\ n <= VPQsize
  <2>1. PositionOf(vpQueue_Head, inflight[i]) = n /\ TakesOf(inflight[i]) = 0
    BY <1>1 DEF PositionOf, TakesOf
  <2>2. n + 0 <= m
    BY <2>1 DEF OrderInv, InOrder
  <2>3. n \in 0..VPQsize
    BY <1>1, <2>1, RefineFacts, PositionType DEF OrderInv, InOrder
  <2> QED BY <2>2, <2>3, RefineFacts, StrideVPAssumption
<1>3. /\ Len(inflight') = i
      /\ \A j \in 1..i : j # i => inflight'[j] = inflight[j]
      /\ inflight'[i].kind = "branch"
  <2> DEFINE q == SubSeq(inflight, 1, i)
             w == [inflight[i] EXCEPT !.done = TRUE]
  <2>1. q \in Seq(Payload) /\ Len(q) = i /\ \A j \in 1..i : q[j] = inflight[j]
    BY RefineFacts
  <2>2. w.kind = "branch"
    BY <1>1 DEF Payload
  <2>3. i \in 1..i /\ q[i] = inflight[i]
    BY <2>1, RefineFacts
  <2>4. inflight' = [q EXCEPT ![i] = w]
    BY <1>1, <2>3
  <2> HIDE DEF q, w
  <2> QED BY <2>1, <2>2, <2>3, <2>4
<1>4. ASSUME NEW k \in 0..(n - 1)
      PROVE  ComputedIn(inflight', SlotFrom(vpQueue_Head, k)) <=>
               ComputedIn(inflight, SlotFrom(vpQueue_Head, k))
  <2> DEFINE s == SlotFrom(vpQueue_Head, k)
  <2>1. OffsetOf(vpQueue_Head, s) = k
    BY <1>2, RefineFacts, SlotOffsets, StrideVPAssumption
  <2>2. ASSUME NEW j \in 1..Len(inflight), inflight[j].kind = "value", inflight[j].VPQTail = s
        PROVE  j < i
    <3>1. PositionOf(vpQueue_Head, inflight[j]) = k
      BY <2>1, <2>2 DEF PositionOf
    <3>2. PositionOf(vpQueue_Head, inflight[i]) = n /\ TakesOf(inflight[i]) = 0
      BY <1>1 DEF PositionOf, TakesOf
    <3>3. i < j => n + 0 <= k
      BY <3>1, <3>2 DEF OrderInv, InOrder
    <3> QED BY <1>1, <1>2, <2>2, <3>3, RefineFacts
  <2> HIDE DEF s
  <2>3. ASSUME ComputedIn(inflight, s) PROVE ComputedIn(inflight', s)
    <3>1. PICK j \in 1..Len(inflight) :
            inflight[j].kind = "value" /\ inflight[j].VPQTail = s /\ inflight[j].done
      BY <2>3 DEF ComputedIn
    <3>2. j < i /\ j \in 1..i
      BY <2>2, <3>1, RefineFacts
    <3>3. j \in 1..Len(inflight') /\ inflight'[j] = inflight[j]
      BY <1>3, <3>2
    <3> QED BY <3>1, <3>3 DEF ComputedIn
  <2>4. ASSUME ComputedIn(inflight', s) PROVE ComputedIn(inflight, s)
    <3>1. PICK j \in 1..Len(inflight') :
            inflight'[j].kind = "value" /\ inflight'[j].VPQTail = s /\ inflight'[j].done
      BY <2>4 DEF ComputedIn
    <3>2. j \in 1..i /\ j # i
      BY <1>3, <3>1
    <3>3. j \in 1..Len(inflight) /\ inflight'[j] = inflight[j]
      BY <1>3, <3>2, RefineFacts
    <3> QED BY <3>1, <3>3 DEF ComputedIn
  <2>5. ComputedIn(inflight', s) <=> ComputedIn(inflight, s)
    BY <2>3, <2>4
  <2> QED BY <2>5 DEF s
<1>5. \A k \in 0..(n - 1) :
        EntryOf(vpQueueTable, inflight', SlotFrom(vpQueue_Head, k)) =
          EntryOf(vpQueueTable, inflight, SlotFrom(vpQueue_Head, k))
  BY <1>4, EntrySame
<1>6. QueueOf(vpQueueTable, vpQueue_Head, c, inflight') =
        SubSeq(QueueOf(vpQueueTable, vpQueue_Head, vpQueue_Tail, inflight), 1, n)
  BY <1>2, <1>5, QueuePrefix
<1>7. Queue' = SubSeq(Queue, 1, n)
  BY <1>1, <1>6, QueueIs
<1>8. UNCHANGED Predictor
  BY <1>1, RefineFacts, KnownWalk, PredictorSame
<1> QED BY <1>2, <1>7, <1>8, RefineFacts DEF VQ!Squash

\* A branch that retires has no entry.
LEMMA RetireBranchRefines ==
  ASSUME TypeInv, OrderInv, RetireBranch
  PROVE  UNCHANGED <<Queue, Predictor>>
<1>1. /\ UNCHANGED <<svp, vpQueueTable, vpQueue_Head, vpQueue_Tail>>
      /\ inflight # <<>> /\ inflight' = Tail(inflight) /\ inflight[1].kind = "branch"
  BY RefineFacts DEF RetireBranch, vpqVars
<1>2. Len(inflight') = Len(inflight) - 1 /\ \A j \in 1..Len(inflight') : inflight'[j] = inflight[j + 1]
  BY <1>1, RefineFacts
<1>3. ASSUME NEW s
      PROVE  ComputedIn(inflight', s) <=> ComputedIn(inflight, s)
  <2>1. ASSUME ComputedIn(inflight', s) PROVE ComputedIn(inflight, s)
    <3>1. PICK j \in 1..Len(inflight') :
            inflight'[j].kind = "value" /\ inflight'[j].VPQTail = s /\ inflight'[j].done
      BY <2>1 DEF ComputedIn
    <3>2. j + 1 \in 1..Len(inflight) /\ inflight'[j] = inflight[j + 1]
      BY <1>2, <3>1, RefineFacts
    <3> QED BY <3>1, <3>2 DEF ComputedIn
  <2>2. ASSUME ComputedIn(inflight, s) PROVE ComputedIn(inflight', s)
    <3>1. PICK j \in 1..Len(inflight) :
            inflight[j].kind = "value" /\ inflight[j].VPQTail = s /\ inflight[j].done
      BY <2>2 DEF ComputedIn
    <3>2. j - 1 \in 1..Len(inflight') /\ inflight'[j - 1] = inflight[j]
      BY <1>1, <1>2, <3>1, RefineFacts
    <3> QED BY <3>1, <3>2 DEF ComputedIn
  <2> QED BY <2>1, <2>2
<1> QED BY <1>1, <1>3, QueueSame DEF Predictor

\* Training is learning the value of the oldest entry.
LEMMA TrainRefines ==
  ASSUME TypeInv, OrderInv, VPQEntryBelongsToOwner, inflight # <<>>,
         Head(inflight).kind = "value", Head(inflight).done,
         \A i \in Index : Known(svp'[i]) = Known(Train(Head(inflight).pc)[i])
  PROVE  VQ!LearnHead /\ Len(Queue) > 0
<1> DEFINE w     == inflight[1]
           tag   == extractTag(w.pc)
           index == extractPCIndex(w.pc)
           entry == vpQueueTable[vpQueue_Head.idx]
           count == speculateInstance(tag, index)
<1>1. /\ w = Head(inflight) /\ 1 \in 1..Len(inflight) /\ w \in Payload
      /\ w.kind = "value" /\ w.done
  BY RefineFacts, EmptySeq
<1>2. /\ w.VPQTail = vpQueue_Head.idx
      /\ Distance(vpQueue_Head, vpQueue_Tail, VPQsize) > 0
  BY <1>1, HeadEntryOwned
<1>3. Queue[1] = EntryOf(vpQueueTable, inflight, vpQueue_Head.idx) /\ Len(Queue) > 0
  <2>1. SlotFrom(vpQueue_Head, 1 - 1) = vpQueue_Head.idx
    BY RefineFacts, SlotOffsets
  <2> QED BY <1>2, <2>1, RefineFacts
<1>4. ComputedIn(inflight, vpQueue_Head.idx)
  BY <1>1, <1>2 DEF ComputedIn
<1>5. entry.tag = tag /\ entry.pcIndex = index
  BY <1>1, <1>2 DEF VPQEntryBelongsToOwner
<1>6. entry.value \in Value /\ entry.value # NotComputed /\ index \in Index
  <2>1. entry \in VPQEntry
    BY RefineFacts DEF Pointer
  <2>2. w.pc \in Nat
    BY <1>1 DEF Payload
  <2> QED BY <2>1, <2>2, ExtractType, StrideVPAssumption DEF VPQEntry, Value, NotComputed
<1>7. Queue # <<>> /\ Head(Queue) = Queue[1]
  BY <1>3
<1>8. Head(Queue).tag = tag /\ Head(Queue).index = index /\ Head(Queue).value = entry.value
  BY <1>3, <1>4, <1>5, <1>7 DEF EntryOf
<1>9. Train(w.pc) = [svp EXCEPT ![index] = Trained(svp[index], tag, entry.value, count)]
  BY DEF Train
<1> HIDE DEF w, tag, index, entry, count
<1>10. /\ Known(svp'[index]) = KnownAfter(Known(svp[index]), tag, entry.value)
       /\ \A i \in Index : i # index => Known(svp'[i]) = Known(svp[i])
  <2>1. Train(Head(inflight).pc) = [svp EXCEPT ![index] = Trained(svp[index], tag, entry.value, count)]
    BY <1>1, <1>9
  <2>2. \A i \in Index : Known(svp'[i]) = Known(Train(Head(inflight).pc)[i])
    OBVIOUS
  <2>3. /\ Train(Head(inflight).pc)[index] = Trained(svp[index], tag, entry.value, count)
        /\ \A i \in Index : i # index => Train(Head(inflight).pc)[i] = svp[i]
    BY <1>6, <2>1, RefineFacts
  <2>4. svp[index] \in SVPEntry
    BY <1>6, RefineFacts
  <2>5. Known(Trained(svp[index], tag, entry.value, count)) =
          KnownAfter(Known(svp[index]), tag, entry.value)
    BY <2>4, KnownTrained
  <2> QED BY <1>6, <2>2, <2>3, <2>5
<1>11. Predictor' = [Predictor EXCEPT ![index] =
                       KnownAfter(Predictor[index], tag, entry.value)]
  BY <1>6, <1>10 DEF Predictor
<1> QED BY <1>3, <1>6, <1>7, <1>8, <1>11 DEF VQ!LearnHead

\* An eligible instruction that retires is the oldest of the queue.
LEMMA RetireEligibleRefines ==
  ASSUME TypeInv, OrderInv, VPQEntryBelongsToOwner, RetireEligible
  PROVE  VQ!Pop
<1> DEFINE m == Distance(vpQueue_Head, vpQueue_Tail, VPQsize)
<1>1. /\ inflight # <<>> /\ Head(inflight).kind = "value" /\ Head(inflight).done
      /\ svp' = Train(Head(inflight).pc)
      /\ vpQueue_Head' = Advance(vpQueue_Head, VPQsize) /\ UNCHANGED vpQueue_Tail
      /\ vpQueueTable' = [vpQueueTable EXCEPT ![vpQueue_Head.idx] =
                            [tag |-> 0, pcIndex |-> 0, value |-> 0]]
      /\ inflight' = Tail(inflight) /\ inflight[1] = Head(inflight)
  BY RefineFacts DEF RetireEligible, popFromVPQ
<1>2. VQ!LearnHead
  BY <1>1, TrainRefines
<1>3. inflight[1].VPQTail = vpQueue_Head.idx /\ m > 0
  BY <1>1, HeadEntryOwned
<1>4. Len(inflight') = Len(inflight) - 1 /\ \A j \in 1..Len(inflight') : inflight'[j] = inflight[j + 1]
  BY <1>1, RefineFacts
<1>5. ASSUME NEW s, s # vpQueue_Head.idx
      PROVE  ComputedIn(inflight', s) <=> ComputedIn(inflight, s)
  <2>1. ASSUME ComputedIn(inflight', s) PROVE ComputedIn(inflight, s)
    <3>1. PICK j \in 1..Len(inflight') :
            inflight'[j].kind = "value" /\ inflight'[j].VPQTail = s /\ inflight'[j].done
      BY <2>1 DEF ComputedIn
    <3>2. j + 1 \in 1..Len(inflight) /\ inflight'[j] = inflight[j + 1]
      BY <1>4, <3>1, RefineFacts
    <3> QED BY <3>1, <3>2 DEF ComputedIn
  <2>2. ASSUME ComputedIn(inflight, s) PROVE ComputedIn(inflight', s)
    <3>1. PICK j \in 1..Len(inflight) :
            inflight[j].kind = "value" /\ inflight[j].VPQTail = s /\ inflight[j].done
      BY <2>2 DEF ComputedIn
    <3>2. j - 1 \in 1..Len(inflight') /\ inflight'[j - 1] = inflight[j]
      BY <1>3, <1>4, <1>5, <3>1, RefineFacts
    <3> QED BY <3>1, <3>2 DEF ComputedIn
  <2> QED BY <2>1, <2>2
<1>6. ASSUME NEW k \in 1..(m - 1)
      PROVE  EntryOf(vpQueueTable', inflight', SlotFrom(vpQueue_Head, k)) =
               EntryOf(vpQueueTable, inflight, SlotFrom(vpQueue_Head, k))
  <2>1. k \in 0..(VPQsize - 1) /\ 0 \in 0..(VPQsize - 1) /\ k # 0
    BY RefineFacts, StrideVPAssumption
  <2>2. SlotFrom(vpQueue_Head, k) # vpQueue_Head.idx
    <3>1. /\ OffsetOf(vpQueue_Head, SlotFrom(vpQueue_Head, k)) = k
          /\ OffsetOf(vpQueue_Head, SlotFrom(vpQueue_Head, 0)) = 0
          /\ SlotFrom(vpQueue_Head, 0) = vpQueue_Head.idx
      BY <2>1, RefineFacts, SlotOffsets
    <3> QED BY <2>1, <3>1
  <2>3. vpQueueTable'[SlotFrom(vpQueue_Head, k)] = vpQueueTable[SlotFrom(vpQueue_Head, k)]
    BY <1>1, <2>1, <2>2, RefineFacts, SlotOffsets
  <2> QED BY <1>5, <2>2, <2>3, EntrySame
<1>7. QueueOf(vpQueueTable', Advance(vpQueue_Head, VPQsize), vpQueue_Tail, inflight') =
        Tail(QueueOf(vpQueueTable, vpQueue_Head, vpQueue_Tail, inflight))
  <2>1. \A k \in 1..(m - 1) : EntryOf(vpQueueTable', inflight', SlotFrom(vpQueue_Head, k)) =
                                 EntryOf(vpQueueTable, inflight, SlotFrom(vpQueue_Head, k))
    BY <1>6
  <2>2. vpQueue_Head \in Pointer(VPQsize) /\ vpQueue_Tail \in Pointer(VPQsize)
        /\ Ordered(vpQueue_Head, vpQueue_Tail)
    BY RefineFacts
  <2> QED BY <1>3, <2>1, <2>2, QueueTail
<1>8. Queue' = Tail(Queue)
  BY <1>1, <1>7, QueueIs
<1> QED BY <1>2, <1>8 DEF VQ!Pop

\* After a value misprediction retires the queue is empty.
LEMMA RetireMispredictedRefines ==
  ASSUME TypeInv, TypeInv', OrderInv, VPQEntryBelongsToOwner, RetireMispredicted
  PROVE  VQ!PopAll
<1>1. /\ inflight # <<>> /\ Head(inflight).kind = "value" /\ Head(inflight).done
      /\ svp' = NoInstances(Train(Head(inflight).pc))
      /\ vpQueue_Tail' = vpQueue_Head'
  BY DEF RetireMispredicted
<1>2. Train(Head(inflight).pc) \in [Index -> SVPEntry]
  <2>1. Head(inflight) \in Payload
    BY <1>1, RefineFacts, EmptySeq
  <2> QED BY <2>1, TrainType DEF TypeInv, Payload
<1>3. VQ!LearnHead
  BY <1>1, <1>2, KnownNoInstances, TrainRefines
<1>4. Queue' = <<>>
  <2>1. Distance(vpQueue_Head', vpQueue_Tail', VPQsize) = 0
    BY <1>1, DistanceZero, StrideVPAssumption DEF TypeInv, TypeOK
  <2> QED BY <2>1, QueueIs DEF QueueOf
<1> QED BY <1>3, <1>4 DEF VQ!PopAll

\* After a complete squash the queue is empty, and nothing was learned.
LEMMA SquashCompleteRefines ==
  ASSUME TypeInv, OrderInv, SquashComplete
  PROVE  VQ!Squash(0)
<1>1. /\ svp' = NoInstances(svp) /\ vpQueue_Tail' = vpQueue_Head
      /\ UNCHANGED <<vpQueueTable, vpQueue_Head>>
  BY DEF SquashComplete
<1>2. Queue' = <<>>
  <2>1. Distance(vpQueue_Head', vpQueue_Tail', VPQsize) = 0
    BY <1>1, RefineFacts, DistanceZero, StrideVPAssumption
  <2> QED BY <2>1, QueueIs DEF QueueOf
<1>3. SubSeq(Queue, 1, 0) = <<>>
  OBVIOUS
<1>4. UNCHANGED Predictor
  BY <1>1, RefineFacts, KnownNoInstances, PredictorSame
<1> QED BY <1>2, <1>3, <1>4 DEF VQ!Squash

\* Every step of the predictor and its VPQ is a step of the queue, or leaves it alone.
LEMMA RefineNext ==
  ASSUME TypeInv, TypeInv', OrderInv, OrderInv', VPQEntryBelongsToOwner, [Next]_vars
  PROVE  [VQ!Next]_<<Queue, Predictor>>
<1>a. ASSUME UNCHANGED <<svp, vpQueueTable, vpQueue_Head, vpQueue_Tail, inflight>>
      PROVE  UNCHANGED <<Queue, Predictor>>
  BY <1>a, QueueSame DEF Predictor
<1>1. ASSUME NEW bundle \in Bundles, Rename1(bundle) PROVE UNCHANGED <<Queue, Predictor>>
  BY <1>a, <1>1 DEF Rename1, vpqVars
<1>2. CASE Rename2
  BY <1>a, <1>2 DEF Rename2, vpqVars
<1>3. CASE RenameBranch
  BY <1>3, RenameBranchRefines
<1>4. CASE RenameEligible
  BY <1>4, RenameEligibleRefines DEF VQ!Next
<1>5. ASSUME NEW i \in 1..Len(inflight), NEW value \in Value, SetValue(i, value)
      PROVE  VQ!Next
  BY <1>5, SetValueRefines DEF VQ!Next
<1>6. ASSUME NEW i \in 1..Len(inflight), ResolveCorrect(i)
      PROVE  UNCHANGED <<Queue, Predictor>>
  BY <1>6, ResolveCorrectRefines
<1>7. ASSUME NEW i \in 1..Len(inflight), Mispredict(i) PROVE VQ!Next
  BY <1>7, MispredictRefines DEF VQ!Next
<1>8. CASE RetireBranch
  BY <1>8, RetireBranchRefines
<1>9. CASE RetireEligible
  BY <1>9, RetireEligibleRefines DEF VQ!Next
<1>10. CASE RetireMispredicted
  BY <1>10, RetireMispredictedRefines DEF VQ!Next
<1>11. CASE SquashComplete
  <2>1. 0 \in 0..Len(Queue)
    BY RefineFacts
  <2> QED BY <1>11, <2>1, SquashCompleteRefines DEF VQ!Next
<1>12. CASE UNCHANGED vars
  BY <1>a, <1>12 DEF vars
<1> QED
  BY <1>1, <1>2, <1>3, <1>4, <1>5, <1>6, <1>7, <1>8, <1>9, <1>10, <1>11, <1>12 DEF Next

\* The stride value predictor implements the value queue, for every size of its structures:
\* the VPQ is first-in first-out through wrap-arounds, rollbacks and squashes, and what the
\* predictor knows changes only when the oldest instruction retires, by its own value.
THEOREM Refinement == Spec => ImplementsValueQueue
<1>1. ASSUME TypeInv, TypeInv', OrderInv, OrderInv', VPQEntryBelongsToOwner, [Next]_vars
      PROVE  [VQ!Next]_<<Queue, Predictor>>
  BY <1>1, RefineNext
<1> QED
  BY <1>1, RefineInit, TypeInit, TypeNext, OrderInit, OrderNext, OwnerInit, OwnerNext, PTL
  DEF Spec, ImplementsValueQueue, VQ!Spec
=============================================================================
