--------------------------- MODULE StrideVP_proof ---------------------------
(***************************************************************************)
(* Proofs about the stride value predictor and its VPQ, for every size of  *)
(* the structures and every width of the counters.                         *)
(***************************************************************************)
EXTENDS StrideVP, PhaseQueue_proof, SequenceTheorems

-----------------------------------------------------------------------------
(* Lemmas about the operators the actions are built from *)

\* A remainder is below its divisor.
LEMMA ModType ==
  ASSUME NEW x \in Nat, NEW m \in Nat \ {0}
  PROVE  x % m \in 0..(m - 1)
OBVIOUS

\* A renamed instruction's number is a natural number.
LEMMA InstructionType ==
  ASSUME NEW x \in Instruction
  PROVE  x.pc \in Nat /\ x.kind \in {"value", "branch"}
<1>1. CASE x \in [kind : {"value"}, pc : PCs]
  BY <1>1, StrideVPAssumption
<1>2. CASE x \in [kind : {"branch"}, pc : {0}]
  BY <1>2
<1> QED BY <1>1, <1>2 DEF Instruction

\* Every instruction number has a tag and an index into the predictor.
LEMMA ExtractType ==
  ASSUME NEW pc \in Nat
  PROVE  extractTag(pc) \in Tag /\ extractPCIndex(pc) \in Index
<1>1. pc \div SVPEntries \in Nat
  BY StrideVPAssumption
<1> QED BY <1>1, StrideVPAssumption, ModType DEF extractTag, extractPCIndex, Tag, Index

\* A prediction is a value: the product and the sum wrap.
LEMMA PredictionType ==
  ASSUME NEW e \in SVPEntry
  PROVE  Prediction(e) \in Value
<1>1. e.retVal \in Nat /\ e.instance \in Nat /\ e.stride \in Nat
  BY StrideVPAssumption DEF SVPEntry, Value
<1>2. e.instance * e.stride \in Nat
  BY <1>1
<1>3. e.retVal + e.instance * e.stride \in Nat
  BY <1>1, <1>2
<1> QED BY <1>3, ModType, StrideVPAssumption DEF Prediction, Value

\* The confidence counter keeps its width, whatever confMax, confInc and confDec are.
LEMMA ConfType ==
  ASSUME NEW c \in 0..(ConfMod - 1)
  PROVE  increamentConf(c) \in 0..(ConfMod - 1) /\ decreamentConf(c) \in 0..(ConfMod - 1)
BY StrideVPAssumption DEF increamentConf, decreamentConf, WrapSub

\* A walk of the VPQ counts at most its size, which the instance counter holds.
LEMMA MatchingType ==
  ASSUME NEW table, NEW h \in Pointer(VPQsize), NEW t \in Pointer(VPQsize), NEW tag, NEW index
  PROVE  /\ IsFiniteSet(Matching(table, h, t, tag, index))
         /\ Cardinality(Matching(table, h, t, tag, index)) \in 0..VPQsize
         /\ Cardinality(Matching(table, h, t, tag, index)) \in 0..(InstanceMod - 1)
<1>1. Matching(table, h, t, tag, index) \in SUBSET Slots(h, t, VPQsize)
  BY DEF Matching
<1> QED BY <1>1, SlotsType, StrideVPAssumption

\* Training an entry keeps it one, whichever of hit, replacement and miss it is.
LEMMA TrainedType ==
  ASSUME NEW e \in SVPEntry, NEW tag \in Tag, NEW value \in Value,
         NEW count \in 0..(InstanceMod - 1)
  PROVE  Trained(e, tag, value, count) \in SVPEntry
<1>1. /\ e.conf \in 0..(ConfMod - 1) /\ e.retVal \in Value
      /\ e.stride \in Value /\ e.instance \in 0..(InstanceMod - 1)
  BY DEF SVPEntry
<1>2. WrapSub(value, e.retVal, ValueMod) \in Value
  BY <1>1, StrideVPAssumption DEF WrapSub, Value
<1>3. WrapSub(e.instance, 1, InstanceMod) \in 0..(InstanceMod - 1)
  BY <1>1, StrideVPAssumption DEF WrapSub
<1>4. increamentConf(e.conf) \in 0..(ConfMod - 1) /\ decreamentConf(e.conf) \in 0..(ConfMod - 1)
  BY <1>1, ConfType
<1>5. 0 \in 0..(ConfMod - 1)
  BY StrideVPAssumption
<1> QED BY <1>2, <1>3, <1>4, <1>5 DEF Trained, SVPEntry

\* Counting an instance keeps an entry one.
LEMMA CountInstanceType ==
  ASSUME NEW e \in SVPEntry, NEW tag \in Tag
  PROVE  CountInstance(e, tag) \in SVPEntry
<1>1. WrapAdd(e.instance, 1, InstanceMod) \in 0..(InstanceMod - 1)
  BY StrideVPAssumption DEF SVPEntry, WrapAdd
<1> QED BY <1>1 DEF CountInstance, SVPEntry

\* A complete squash keeps the table one.
LEMMA NoInstancesType ==
  ASSUME NEW table \in [Index -> SVPEntry]
  PROVE  NoInstances(table) \in [Index -> SVPEntry]
<1>1. 0 \in 0..(InstanceMod - 1)
  BY StrideVPAssumption
<1> QED BY <1>1 DEF NoInstances, SVPEntry

\* The rollback's walk keeps the table one.
LEMMA WalkDecreamentType ==
  ASSUME svp \in [Index -> SVPEntry], vpQueue_Tail \in Pointer(VPQsize),
         NEW from \in Pointer(VPQsize)
  PROVE  WalkDecreament(from) \in [Index -> SVPEntry]
<1> SUFFICES ASSUME NEW i \in Index
             PROVE  [svp[i] EXCEPT !.instance =
                       WrapSub(@, Cardinality(Matching(vpQueueTable, from, vpQueue_Tail,
                                                       svp[i].tag, i)), InstanceMod)]
                    \in SVPEntry
  BY DEF WalkDecreament
<1> DEFINE n == Cardinality(Matching(vpQueueTable, from, vpQueue_Tail, svp[i].tag, i))
<1>1. n \in 0..(InstanceMod - 1)
  BY MatchingType
<1>2. svp[i] \in SVPEntry
  OBVIOUS
<1>3. svp[i].instance \in 0..(InstanceMod - 1)
  BY <1>2 DEF SVPEntry
<1> HIDE DEF n
<1>4. WrapSub(svp[i].instance, n, InstanceMod) \in 0..(InstanceMod - 1)
  BY <1>1, <1>3, StrideVPAssumption DEF WrapSub
<1>5. [svp[i] EXCEPT !.instance = WrapSub(@, n, InstanceMod)] \in SVPEntry
  BY <1>2, <1>4 DEF SVPEntry
<1> QED BY <1>5 DEF n

\* Training at retirement keeps the table one.
LEMMA TrainType ==
  ASSUME TypeOK, NEW pc \in Nat
  PROVE  Train(pc) \in [Index -> SVPEntry]
<1> DEFINE tag == extractTag(pc)
           index == extractPCIndex(pc)
           value == vpQueueTable[vpQueue_Head.idx].value
           count == speculateInstance(tag, index)
<1>1. tag \in Tag /\ index \in Index
  BY ExtractType
<1>2. vpQueue_Head.idx \in 0..(VPQsize - 1)
  BY DEF TypeOK, Pointer
<1>3. vpQueueTable[vpQueue_Head.idx] \in VPQEntry
  BY <1>2 DEF TypeOK
<1>4. value \in Value
  BY <1>3 DEF VPQEntry
<1>5. count \in 0..(InstanceMod - 1)
  BY MatchingType DEF TypeOK, speculateInstance
<1>6. svp[index] \in SVPEntry
  BY <1>1 DEF TypeOK
<1> HIDE DEF tag, index, value, count
<1>7. Trained(svp[index], tag, value, count) \in SVPEntry
  BY <1>1, <1>4, <1>5, <1>6, TrainedType
<1>8. [svp EXCEPT ![index] = Trained(@, tag, value, count)] \in [Index -> SVPEntry]
  BY <1>1, <1>7 DEF TypeOK
<1> QED BY <1>8 DEF Train, tag, index, value, count

\* The tail a branch checkpointed is a pointer.
LEMMA CheckpointedType ==
  ASSUME NEW b \in Payload
  PROVE  Checkpointed(b) \in Pointer(VPQsize)
BY DEF Payload, Checkpointed, Pointer

\* Popping the head keeps the VPQ one.
LEMMA PopType ==
  ASSUME TypeOK, popFromVPQ
  PROVE  /\ vpQueueTable' \in [0..(VPQsize - 1) -> VPQEntry]
         /\ vpQueue_Head' \in Pointer(VPQsize)
<1>1. [tag |-> 0, pcIndex |-> 0, value |-> 0] \in VPQEntry
  BY StrideVPAssumption DEF VPQEntry, Tag, Index, Value
<1> QED BY <1>1, AdvanceType, StrideVPAssumption DEF TypeOK, popFromVPQ

-----------------------------------------------------------------------------
(* Type correctness *)

\* rename2's loop only runs while something of the bundle is left.
RenamingHasBundle == renaming => RENAME2 # <<>>

TypeInv == TypeOK /\ RenamingHasBundle

\* An instruction at the head of the bundle has a place in the active list.
LEMMA RenameOneType ==
  ASSUME TypeInv, renaming, NextOfBundle, NEW w \in Payload, inflight' = Append(inflight, w)
  PROVE  /\ Head(RENAME2) \in Instruction
         /\ RENAME2' \in Seq(Instruction)
         /\ Len(RENAME2') <= dispatch_width
         /\ renaming' \in BOOLEAN
         /\ inflight' \in Seq(Payload)
         /\ Len(inflight') + (IF renaming' THEN Len(RENAME2') ELSE 0) <= ActiveListSize
         /\ RenamingHasBundle'
<1>1. /\ Head(RENAME2) \in Instruction
      /\ RENAME2' \in Seq(Instruction)
      /\ Len(RENAME2') = Len(RENAME2) - 1
  BY HeadTailProperties DEF TypeInv, TypeOK, RenamingHasBundle, NextOfBundle
<1>2. Len(RENAME2) \in Nat /\ Len(inflight) \in Nat
  BY LenProperties DEF TypeInv, TypeOK
<1>3. inflight' \in Seq(Payload) /\ Len(inflight') = Len(inflight) + 1
  BY DEF TypeInv, TypeOK
<1>4. renaming' \in BOOLEAN /\ (renaming' => Len(RENAME2) > 1)
  <2>1. renaming' = (Len(RENAME2) > 1)
    BY DEF NextOfBundle
  <2>2. renaming' \in BOOLEAN
    BY <2>1
  <2>3. renaming' => Len(RENAME2) > 1
    BY <2>1, Zenon
  <2> QED BY <2>2, <2>3
<1>5. renaming' => Len(RENAME2') > 0
  BY <1>1, <1>2, <1>4
<1>6. RenamingHasBundle'
  BY <1>5 DEF RenamingHasBundle
<1>7. Len(RENAME2') <= dispatch_width
  BY <1>1, <1>2, StrideVPAssumption DEF TypeInv, TypeOK
<1>8. Len(inflight) + Len(RENAME2) <= ActiveListSize
  BY DEF TypeInv, TypeOK
<1>9. Len(inflight') + (IF renaming' THEN Len(RENAME2') ELSE 0) <= ActiveListSize
  <2>1. Len(inflight') + Len(RENAME2') <= ActiveListSize /\ Len(inflight') + 0 <= ActiveListSize
    BY <1>1, <1>2, <1>3, <1>8, StrideVPAssumption
  <2>2. CASE renaming'
    BY <2>1, <2>2
  <2>3. CASE ~renaming'
    BY <2>1, <2>3
  <2> QED BY <2>2, <2>3
<1> QED BY <1>1, <1>3, <1>4, <1>6, <1>7, <1>9

\* The simulator starts with every variable of its type.
LEMMA TypeInit == Init => TypeInv
<1> SUFFICES ASSUME Init PROVE TypeInv
  OBVIOUS
<1>1. [tag |-> 0, conf |-> 0, retVal |-> 0, stride |-> 0, instance |-> 0] \in SVPEntry
  BY StrideVPAssumption DEF SVPEntry, Tag, Value
<1>2. [tag |-> 0, pcIndex |-> 0, value |-> 0] \in VPQEntry
  BY StrideVPAssumption DEF VPQEntry, Tag, Index, Value
<1>3. /\ RENAME2 \in Seq(Instruction) /\ Len(RENAME2) = 0
      /\ inflight \in Seq(Payload) /\ Len(inflight) = 0
  BY DEF Init
<1>4. svp \in [Index -> SVPEntry] /\ vpQueueTable \in [0..(VPQsize - 1) -> VPQEntry]
  BY <1>1, <1>2 DEF Init
<1>5. vpQueue_Head \in Pointer(VPQsize) /\ vpQueue_Tail \in Pointer(VPQsize)
  BY OriginType, StrideVPAssumption DEF Init
<1>6. renaming = FALSE
  BY DEF Init
<1> QED BY <1>3, <1>4, <1>5, <1>6, StrideVPAssumption DEF TypeInv, TypeOK, RenamingHasBundle

\* Every step keeps every variable of its type.
LEMMA TypeNext == TypeInv /\ [Next]_vars => TypeInv'
<1> SUFFICES ASSUME TypeInv, [Next]_vars PROVE TypeInv'
  OBVIOUS
<1> USE DEF TypeInv
<1>0. /\ Len(RENAME2) \in Nat /\ Len(inflight) \in Nat
      /\ \A i \in 1..Len(inflight) : inflight[i] \in Payload
  BY LenProperties, ElementOfSeq DEF TypeOK
<1>1. ASSUME NEW bundle \in Bundles, Rename1(bundle) PROVE TypeInv'
  <2>1. bundle \in Seq(Instruction) /\ Len(bundle) <= dispatch_width /\ bundle # <<>>
    BY <1>1, StrideVPAssumption DEF Bundles
  <2>2. ~renaming
    BY <1>1 DEF Rename1, RenamingHasBundle
  <2> QED BY <1>1, <2>1, <2>2 DEF Rename1, TypeOK, RenamingHasBundle, vpqVars
<1>2. CASE Rename2
  BY <1>2 DEF Rename2, TypeOK, RenamingHasBundle, vpqVars
<1>3. CASE RenameBranch
  <2> DEFINE w == [kind |-> "branch", pc |-> 0,
                   VPQTail |-> vpQueue_Tail.idx, VPQTailPhase |-> vpQueue_Tail.phase,
                   predictedValue |-> 0, isConfident |-> FALSE,
                   done |-> FALSE, value |-> 0, val_misp |-> FALSE]
  <2>1. w \in Payload
    BY StrideVPAssumption DEF TypeOK, Pointer, Payload, Value
  <2>2. inflight' = Append(inflight, w)
    BY <1>3 DEF RenameBranch
  <2>3. /\ RENAME2' \in Seq(Instruction) /\ Len(RENAME2') <= dispatch_width
        /\ renaming' \in BOOLEAN /\ inflight' \in Seq(Payload)
        /\ Len(inflight') + (IF renaming' THEN Len(RENAME2') ELSE 0) <= ActiveListSize
        /\ RenamingHasBundle'
    <3> HIDE DEF w
    <3> QED BY <1>3, <2>1, <2>2, RenameOneType DEF RenameBranch
  <2> QED BY <1>3, <2>3 DEF RenameBranch, TypeOK, vpqVars
<1>4. CASE RenameEligible
  <2> DEFINE pc == Head(RENAME2).pc
             tag == extractTag(pc)
             index == extractPCIndex(pc)
             e == CountInstance(svp[index], tag)
             hit == e.tag = tag
             entry == [tag |-> tag, pcIndex |-> index, value |-> 0]
             w == [kind |-> "value", pc |-> pc,
                   VPQTail |-> vpQueue_Tail.idx, VPQTailPhase |-> 0,
                   predictedValue |-> IF hit THEN Prediction(e) ELSE 0,
                   isConfident |-> hit /\ e.conf = confMax,
                   done |-> FALSE, value |-> 0, val_misp |-> FALSE]
  <2>0. Head(RENAME2) \in Instruction
    BY <1>4, HeadTailProperties DEF RenameEligible, TypeOK, RenamingHasBundle
  <2>1. pc \in Nat
    BY <2>0, InstructionType
  <2>2. tag \in Tag /\ index \in Index
    BY <2>1, ExtractType
  <2>3. svp[index] \in SVPEntry
    BY <2>2 DEF TypeOK
  <2>4. e \in SVPEntry
    BY <2>2, <2>3, CountInstanceType
  <2>5. Prediction(e) \in Value
    BY <2>4, PredictionType
  <2>6. 0 \in Value
    BY StrideVPAssumption DEF Value
  <2>7. vpQueue_Tail.idx \in 0..(VPQsize - 1)
    BY DEF TypeOK, Pointer
  <2>8. w \in Payload
    <3> HIDE DEF pc, e, hit
    <3> QED BY <2>1, <2>5, <2>6, <2>7 DEF Payload
  <2>9. entry \in VPQEntry
    BY <2>2, <2>6 DEF VPQEntry
  <2>10. /\ svp' = [svp EXCEPT ![index] = e]
         /\ vpQueueTable' = [vpQueueTable EXCEPT ![vpQueue_Tail.idx] = entry]
         /\ vpQueue_Tail' = Advance(vpQueue_Tail, VPQsize)
         /\ inflight' = Append(inflight, w)
         /\ vpQueue_Head' = vpQueue_Head
    BY <1>4 DEF RenameEligible
  <2> HIDE DEF pc, tag, index, e, hit, entry, w
  <2>11. /\ RENAME2' \in Seq(Instruction) /\ Len(RENAME2') <= dispatch_width
         /\ renaming' \in BOOLEAN /\ inflight' \in Seq(Payload)
         /\ Len(inflight') + (IF renaming' THEN Len(RENAME2') ELSE 0) <= ActiveListSize
         /\ RenamingHasBundle'
    BY <1>4, <2>8, <2>10, RenameOneType DEF RenameEligible
  <2>12. vpQueue_Tail' \in Pointer(VPQsize)
    BY <2>10, AdvanceType, StrideVPAssumption DEF TypeOK
  <2>13. svp' \in [Index -> SVPEntry]
    BY <2>2, <2>4, <2>10 DEF TypeOK
  <2>14. vpQueueTable' \in [0..(VPQsize - 1) -> VPQEntry]
    BY <2>7, <2>9, <2>10 DEF TypeOK
  <2> QED BY <2>10, <2>11, <2>12, <2>13, <2>14 DEF TypeOK
<1>5. ASSUME NEW i \in 1..Len(inflight), NEW value \in Value, SetValue(i, value) PROVE TypeInv'
  <2>1. inflight[i] \in Payload
    BY <1>0
  <2>2. inflight[i].VPQTail \in 0..(VPQsize - 1) /\ inflight[i].isConfident \in BOOLEAN
    BY <2>1 DEF Payload
  <2> DEFINE w == [inflight[i] EXCEPT !.done = TRUE, !.value = value,
                     !.val_misp = ~oracleConf /\ inflight[i].isConfident
                                  /\ value # inflight[i].predictedValue]
             entry == [vpQueueTable[inflight[i].VPQTail] EXCEPT !.value = value]
  <2>3. w \in Payload
    BY <1>5, <2>1, <2>2 DEF Payload
  <2>4. vpQueueTable[inflight[i].VPQTail] \in VPQEntry
    BY <2>2 DEF TypeOK
  <2>5. entry \in VPQEntry
    BY <1>5, <2>4 DEF VPQEntry
  <2>6. /\ inflight' = [inflight EXCEPT ![i] = w]
        /\ vpQueueTable' = [vpQueueTable EXCEPT ![inflight[i].VPQTail] = entry]
    BY <1>5 DEF SetValue
  <2> HIDE DEF w, entry
  <2>7. inflight' \in Seq(Payload) /\ Len(inflight') = Len(inflight)
    BY <2>3, <2>6, ExceptSeq DEF TypeOK
  <2>8. vpQueueTable' \in [0..(VPQsize - 1) -> VPQEntry]
    BY <2>2, <2>5, <2>6 DEF TypeOK
  <2> QED BY <1>5, <2>7, <2>8 DEF SetValue, TypeOK, RenamingHasBundle
<1>6. ASSUME NEW i \in 1..Len(inflight), ResolveCorrect(i) PROVE TypeInv'
  <2>1. [inflight[i] EXCEPT !.done = TRUE] \in Payload
    BY <1>0 DEF Payload
  <2>2. inflight' \in Seq(Payload) /\ Len(inflight') = Len(inflight)
    BY <1>6, <2>1, ExceptSeq DEF TypeOK, ResolveCorrect
  <2> QED BY <1>6, <2>2 DEF ResolveCorrect, TypeOK, RenamingHasBundle, vpqVars
<1>7. ASSUME NEW i \in 1..Len(inflight), Mispredict(i) PROVE TypeInv'
  <2>1. Checkpointed(inflight[i]) \in Pointer(VPQsize)
    BY <1>0, CheckpointedType
  <2>2. svp' \in [Index -> SVPEntry]
    BY <1>7, <2>1, WalkDecreamentType DEF Mispredict, TypeOK
  <2> DEFINE kept == SubSeq(inflight, 1, i)
  <2>3. kept \in Seq(Payload) /\ Len(kept) = i /\ kept[i] \in Payload
    BY <1>0 DEF TypeOK
  <2>4. [kept[i] EXCEPT !.done = TRUE] \in Payload
    BY <2>3 DEF Payload
  <2>5. inflight' = [kept EXCEPT ![i].done = TRUE]
    BY <1>7 DEF Mispredict
  <2> HIDE DEF kept
  <2>7. inflight' \in Seq(Payload) /\ Len(inflight') = i
    BY <2>3, <2>4, <2>5, ExceptSeq
  <2>6. RENAME2' \in Seq(Instruction) /\ Len(RENAME2') = 0
    BY <1>7, EmptySeq DEF Mispredict
  <2>8. ~renaming /\ ~renaming' /\ renaming' \in BOOLEAN
    BY <1>7 DEF Mispredict, TypeOK
  <2>9. Len(inflight) <= ActiveListSize
    BY <1>0, <2>8, StrideVPAssumption DEF TypeOK
  <2>10. i <= ActiveListSize
    BY <1>0, <2>9, StrideVPAssumption
  <2>11. Len(inflight') + (IF renaming' THEN Len(RENAME2') ELSE 0) <= ActiveListSize
    BY <2>7, <2>8, <2>10, StrideVPAssumption
  <2>12. vpQueueTable' = vpQueueTable /\ vpQueue_Head' = vpQueue_Head
         /\ vpQueue_Tail' = Checkpointed(inflight[i])
    BY <1>7 DEF Mispredict
  <2>13. TypeOK'
    BY <2>1, <2>2, <2>6, <2>7, <2>8, <2>11, <2>12, StrideVPAssumption DEF TypeOK
  <2> QED BY <2>8, <2>13 DEF RenamingHasBundle
<1>8. CASE RetireBranch
  <2>1. inflight' \in Seq(Payload) /\ Len(inflight') = Len(inflight) - 1
    BY <1>8, HeadTailProperties DEF RetireBranch, TypeOK
  <2> QED BY <1>0, <1>8, <2>1, StrideVPAssumption
          DEF RetireBranch, TypeOK, RenamingHasBundle, vpqVars
<1>9. CASE RetireEligible
  <2>1. inflight' \in Seq(Payload) /\ Len(inflight') = Len(inflight) - 1
        /\ Head(inflight) \in Payload
    BY <1>9, HeadTailProperties DEF RetireEligible, TypeOK
  <2>2. svp' \in [Index -> SVPEntry]
    BY <1>9, <2>1, TrainType DEF RetireEligible, Payload
  <2>3. /\ vpQueueTable' \in [0..(VPQsize - 1) -> VPQEntry]
        /\ vpQueue_Head' \in Pointer(VPQsize)
    BY <1>9, PopType DEF RetireEligible
  <2> QED BY <1>0, <1>9, <2>1, <2>2, <2>3, StrideVPAssumption
          DEF RetireEligible, TypeOK, RenamingHasBundle
<1>10. CASE RetireMispredicted
  <2>1. Head(inflight) \in Payload
    BY <1>10, HeadTailProperties DEF RetireMispredicted, TypeOK
  <2>2. svp' \in [Index -> SVPEntry]
    BY <1>10, <2>1, TrainType, NoInstancesType DEF RetireMispredicted, Payload
  <2>3. /\ vpQueueTable' \in [0..(VPQsize - 1) -> VPQEntry]
        /\ vpQueue_Head' \in Pointer(VPQsize)
    BY <1>10, PopType DEF RetireMispredicted
  <2>4. /\ RENAME2' \in Seq(Instruction) /\ Len(RENAME2') = 0
        /\ inflight' \in Seq(Payload) /\ Len(inflight') = 0
    BY <1>10, EmptySeq DEF RetireMispredicted
  <2> QED BY <1>10, <2>2, <2>3, <2>4, StrideVPAssumption
          DEF RetireMispredicted, TypeOK, RenamingHasBundle
<1>11. CASE SquashComplete
  <2>1. svp' \in [Index -> SVPEntry]
    BY <1>11, NoInstancesType DEF SquashComplete, TypeOK
  <2>2. /\ RENAME2' \in Seq(Instruction) /\ Len(RENAME2') = 0
        /\ inflight' \in Seq(Payload) /\ Len(inflight') = 0
    BY <1>11, EmptySeq DEF SquashComplete
  <2> QED BY <1>11, <2>1, <2>2, StrideVPAssumption
          DEF SquashComplete, TypeOK, RenamingHasBundle
<1>12. CASE UNCHANGED vars
  BY <1>12 DEF vars, TypeOK, RenamingHasBundle
<1> QED
  BY <1>1, <1>2, <1>3, <1>4, <1>5, <1>6, <1>7, <1>8, <1>9, <1>10, <1>11, <1>12 DEF Next

\* Every variable keeps its type: no pointer leaves the VPQ, no counter its width, and the
\* instructions between rename2 and retirement never exceed the active list.
THEOREM TypeCorrect == Spec => []TypeOK
<1>1. TypeInv => TypeOK
  BY DEF TypeInv
<1> QED BY <1>1, TypeInit, TypeNext, PTL DEF Spec

-----------------------------------------------------------------------------
(* The order of the VPQ *)

\* The VPQ position of an instruction, and the entries it takes, as functions of the head
\* pointer and of its payload.
OffsetOf(h, s) == IF s >= h.idx THEN s - h.idx ELSE s - h.idx + VPQsize
PositionOf(h, w) ==
  IF w.kind = "branch" THEN Distance(h, Checkpointed(w), VPQsize) ELSE OffsetOf(h, w.VPQTail)
TakesOf(w) == IF w.kind = "value" THEN 1 ELSE 0

\* VPQInProgramOrder for any head, tail and sequence of instructions, strengthened: positions
\* increase along the whole sequence and none is beyond the tail.  Retirement needs the
\* first, for it moves the position of everything at once, and rollback the second.
InOrder(h, t, q) ==
  /\ Ordered(h, t)
  /\ \A i \in 1..Len(q) : q[i].kind = "branch" => Ordered(h, Checkpointed(q[i]))
  /\ q # <<>> => PositionOf(h, q[1]) = 0
  /\ \A i \in 1..(Len(q) - 1) : PositionOf(h, q[i + 1]) = PositionOf(h, q[i]) + TakesOf(q[i])
  /\ Distance(h, t, VPQsize) =
       IF q = <<>> THEN 0 ELSE PositionOf(h, q[Len(q)]) + TakesOf(q[Len(q)])
  /\ \A i, j \in 1..Len(q) : i < j => PositionOf(h, q[i]) + TakesOf(q[i]) <= PositionOf(h, q[j])
  /\ \A i \in 1..Len(q) : PositionOf(h, q[i]) + TakesOf(q[i]) <= Distance(h, t, VPQsize)

\* InOrder is the invariant, and more.
LEMMA InOrderImplies ==
  InOrder(vpQueue_Head, vpQueue_Tail, inflight) => VPQInProgramOrder
<1>1. \A i : Position(i) = PositionOf(vpQueue_Head, inflight[i]) /\ Takes(i) = TakesOf(inflight[i])
  BY DEF Position, PositionOf, SlotOffset, OffsetOf, Takes, TakesOf
<1> QED BY <1>1 DEF InOrder, VPQInProgramOrder

\* A position is an entry of the VPQ, or the end of a full one.
LEMMA PositionType ==
  ASSUME NEW h \in Pointer(VPQsize), NEW w \in Payload,
         w.kind = "branch" => Ordered(h, Checkpointed(w))
  PROVE  /\ PositionOf(h, w) \in 0..VPQsize
         /\ TakesOf(w) \in {0, 1}
         /\ w.kind = "value" => TakesOf(w) = 1 /\ PositionOf(h, w) < VPQsize
         /\ w.kind = "branch" => TakesOf(w) = 0
<1>1. CASE w.kind = "branch"
  BY <1>1, CheckpointedType, DistanceType, StrideVPAssumption DEF PositionOf, TakesOf
<1>2. CASE w.kind = "value"
  BY <1>2, StrideVPAssumption DEF PositionOf, OffsetOf, TakesOf, Payload, Pointer
<1> QED BY <1>1, <1>2 DEF Payload

\* An empty VPQ with nothing in flight is in order.
LEMMA InOrderEmpty ==
  ASSUME NEW h \in Pointer(VPQsize)
  PROVE  InOrder(h, h, <<>>)
BY DistanceZero, StrideVPAssumption DEF InOrder

\* The offset of the tail is the distance to it, unless the VPQ is full.
LEMMA OffsetOfTail ==
  ASSUME NEW h \in Pointer(VPQsize), NEW t \in Pointer(VPQsize), Ordered(h, t),
         Distance(h, t, VPQsize) < VPQsize
  PROVE  OffsetOf(h, t.idx) = Distance(h, t, VPQsize)
BY StrideVPAssumption DEF Pointer, Ordered, Distance, OffsetOf

\* Two slots at one offset are the same slot.
LEMMA OffsetInjective ==
  ASSUME NEW h \in Pointer(VPQsize), NEW r \in 0..(VPQsize - 1), NEW s \in 0..(VPQsize - 1),
         OffsetOf(h, r) = OffsetOf(h, s)
  PROVE  r = s
BY StrideVPAssumption DEF Pointer, OffsetOf

\* Moving the head by one entry moves every position but 0 by one.
LEMMA PositionAdvance ==
  ASSUME NEW h \in Pointer(VPQsize), NEW w \in Payload,
         w.kind = "branch" => Ordered(h, Checkpointed(w)), PositionOf(h, w) > 0
  PROVE  /\ PositionOf(Advance(h, VPQsize), w) = PositionOf(h, w) - 1
         /\ w.kind = "branch" => Ordered(Advance(h, VPQsize), Checkpointed(w))
<1>1. CASE w.kind = "branch"
  BY <1>1, CheckpointedType, AdvanceHead, StrideVPAssumption DEF PositionOf
<1>2. CASE w.kind = "value"
  BY <1>2, StrideVPAssumption DEF PositionOf, OffsetOf, Payload, Pointer, Advance
<1> QED BY <1>1, <1>2 DEF Payload

\* Where every instruction keeps its kind and recorded tail, the order stays.
LEMMA InOrderSame ==
  ASSUME NEW h, NEW t, NEW q \in Seq(Payload), NEW r \in Seq(Payload),
         InOrder(h, t, q), Len(r) = Len(q),
         \A i \in 1..Len(q) : /\ r[i].kind = q[i].kind
                              /\ r[i].VPQTail = q[i].VPQTail
                              /\ r[i].VPQTailPhase = q[i].VPQTailPhase
  PROVE  InOrder(h, t, r)
<1>1. \A i \in 1..Len(q) : /\ PositionOf(h, r[i]) = PositionOf(h, q[i])
                           /\ TakesOf(r[i]) = TakesOf(q[i])
                           /\ Checkpointed(r[i]) = Checkpointed(q[i])
  BY DEF PositionOf, TakesOf, Checkpointed
<1>2. Len(q) \in Nat
  BY LenProperties
<1>3. (r = <<>> <=> Len(q) = 0) /\ (q = <<>> <=> Len(q) = 0)
  BY EmptySeq
<1>4. q # <<>> => 1 \in 1..Len(q) /\ Len(q) \in 1..Len(q)
  BY <1>2, <1>3
<1> QED BY <1>1, <1>2, <1>3, <1>4 DEF InOrder

\* An instruction at the tail, which moves by as many entries as the instruction takes.
LEMMA InOrderAppend ==
  ASSUME NEW h \in Pointer(VPQsize), NEW t \in Pointer(VPQsize), NEW u \in Pointer(VPQsize),
         NEW q \in Seq(Payload), NEW w \in Payload,
         InOrder(h, t, q), Ordered(h, u),
         w.kind = "branch" => Ordered(h, Checkpointed(w)),
         PositionOf(h, w) = Distance(h, t, VPQsize),
         Distance(h, u, VPQsize) = Distance(h, t, VPQsize) + TakesOf(w)
  PROVE  InOrder(h, u, Append(q, w))
<1> DEFINE r == Append(q, w)
           P(i) == PositionOf(h, q[i])
<1>1. /\ r \in Seq(Payload) /\ Len(r) = Len(q) + 1 /\ Len(q) \in Nat /\ r # <<>>
      /\ \A i \in 1..Len(q) : r[i] = q[i] /\ q[i] \in Payload
      /\ r[Len(q) + 1] = w
  OBVIOUS
<1>2. q = <<>> <=> Len(q) = 0
  BY EmptySeq
<1>3. \A i \in 1..Len(q) : /\ PositionOf(h, q[i]) \in 0..VPQsize
                           /\ TakesOf(q[i]) \in {0, 1}
  BY <1>1, PositionType DEF InOrder
<1>4. TakesOf(w) \in {0, 1} /\ Distance(h, t, VPQsize) \in 0..VPQsize
  BY PositionType, DistanceType, StrideVPAssumption DEF InOrder
<1> HIDE DEF r
<1>5. \A i \in 1..Len(r) : r[i].kind = "branch" => Ordered(h, Checkpointed(r[i]))
  BY <1>1 DEF InOrder
<1>6. PositionOf(h, r[1]) = 0
  <2>1. CASE q = <<>>
    BY <1>1, <1>2, <2>1 DEF InOrder
  <2>2. CASE q # <<>>
    BY <1>1, <1>2, <2>2 DEF InOrder
  <2> QED BY <2>1, <2>2
<1>7. ASSUME NEW i \in 1..(Len(r) - 1)
      PROVE  PositionOf(h, r[i + 1]) = PositionOf(h, r[i]) + TakesOf(r[i])
  <2>1. CASE i = Len(q)
    BY <1>1, <1>2, <1>3, <1>4, <2>1 DEF InOrder
  <2>2. CASE i < Len(q)
    <3>1. i \in 1..(Len(q) - 1) /\ i + 1 \in 1..Len(q) /\ i \in 1..Len(q)
      BY <1>1, <2>2
    <3>2. r[i] = q[i] /\ r[i + 1] = q[i + 1]
      BY <1>1, <3>1
    <3> QED BY <3>1, <3>2 DEF InOrder
  <2> QED BY <1>1, <2>1, <2>2
<1>8. Distance(h, u, VPQsize) = PositionOf(h, r[Len(r)]) + TakesOf(r[Len(r)])
  BY <1>1
<1>9. ASSUME NEW i \in 1..Len(r), NEW j \in 1..Len(r), i < j
      PROVE  PositionOf(h, r[i]) + TakesOf(r[i]) <= PositionOf(h, r[j])
  <2>1. i \in 1..Len(q) /\ r[i] = q[i]
    BY <1>1, <1>9
  <2>2. CASE j = Len(q) + 1
    BY <1>1, <2>1, <2>2 DEF InOrder
  <2>3. CASE j # Len(q) + 1
    <3>1. j \in 1..Len(q) /\ r[j] = q[j]
      BY <1>1, <2>3
    <3> QED BY <1>9, <2>1, <3>1 DEF InOrder
  <2> QED BY <2>2, <2>3
<1>10. ASSUME NEW i \in 1..Len(r)
       PROVE  PositionOf(h, r[i]) + TakesOf(r[i]) <= Distance(h, u, VPQsize)
  <2>1. CASE i = Len(q) + 1
    BY <1>1, <1>4, <2>1
  <2>2. CASE i # Len(q) + 1
    <3>1. i \in 1..Len(q) /\ r[i] = q[i]
      BY <1>1, <2>2
    <3>2. PositionOf(h, q[i]) + TakesOf(q[i]) <= Distance(h, t, VPQsize)
      BY <3>1 DEF InOrder
    <3> QED BY <1>3, <1>4, <3>1, <3>2
  <2> QED BY <2>1, <2>2
<1> QED BY <1>1, <1>5, <1>6, <1>7, <1>8, <1>9, <1>10 DEF InOrder, r

\* Everything up to a branch, with the tail the branch checkpointed.
LEMMA InOrderPrefix ==
  ASSUME NEW h \in Pointer(VPQsize), NEW t \in Pointer(VPQsize),
         NEW q \in Seq(Payload), NEW i \in 1..Len(q), q[i].kind = "branch",
         InOrder(h, t, q)
  PROVE  InOrder(h, Checkpointed(q[i]), SubSeq(q, 1, i))
<1> DEFINE r == SubSeq(q, 1, i)
           c == Checkpointed(q[i])
<1>1. /\ r \in Seq(Payload) /\ Len(r) = i /\ Len(q) \in Nat /\ r # <<>> /\ q # <<>>
      /\ \A j \in 1..i : r[j] = q[j]
      /\ i \in Nat /\ 1 <= i /\ i <= Len(q)
      /\ q[i] \in Payload
  OBVIOUS
<1>2. Ordered(h, c) /\ PositionOf(h, q[i]) = Distance(h, c, VPQsize)
  BY DEF InOrder, PositionOf
<1>3. PositionOf(h, q[i]) \in 0..VPQsize /\ TakesOf(q[i]) = 0
  BY <1>1, <1>2, PositionType
<1> HIDE DEF r, c
<1>4. \A j \in 1..Len(r) : r[j].kind = "branch" => Ordered(h, Checkpointed(r[j]))
  BY <1>1 DEF InOrder
<1>5. PositionOf(h, r[1]) = 0
  BY <1>1 DEF InOrder
<1>6. \A j \in 1..(Len(r) - 1) : PositionOf(h, r[j + 1]) = PositionOf(h, r[j]) + TakesOf(r[j])
  BY <1>1 DEF InOrder
<1>7. Distance(h, c, VPQsize) = PositionOf(h, r[Len(r)]) + TakesOf(r[Len(r)])
  BY <1>1, <1>2, <1>3
<1>8. \A j, k \in 1..Len(r) : j < k => PositionOf(h, r[j]) + TakesOf(r[j]) <= PositionOf(h, r[k])
  BY <1>1 DEF InOrder
<1>9. \A j \in 1..Len(r) : PositionOf(h, r[j]) + TakesOf(r[j]) <= Distance(h, c, VPQsize)
  BY <1>1, <1>2, <1>3, <1>7, <1>8
<1> QED BY <1>1, <1>2, <1>4, <1>5, <1>6, <1>7, <1>8, <1>9 DEF InOrder, r, c

\* Everything but the first instruction, with the head past the entry the first one takes.
LEMMA InOrderTail ==
  ASSUME NEW h \in Pointer(VPQsize), NEW t \in Pointer(VPQsize),
         NEW q \in Seq(Payload), q # <<>>, InOrder(h, t, q),
         NEW g, g = IF q[1].kind = "value" THEN Advance(h, VPQsize) ELSE h
  PROVE  InOrder(g, t, Tail(q))
<1> DEFINE r == Tail(q)
           n == TakesOf(q[1])
<1>1. /\ r \in Seq(Payload) /\ Len(r) = Len(q) - 1 /\ Len(q) \in Nat /\ Len(q) > 0
      /\ \A i \in 1..Len(r) : r[i] = q[i + 1]
      /\ \A i \in 1..Len(q) : q[i] \in Payload
  BY HeadTailProperties, EmptySeq, LenProperties, ElementOfSeq
<1>2. \A i \in 1..Len(q) : PositionOf(h, q[i]) \in 0..VPQsize /\ TakesOf(q[i]) \in {0, 1}
  BY <1>1, PositionType DEF InOrder
<1>3. PositionOf(h, q[1]) = 0 /\ q[1].kind \in {"value", "branch"} /\ n \in {0, 1}
      /\ (n = 1 <=> q[1].kind = "value")
  BY <1>1, <1>2 DEF InOrder, Payload, TakesOf
<1>4. \A i \in 2..Len(q) : n <= PositionOf(h, q[i])
  BY <1>1, <1>2, <1>3 DEF InOrder
<1>5. n <= Distance(h, t, VPQsize) /\ Distance(h, t, VPQsize) \in 0..VPQsize
  BY <1>1, <1>3, DistanceType, StrideVPAssumption DEF InOrder
<1> HIDE DEF r, n
<1>6. /\ Ordered(g, t)
      /\ Distance(g, t, VPQsize) = Distance(h, t, VPQsize) - n
  BY <1>3, <1>5, AdvanceHead, StrideVPAssumption DEF InOrder
<1>7. ASSUME NEW i \in 2..Len(q)
      PROVE  /\ PositionOf(g, q[i]) = PositionOf(h, q[i]) - n
             /\ q[i].kind = "branch" => Ordered(g, Checkpointed(q[i]))
  <2>1. /\ q[i] \in Payload /\ PositionOf(h, q[i]) \in 0..VPQsize /\ n <= PositionOf(h, q[i])
        /\ q[i].kind = "branch" => Ordered(h, Checkpointed(q[i]))
    BY <1>1, <1>2, <1>4 DEF InOrder
  <2>2. CASE n = 1
    <3>1. g = Advance(h, VPQsize) /\ PositionOf(h, q[i]) > 0
      BY <1>3, <2>1, <2>2, StrideVPAssumption
    <3> QED BY <2>1, <2>2, <3>1, PositionAdvance
  <2>3. CASE n = 0
    <3>1. g = h
      BY <1>3, <2>3
    <3> QED BY <2>1, <2>3, <3>1, StrideVPAssumption
  <2> QED BY <1>3, <2>2, <2>3
<1>8. \A i \in 1..Len(r) : /\ i + 1 \in 2..Len(q)
                           /\ PositionOf(g, r[i]) = PositionOf(h, q[i + 1]) - n
                           /\ TakesOf(r[i]) = TakesOf(q[i + 1])
                           /\ r[i].kind = "branch" => Ordered(g, Checkpointed(r[i]))
  BY <1>1, <1>7
<1>9. r # <<>> => PositionOf(g, r[1]) = 0
  <2> SUFFICES ASSUME r # <<>> PROVE PositionOf(g, r[1]) = 0
    OBVIOUS
  <2>1. Len(r) > 0
    BY <1>1, EmptySeq
  <2>2. PositionOf(h, q[1 + 1]) = PositionOf(h, q[1]) + TakesOf(q[1])
    BY <1>1, <2>1 DEF InOrder
  <2>3. 1 \in 1..Len(r) /\ 2 \in 1..Len(q)
    BY <1>1, <2>1
  <2> QED BY <1>2, <1>3, <1>8, <2>2, <2>3 DEF n
<1>10. ASSUME NEW i \in 1..(Len(r) - 1)
       PROVE  PositionOf(g, r[i + 1]) = PositionOf(g, r[i]) + TakesOf(r[i])
  <2>1. /\ i \in 1..Len(r) /\ i + 1 \in 1..Len(r) /\ i + 1 \in 1..(Len(q) - 1)
        /\ i + 1 \in 1..Len(q) /\ i + 1 + 1 \in 1..Len(q)
    BY <1>1
  <2>2. PositionOf(h, q[i + 1 + 1]) = PositionOf(h, q[i + 1]) + TakesOf(q[i + 1])
    BY <2>1 DEF InOrder
  <2>3. /\ PositionOf(g, r[i]) = PositionOf(h, q[i + 1]) - n
        /\ PositionOf(g, r[i + 1]) = PositionOf(h, q[i + 1 + 1]) - n
        /\ TakesOf(r[i]) = TakesOf(q[i + 1])
    BY <1>8, <2>1
  <2> QED BY <1>2, <1>3, <2>1, <2>2, <2>3
<1>11. Distance(g, t, VPQsize) =
         IF r = <<>> THEN 0 ELSE PositionOf(g, r[Len(r)]) + TakesOf(r[Len(r)])
  <2>1. Distance(h, t, VPQsize) = PositionOf(h, q[Len(q)]) + TakesOf(q[Len(q)])
    BY DEF InOrder
  <2>2. CASE r = <<>>
    <3>1. Len(q) = 1
      BY <1>1, <2>2, EmptySeq
    <3> QED BY <1>2, <1>3, <1>6, <2>1, <2>2, <3>1 DEF n
  <2>3. CASE r # <<>>
    <3>1. Len(r) \in 1..Len(r) /\ Len(r) + 1 = Len(q) /\ Len(q) \in 1..Len(q)
      BY <1>1, <2>3, EmptySeq
    <3>2. /\ PositionOf(g, r[Len(r)]) = PositionOf(h, q[Len(q)]) - n
          /\ TakesOf(r[Len(r)]) = TakesOf(q[Len(q)])
          /\ PositionOf(h, q[Len(q)]) \in 0..VPQsize /\ TakesOf(q[Len(q)]) \in {0, 1}
      BY <1>2, <1>8, <3>1
    <3> QED BY <1>3, <1>6, <2>1, <2>3, <3>2, StrideVPAssumption
  <2> QED BY <2>2, <2>3
<1>12. ASSUME NEW i \in 1..Len(r), NEW j \in 1..Len(r), i < j
       PROVE  PositionOf(g, r[i]) + TakesOf(r[i]) <= PositionOf(g, r[j])
  <2>1. i + 1 \in 1..Len(q) /\ j + 1 \in 1..Len(q) /\ i + 1 < j + 1
    BY <1>1, <1>12
  <2>2. PositionOf(h, q[i + 1]) + TakesOf(q[i + 1]) <= PositionOf(h, q[j + 1])
    BY <2>1 DEF InOrder
  <2>3. /\ PositionOf(g, r[i]) = PositionOf(h, q[i + 1]) - n
        /\ PositionOf(g, r[j]) = PositionOf(h, q[j + 1]) - n
        /\ TakesOf(r[i]) = TakesOf(q[i + 1])
        /\ PositionOf(h, q[i + 1]) \in 0..VPQsize /\ TakesOf(q[i + 1]) \in {0, 1}
        /\ PositionOf(h, q[j + 1]) \in 0..VPQsize
    BY <1>2, <1>8, <2>1
  <2> QED BY <1>3, <2>2, <2>3, StrideVPAssumption
<1>13. ASSUME NEW i \in 1..Len(r)
       PROVE  PositionOf(g, r[i]) + TakesOf(r[i]) <= Distance(g, t, VPQsize)
  <2>1. i + 1 \in 1..Len(q)
    BY <1>1
  <2>2. PositionOf(h, q[i + 1]) + TakesOf(q[i + 1]) <= Distance(h, t, VPQsize)
    BY <2>1 DEF InOrder
  <2>3. /\ PositionOf(g, r[i]) = PositionOf(h, q[i + 1]) - n
        /\ TakesOf(r[i]) = TakesOf(q[i + 1])
        /\ PositionOf(h, q[i + 1]) \in 0..VPQsize /\ TakesOf(q[i + 1]) \in {0, 1}
    BY <1>2, <1>8, <2>1
  <2> QED BY <1>3, <1>5, <1>6, <2>2, <2>3, StrideVPAssumption
<1> QED BY <1>6, <1>8, <1>9, <1>10, <1>11, <1>12, <1>13 DEF InOrder, r

-----------------------------------------------------------------------------
(* The bundle fits the VPQ *)

\* The eligible instructions of what is left of a bundle.
LEMMA EligibleTail ==
  ASSUME NEW q \in Seq(Instruction), q # <<>>
  PROVE  /\ EligibleCount(q) \in Nat /\ EligibleCount(Tail(q)) \in Nat
         /\ EligibleCount(Tail(q)) <= EligibleCount(q)
         /\ Head(q).kind = "value" => EligibleCount(Tail(q)) + 1 <= EligibleCount(q)
<1> DEFINE S == {i \in 1..Len(q) : q[i].kind = "value"}
           T == {i \in 1..Len(Tail(q)) : Tail(q)[i].kind = "value"}
           f == [i \in T |-> i + 1]
<1>1. /\ Len(q) \in Nat /\ Len(Tail(q)) = Len(q) - 1 /\ Len(q) > 0
      /\ \A i \in 1..Len(Tail(q)) : Tail(q)[i] = q[i + 1]
      /\ Head(q) = q[1]
  BY HeadTailProperties, LenProperties, EmptySeq
<1>2. IsFiniteSet(S) /\ Cardinality(S) \in Nat
  <2>1. IsFiniteSet(1..Len(q)) /\ S \in SUBSET (1..Len(q))
    BY <1>1, FS_Interval
  <2> HIDE DEF S
  <2> QED BY <2>1, FS_Subset, FS_CardinalityType
<1>3. Cardinality(T) \in Nat
  <2>1. IsFiniteSet(1..Len(Tail(q))) /\ T \in SUBSET (1..Len(Tail(q)))
    BY <1>1, FS_Interval
  <2> HIDE DEF T
  <2> QED BY <2>1, FS_Subset, FS_CardinalityType
<1>4. IsFiniteSet(S \ {1}) /\ Cardinality(S \ {1}) \in Nat
      /\ Cardinality(S \ {1}) = IF 1 \in S THEN Cardinality(S) - 1 ELSE Cardinality(S)
  BY <1>2, FS_RemoveElement, FS_CardinalityType
<1>5. f \in Injection(T, S \ {1})
  <2>1. \A i \in T : i + 1 \in S \ {1} /\ i \in Int
    BY <1>1
  <2>2. f \in [T -> S \ {1}]
    BY <2>1
  <2>3. \A i, j \in T : f[i] = f[j] => i = j
    BY <2>1
  <2> QED BY <2>2, <2>3 DEF Injection, IsInjective
<1>6. Cardinality(T) <= Cardinality(S \ {1})
  <2> HIDE DEF S, T, f
  <2> QED BY <1>4, <1>5, FS_Injection
<1>7. Head(q).kind = "value" => 1 \in S
  BY <1>1
<1>8. EligibleCount(q) = Cardinality(S) /\ EligibleCount(Tail(q)) = Cardinality(T)
  BY DEF EligibleCount
<1> HIDE DEF S, T
<1> QED BY <1>2, <1>3, <1>4, <1>6, <1>7, <1>8

-----------------------------------------------------------------------------
(* The VPQ holds the in-flight instructions in program order *)

\* In the middle of rename2's loop the VPQ still has an entry for every eligible instruction
\* that is left: what stall_value saw before the loop.
BundleFits == renaming => EligibleCount(RENAME2) <= Available(vpQueue_Head, vpQueue_Tail, VPQsize)

OrderInv == InOrder(vpQueue_Head, vpQueue_Tail, inflight) /\ BundleFits

\* What the invariants say of the pointers, for the steps below.
LEMMA QueueFacts ==
  ASSUME TypeInv, OrderInv
  PROVE  /\ vpQueue_Head \in Pointer(VPQsize) /\ vpQueue_Tail \in Pointer(VPQsize)
         /\ Ordered(vpQueue_Head, vpQueue_Tail)
         /\ Distance(vpQueue_Head, vpQueue_Tail, VPQsize) \in 0..VPQsize
         /\ Available(vpQueue_Head, vpQueue_Tail, VPQsize) =
              VPQsize - Distance(vpQueue_Head, vpQueue_Tail, VPQsize)
         /\ inflight \in Seq(Payload)
         /\ Len(inflight) \in Nat
         /\ \A i \in 1..Len(inflight) : inflight[i] \in Payload
<1>1. /\ vpQueue_Head \in Pointer(VPQsize) /\ vpQueue_Tail \in Pointer(VPQsize)
      /\ Ordered(vpQueue_Head, vpQueue_Tail)
      /\ inflight \in Seq(Payload)
  BY DEF TypeInv, TypeOK, OrderInv, InOrder
<1> QED BY <1>1, DistanceType, StrideVPAssumption, LenProperties, ElementOfSeq

\* When rename2 is at an eligible instruction the VPQ is not full.
LEMMA RoomForHead ==
  ASSUME TypeInv, OrderInv, renaming
  PROVE  /\ EligibleCount(Tail(RENAME2)) <= EligibleCount(RENAME2)
         /\ EligibleCount(RENAME2) \in Nat /\ EligibleCount(Tail(RENAME2)) \in Nat
         /\ EligibleCount(RENAME2) <= Available(vpQueue_Head, vpQueue_Tail, VPQsize)
         /\ Head(RENAME2).kind = "value" =>
              /\ EligibleCount(Tail(RENAME2)) + 1 <= EligibleCount(RENAME2)
              /\ Distance(vpQueue_Head, vpQueue_Tail, VPQsize) < VPQsize
<1>1. RENAME2 \in Seq(Instruction) /\ RENAME2 # <<>>
  BY DEF TypeInv, TypeOK, RenamingHasBundle
<1>2. EligibleCount(RENAME2) <= Available(vpQueue_Head, vpQueue_Tail, VPQsize)
  BY DEF OrderInv, BundleFits
<1> QED BY <1>1, <1>2, EligibleTail, QueueFacts, StrideVPAssumption

\* The payload rename2 gives a branch.
BranchPayload ==
  [kind |-> "branch", pc |-> 0,
   VPQTail |-> vpQueue_Tail.idx, VPQTailPhase |-> vpQueue_Tail.phase,
   predictedValue |-> 0, isConfident |-> FALSE,
   done |-> FALSE, value |-> 0, val_misp |-> FALSE]

\* What is appended to a sequence of payloads to give one is a payload.
LEMMA LastType ==
  ASSUME NEW q \in Seq(Payload), NEW w, Append(q, w) \in Seq(Payload)
  PROVE  w \in Payload
<1>1. w = Append(q, w)[Len(q) + 1] /\ Len(q) + 1 \in 1..Len(Append(q, w))
  OBVIOUS
<1> QED BY <1>1, ElementOfSeq

\* A computed value changes one instruction, and of its payload only the outcome.
LEMMA SetValueEffect ==
  ASSUME inflight \in Seq(Payload), NEW i \in 1..Len(inflight), NEW value, SetValue(i, value)
  PROVE  /\ Len(inflight') = Len(inflight)
         /\ \A j \in 1..Len(inflight) : /\ inflight'[j].kind = inflight[j].kind
                                        /\ inflight'[j].VPQTail = inflight[j].VPQTail
                                        /\ inflight'[j].VPQTailPhase = inflight[j].VPQTailPhase
                                        /\ inflight'[j].pc = inflight[j].pc
                                        /\ j # i => inflight'[j] = inflight[j]
         /\ inflight'[i].value = value
<1> DEFINE w == [inflight[i] EXCEPT !.done = TRUE, !.value = value,
                   !.val_misp = ~oracleConf /\ inflight[i].isConfident
                                /\ value # inflight[i].predictedValue]
<1>1. inflight[i] \in Payload
  BY ElementOfSeq
<1>2. /\ w.kind = inflight[i].kind /\ w.VPQTail = inflight[i].VPQTail
      /\ w.VPQTailPhase = inflight[i].VPQTailPhase /\ w.pc = inflight[i].pc
      /\ w.value = value
  BY <1>1 DEF Payload
<1>3. inflight' = [inflight EXCEPT ![i] = w]
  BY DEF SetValue
<1> HIDE DEF w
<1> QED BY <1>2, <1>3

\* The VPQ starts empty, with nothing in flight.
LEMMA OrderInit == Init => OrderInv
<1> SUFFICES ASSUME Init PROVE OrderInv
  OBVIOUS
<1>1. InOrder(vpQueue_Head, vpQueue_Tail, inflight)
  BY InOrderEmpty, OriginType, StrideVPAssumption DEF Init
<1>2. BundleFits
  BY DEF Init, BundleFits
<1> QED BY <1>1, <1>2 DEF OrderInv

\* Every step keeps the VPQ in program order and the bundle fitting it.
LEMMA OrderNext == TypeInv /\ TypeInv' /\ OrderInv /\ [Next]_vars => OrderInv'
<1> SUFFICES ASSUME TypeInv, TypeInv', OrderInv, [Next]_vars PROVE OrderInv'
  OBVIOUS
<1>0. /\ vpQueue_Head \in Pointer(VPQsize) /\ vpQueue_Tail \in Pointer(VPQsize)
      /\ Ordered(vpQueue_Head, vpQueue_Tail)
      /\ Distance(vpQueue_Head, vpQueue_Tail, VPQsize) \in 0..VPQsize
      /\ Available(vpQueue_Head, vpQueue_Tail, VPQsize) =
           VPQsize - Distance(vpQueue_Head, vpQueue_Tail, VPQsize)
      /\ inflight \in Seq(Payload) /\ Len(inflight) \in Nat
      /\ InOrder(vpQueue_Head, vpQueue_Tail, inflight)
      /\ inflight' \in Seq(Payload)
      /\ \A i \in 1..Len(inflight) : inflight[i] \in Payload
  BY QueueFacts DEF OrderInv, TypeInv, TypeOK
\* Where neither the pointers nor the instructions change, and no bundle is in the loop.
<1>a. ASSUME UNCHANGED <<vpQueue_Head, vpQueue_Tail, inflight>>, ~renaming' PROVE OrderInv'
  BY <1>0, <1>a DEF OrderInv, BundleFits
<1>1. ASSUME NEW bundle \in Bundles, Rename1(bundle) PROVE OrderInv'
  BY <1>a, <1>1 DEF Rename1, vpqVars, TypeInv, RenamingHasBundle
<1>2. CASE Rename2
  <2>1. EligibleCount(RENAME2) <= Available(vpQueue_Head, vpQueue_Tail, VPQsize)
    <3>1. EligibleCount(RENAME2) \in Nat
      BY <1>2, EligibleTail DEF Rename2, TypeInv, TypeOK
    <3> QED BY <1>0, <1>2, <3>1, StrideVPAssumption DEF Rename2, stall_value
  <2>2. UNCHANGED <<vpQueue_Head, vpQueue_Tail, inflight, RENAME2>>
    BY <1>2 DEF Rename2, vpqVars
  <2> QED BY <1>0, <2>1, <2>2 DEF OrderInv, BundleFits
<1>3. CASE RenameBranch
  <2> DEFINE w == BranchPayload
  <2>1. /\ inflight' = Append(inflight, w) /\ w.kind = "branch"
        /\ Checkpointed(w) = vpQueue_Tail
        /\ vpQueue_Head' = vpQueue_Head /\ vpQueue_Tail' = vpQueue_Tail
        /\ RENAME2' = Tail(RENAME2) /\ renaming
    BY <1>0, <1>3 DEF RenameBranch, NextOfBundle, vpqVars, BranchPayload, Checkpointed, Pointer
  <2> HIDE DEF w
  <2>2. w \in Payload
    BY <1>0, <2>1, LastType
  <2>3. PositionOf(vpQueue_Head, w) = Distance(vpQueue_Head, vpQueue_Tail, VPQsize)
        /\ TakesOf(w) = 0
    BY <2>1 DEF PositionOf, TakesOf
  <2>4. InOrder(vpQueue_Head, vpQueue_Tail, Append(inflight, w))
    BY <1>0, <2>1, <2>2, <2>3, InOrderAppend, StrideVPAssumption
  <2>5. EligibleCount(RENAME2') <= Available(vpQueue_Head, vpQueue_Tail, VPQsize)
    BY <1>0, <2>1, RoomForHead, StrideVPAssumption
  <2> QED BY <2>1, <2>4, <2>5 DEF OrderInv, BundleFits
<1>4. CASE RenameEligible
  <2>1. PICK w : /\ inflight' = Append(inflight, w) /\ w.kind = "value"
                 /\ w.VPQTail = vpQueue_Tail.idx
    BY <1>4 DEF RenameEligible
  <2>2. /\ vpQueue_Head' = vpQueue_Head
        /\ vpQueue_Tail' = Advance(vpQueue_Tail, VPQsize)
        /\ RENAME2' = Tail(RENAME2) /\ renaming /\ Head(RENAME2).kind = "value"
    BY <1>4 DEF RenameEligible, NextOfBundle
  <2>3. w \in Payload
    BY <1>0, <2>1, LastType
  <2>4. /\ Distance(vpQueue_Head, vpQueue_Tail, VPQsize) < VPQsize
        /\ EligibleCount(RENAME2') \in Nat /\ EligibleCount(RENAME2) \in Nat
        /\ EligibleCount(RENAME2') + 1 <= EligibleCount(RENAME2)
        /\ EligibleCount(RENAME2) <= Available(vpQueue_Head, vpQueue_Tail, VPQsize)
    BY <2>2, RoomForHead
  <2> DEFINE u == Advance(vpQueue_Tail, VPQsize)
  <2>5. /\ u \in Pointer(VPQsize) /\ Ordered(vpQueue_Head, u)
        /\ Distance(vpQueue_Head, u, VPQsize) =
             Distance(vpQueue_Head, vpQueue_Tail, VPQsize) + 1
    BY <1>0, <2>4, AdvanceType, AdvanceTail, StrideVPAssumption
  <2> HIDE DEF u
  <2>6. PositionOf(vpQueue_Head, w) = Distance(vpQueue_Head, vpQueue_Tail, VPQsize)
        /\ TakesOf(w) = 1
    BY <1>0, <2>1, <2>4, OffsetOfTail DEF PositionOf, TakesOf
  <2>7. InOrder(vpQueue_Head, u, Append(inflight, w))
    BY <1>0, <2>1, <2>3, <2>5, <2>6, InOrderAppend
  <2>8. Available(vpQueue_Head, u, VPQsize) =
          VPQsize - Distance(vpQueue_Head, u, VPQsize)
    BY <1>0, <2>5, DistanceType, StrideVPAssumption
  <2>9. EligibleCount(RENAME2') <= Available(vpQueue_Head, u, VPQsize)
    BY <1>0, <2>4, <2>5, <2>8, StrideVPAssumption
  <2>10. vpQueue_Tail' = u
    BY <2>2 DEF u
  <2> QED BY <2>1, <2>2, <2>7, <2>9, <2>10 DEF OrderInv, BundleFits
<1>5. ASSUME NEW i \in 1..Len(inflight), NEW value \in Value, SetValue(i, value) PROVE OrderInv'
  <2>1. /\ Len(inflight') = Len(inflight)
        /\ \A j \in 1..Len(inflight) : /\ inflight'[j].kind = inflight[j].kind
                                       /\ inflight'[j].VPQTail = inflight[j].VPQTail
                                       /\ inflight'[j].VPQTailPhase = inflight[j].VPQTailPhase
    BY <1>0, <1>5, SetValueEffect
  <2>2. InOrder(vpQueue_Head, vpQueue_Tail, inflight')
    BY <1>0, <2>1, InOrderSame
  <2> QED BY <1>5, <2>2 DEF SetValue, OrderInv, BundleFits
<1>6. ASSUME NEW i \in 1..Len(inflight), ResolveCorrect(i) PROVE OrderInv'
  <2>1. /\ Len(inflight') = Len(inflight)
        /\ \A j \in 1..Len(inflight) : /\ inflight'[j].kind = inflight[j].kind
                                       /\ inflight'[j].VPQTail = inflight[j].VPQTail
                                       /\ inflight'[j].VPQTailPhase = inflight[j].VPQTailPhase
    BY <1>0, <1>6 DEF ResolveCorrect, Payload
  <2>2. InOrder(vpQueue_Head, vpQueue_Tail, inflight')
    BY <1>0, <2>1, InOrderSame
  <2> QED BY <1>6, <2>2 DEF ResolveCorrect, OrderInv, BundleFits, vpqVars
<1>7. ASSUME NEW i \in 1..Len(inflight), Mispredict(i) PROVE OrderInv'
  <2> DEFINE kept == SubSeq(inflight, 1, i)
             c == Checkpointed(inflight[i])
  <2>1. InOrder(vpQueue_Head, c, kept)
    BY <1>0, <1>7, InOrderPrefix DEF Mispredict
  <2>2. kept \in Seq(Payload) /\ Len(kept) = i /\ \A j \in 1..i : kept[j] \in Payload
    BY <1>0
  <2>3. inflight' = [kept EXCEPT ![i].done = TRUE]
    BY <1>7 DEF Mispredict
  <2> HIDE DEF kept, c
  <2>4. /\ Len(inflight') = Len(kept)
        /\ \A j \in 1..Len(kept) : /\ inflight'[j].kind = kept[j].kind
                                   /\ inflight'[j].VPQTail = kept[j].VPQTail
                                   /\ inflight'[j].VPQTailPhase = kept[j].VPQTailPhase
    BY <2>2, <2>3 DEF Payload
  <2>5. InOrder(vpQueue_Head, c, inflight')
    BY <1>0, <2>1, <2>2, <2>4, InOrderSame
  <2>6. vpQueue_Head' = vpQueue_Head /\ vpQueue_Tail' = c /\ ~renaming'
    BY <1>7 DEF Mispredict, c
  <2> QED BY <2>5, <2>6 DEF OrderInv, BundleFits
<1>8. CASE RetireBranch
  <2>1. /\ inflight # <<>> /\ inflight' = Tail(inflight) /\ inflight[1].kind # "value"
        /\ vpQueue_Head' = vpQueue_Head /\ vpQueue_Tail' = vpQueue_Tail /\ ~renaming'
    BY <1>8 DEF RetireBranch, vpqVars
  <2>2. InOrder(vpQueue_Head, vpQueue_Tail, Tail(inflight))
    BY <1>0, <2>1, InOrderTail
  <2> QED BY <2>1, <2>2 DEF OrderInv, BundleFits
<1>9. CASE RetireEligible
  <2>1. /\ inflight # <<>> /\ inflight' = Tail(inflight) /\ inflight[1].kind = "value"
        /\ vpQueue_Head' = Advance(vpQueue_Head, VPQsize) /\ vpQueue_Tail' = vpQueue_Tail
        /\ ~renaming'
    BY <1>9 DEF RetireEligible, popFromVPQ
  <2>2. InOrder(Advance(vpQueue_Head, VPQsize), vpQueue_Tail, Tail(inflight))
    BY <1>0, <2>1, InOrderTail
  <2> QED BY <2>1, <2>2 DEF OrderInv, BundleFits
<1>10. CASE RetireMispredicted
  <2>1. /\ vpQueue_Head' \in Pointer(VPQsize) /\ vpQueue_Tail' = vpQueue_Head'
        /\ inflight' = <<>> /\ ~renaming'
    BY <1>10 DEF RetireMispredicted, TypeInv, TypeOK
  <2>2. InOrder(vpQueue_Head', vpQueue_Tail', inflight')
    BY <2>1, InOrderEmpty
  <2> QED BY <2>1, <2>2 DEF OrderInv, BundleFits
<1>11. CASE SquashComplete
  <2>1. /\ vpQueue_Head' \in Pointer(VPQsize) /\ vpQueue_Tail' = vpQueue_Head'
        /\ inflight' = <<>> /\ ~renaming'
    BY <1>11 DEF SquashComplete, TypeInv, TypeOK
  <2>2. InOrder(vpQueue_Head', vpQueue_Tail', inflight')
    BY <2>1, InOrderEmpty
  <2> QED BY <2>1, <2>2 DEF OrderInv, BundleFits
<1>12. CASE UNCHANGED vars
  <2>1. UNCHANGED <<vpQueue_Head, vpQueue_Tail, inflight, renaming, RENAME2>>
    BY <1>12 DEF vars
  <2> QED BY <1>0, <2>1 DEF OrderInv, BundleFits
<1> QED
  BY <1>1, <1>2, <1>3, <1>4, <1>5, <1>6, <1>7, <1>8, <1>9, <1>10, <1>11, <1>12 DEF Next

\* The VPQ is the in-flight eligible instructions in program order, whatever interleaving of
\* bundles, rollbacks, squashes and retirements the pipeline goes through: the entry at the
\* head belongs to the instruction that retires (the assertion of retire.cc:91).
THEOREM ProgramOrder == Spec => []VPQInProgramOrder
<1>1. TypeInv /\ OrderInv => VPQInProgramOrder
  BY InOrderImplies DEF OrderInv
<1> QED BY <1>1, TypeInit, TypeNext, OrderInit, OrderNext, PTL DEF Spec

-----------------------------------------------------------------------------
(* Every VPQ entry stays its owner's *)

\* What VPQEntryBelongsToOwner says of one instruction and its entry.
Owns(w, entry) ==
  w.kind = "value" =>
    /\ entry.tag = extractTag(w.pc)
    /\ entry.pcIndex = extractPCIndex(w.pc)
    /\ w.done => entry.value = w.value

\* VPQEntryBelongsToOwner, one instruction at a time.
LEMMA OwnerAlt ==
  VPQEntryBelongsToOwner <=>
    \A i \in 1..Len(inflight) : Owns(inflight[i], vpQueueTable[inflight[i].VPQTail])
BY DEF VPQEntryBelongsToOwner, Owns

\* Two eligible instructions in flight never share an entry.
LEMMA EntriesDistinct ==
  ASSUME TypeInv, OrderInv,
         NEW i \in 1..Len(inflight), NEW j \in 1..Len(inflight), i # j,
         inflight[i].kind = "value", inflight[j].kind = "value"
  PROVE  inflight[i].VPQTail # inflight[j].VPQTail
<1>1. /\ inflight[i] \in Payload /\ inflight[j] \in Payload
      /\ vpQueue_Head \in Pointer(VPQsize) /\ Len(inflight) \in Nat
  BY QueueFacts
<1>2. /\ PositionOf(vpQueue_Head, inflight[i]) \in 0..VPQsize
      /\ PositionOf(vpQueue_Head, inflight[j]) \in 0..VPQsize
      /\ TakesOf(inflight[i]) = 1 /\ TakesOf(inflight[j]) = 1
  BY <1>1, PositionType
<1>3. i < j \/ j < i
  BY <1>1
<1>4. PositionOf(vpQueue_Head, inflight[i]) # PositionOf(vpQueue_Head, inflight[j])
  BY <1>2, <1>3, StrideVPAssumption DEF OrderInv, InOrder
<1> QED BY <1>4 DEF PositionOf

\* The entry at the tail of a VPQ that is not full is no instruction's.
LEMMA TailEntryFree ==
  ASSUME TypeInv, OrderInv, Distance(vpQueue_Head, vpQueue_Tail, VPQsize) < VPQsize,
         NEW i \in 1..Len(inflight), inflight[i].kind = "value"
  PROVE  inflight[i].VPQTail # vpQueue_Tail.idx
<1>1. /\ inflight[i] \in Payload
      /\ vpQueue_Head \in Pointer(VPQsize) /\ vpQueue_Tail \in Pointer(VPQsize)
      /\ Ordered(vpQueue_Head, vpQueue_Tail)
  BY QueueFacts
<1>2. PositionOf(vpQueue_Head, inflight[i]) \in 0..VPQsize /\ TakesOf(inflight[i]) = 1
  BY <1>1, PositionType
<1>3. PositionOf(vpQueue_Head, inflight[i]) + 1 <= Distance(vpQueue_Head, vpQueue_Tail, VPQsize)
  BY <1>2 DEF OrderInv, InOrder
<1>4. OffsetOf(vpQueue_Head, vpQueue_Tail.idx) = Distance(vpQueue_Head, vpQueue_Tail, VPQsize)
  BY <1>1, OffsetOfTail
<1>5. PositionOf(vpQueue_Head, inflight[i]) = OffsetOf(vpQueue_Head, inflight[i].VPQTail)
  BY DEF PositionOf
<1> QED BY <1>2, <1>3, <1>4, <1>5, StrideVPAssumption

\* The entry at the head is the oldest instruction's, when that one is eligible.
LEMMA HeadEntryOwned ==
  ASSUME TypeInv, OrderInv, inflight # <<>>, inflight[1].kind = "value"
  PROVE  /\ inflight[1].VPQTail = vpQueue_Head.idx
         /\ Distance(vpQueue_Head, vpQueue_Tail, VPQsize) > 0
<1>1. 1 \in 1..Len(inflight)
  BY QueueFacts, EmptySeq
<1>2. inflight[1] \in Payload /\ vpQueue_Head \in Pointer(VPQsize)
  BY <1>1, QueueFacts
<1>3. OffsetOf(vpQueue_Head, inflight[1].VPQTail) = 0 /\ TakesOf(inflight[1]) = 1
  BY <1>1 DEF OrderInv, InOrder, PositionOf, TakesOf
<1>4. OffsetOf(vpQueue_Head, vpQueue_Head.idx) = 0
  BY <1>2, StrideVPAssumption DEF OffsetOf, Pointer
<1>5. inflight[1].VPQTail = vpQueue_Head.idx
  BY <1>2, <1>3, <1>4, OffsetInjective DEF Pointer, Payload
<1>6. 0 + 1 <= Distance(vpQueue_Head, vpQueue_Tail, VPQsize)
  BY <1>1, <1>3 DEF OrderInv, InOrder, PositionOf
<1> QED BY <1>5, <1>6, QueueFacts, StrideVPAssumption

\* Nothing is in flight at the start.
LEMMA OwnerInit == Init => VPQEntryBelongsToOwner
BY DEF Init, VPQEntryBelongsToOwner

\* Every step leaves the entries to their owners: a push writes an entry no instruction has,
\* a value goes into one instruction's entry, and a pop clears the retiring instruction's.
LEMMA OwnerNext ==
  TypeInv /\ OrderInv /\ VPQEntryBelongsToOwner /\ [Next]_vars => VPQEntryBelongsToOwner'
<1> SUFFICES ASSUME TypeInv, OrderInv, VPQEntryBelongsToOwner, [Next]_vars,
                    NEW j \in 1..Len(inflight')
             PROVE  Owns(inflight'[j], vpQueueTable'[inflight'[j].VPQTail])
  BY OwnerAlt, OwnerAlt' DEF VPQEntryBelongsToOwner, Owns
<1>0. /\ inflight \in Seq(Payload) /\ Len(inflight) \in Nat
      /\ \A i \in 1..Len(inflight) : inflight[i] \in Payload
      /\ \A i \in 1..Len(inflight) : Owns(inflight[i], vpQueueTable[inflight[i].VPQTail])
      /\ vpQueueTable \in [0..(VPQsize - 1) -> VPQEntry]
      /\ vpQueue_Head.idx \in 0..(VPQsize - 1) /\ vpQueue_Tail.idx \in 0..(VPQsize - 1)
  BY QueueFacts, OwnerAlt DEF TypeInv, TypeOK, Pointer
<1> DEFINE Goal == Owns(inflight'[j], vpQueueTable'[inflight'[j].VPQTail])
<1>a. ASSUME UNCHANGED <<inflight, vpQueueTable>> PROVE Goal
  BY <1>0, <1>a
<1>1. ASSUME NEW bundle \in Bundles, Rename1(bundle) PROVE Goal
  BY <1>a, <1>1 DEF Rename1, vpqVars
<1>2. CASE Rename2
  BY <1>a, <1>2 DEF Rename2, vpqVars
<1>3. CASE RenameBranch
  <2>1. PICK w : /\ inflight' = Append(inflight, w) /\ w.kind = "branch"
                 /\ vpQueueTable' = vpQueueTable
    BY <1>3 DEF RenameBranch, vpqVars
  <2>2. CASE j \in 1..Len(inflight)
    BY <1>0, <2>1, <2>2
  <2>3. CASE j = Len(inflight) + 1
    <3>1. inflight'[j] = w
      BY <1>0, <2>1, <2>3
    <3> QED BY <2>1, <3>1 DEF Owns
  <2>4. j \in 1..Len(inflight) \/ j = Len(inflight) + 1
    BY <1>0, <2>1
  <2> QED BY <2>2, <2>3, <2>4
<1>4. CASE RenameEligible
  <2> DEFINE pc == Head(RENAME2).pc
             entry == [tag |-> extractTag(pc), pcIndex |-> extractPCIndex(pc), value |-> 0]
  <2>1. PICK w : /\ inflight' = Append(inflight, w) /\ w.kind = "value" /\ w.pc = pc
                 /\ ~w.done /\ w.VPQTail = vpQueue_Tail.idx
    BY <1>4 DEF RenameEligible
  <2>2. vpQueueTable' = [vpQueueTable EXCEPT ![vpQueue_Tail.idx] = entry]
    BY <1>4 DEF RenameEligible
  <2>3. CASE j \in 1..Len(inflight)
    <3>1. inflight'[j] = inflight[j]
      BY <1>0, <2>1, <2>3
    <3>2. CASE inflight[j].kind = "value"
      <4>1. inflight[j].VPQTail # vpQueue_Tail.idx
        BY <1>4, <2>3, <3>2, RoomForHead, TailEntryFree DEF RenameEligible
      <4>2. inflight[j].VPQTail \in 0..(VPQsize - 1)
        BY <1>0, <2>3 DEF Payload
      <4>3. vpQueueTable'[inflight[j].VPQTail] = vpQueueTable[inflight[j].VPQTail]
        BY <1>0, <2>2, <4>1, <4>2
      <4> QED BY <1>0, <2>3, <3>1, <4>3
    <3>3. CASE inflight[j].kind # "value"
      BY <3>1, <3>3 DEF Owns
    <3> QED BY <3>2, <3>3
  <2>4. CASE j = Len(inflight) + 1
    <3>1. inflight'[j] = w
      BY <1>0, <2>1, <2>4
    <3>2. vpQueueTable'[w.VPQTail] = entry
      BY <1>0, <2>1, <2>2
    <3> QED BY <2>1, <3>1, <3>2 DEF Owns
  <2>5. j \in 1..Len(inflight) \/ j = Len(inflight) + 1
    BY <1>0, <2>1
  <2> QED BY <2>3, <2>4, <2>5
<1>5. ASSUME NEW i \in 1..Len(inflight), NEW value \in Value, SetValue(i, value) PROVE Goal
  <2>1. /\ Len(inflight') = Len(inflight)
        /\ inflight'[j].kind = inflight[j].kind
        /\ inflight'[j].VPQTail = inflight[j].VPQTail
        /\ inflight'[j].pc = inflight[j].pc
        /\ j # i => inflight'[j] = inflight[j]
        /\ inflight'[i].value = value
        /\ j \in 1..Len(inflight)
    BY <1>0, <1>5, SetValueEffect
  <2>2. /\ vpQueueTable' = [vpQueueTable EXCEPT ![inflight[i].VPQTail].value = value]
        /\ inflight[i].kind = "value"
    BY <1>5 DEF SetValue
  <2>3. inflight[i].VPQTail \in 0..(VPQsize - 1) /\ inflight[j].VPQTail \in 0..(VPQsize - 1)
    BY <1>0, <2>1 DEF Payload
  <2>4. CASE j = i
    <3>1. /\ vpQueueTable'[inflight[i].VPQTail].value = value
          /\ vpQueueTable'[inflight[i].VPQTail].tag = vpQueueTable[inflight[i].VPQTail].tag
          /\ vpQueueTable'[inflight[i].VPQTail].pcIndex =
               vpQueueTable[inflight[i].VPQTail].pcIndex
      BY <1>0, <2>2, <2>3 DEF VPQEntry
    <3> QED BY <1>0, <2>1, <2>4, <3>1 DEF Owns
  <2>5. CASE j # i /\ inflight[j].kind = "value"
    <3>1. inflight[j].VPQTail # inflight[i].VPQTail
      BY <2>1, <2>2, <2>5, EntriesDistinct
    <3>2. vpQueueTable'[inflight[j].VPQTail] = vpQueueTable[inflight[j].VPQTail]
      BY <1>0, <2>2, <2>3, <3>1
    <3> QED BY <1>0, <2>1, <2>5, <3>2
  <2>6. CASE inflight[j].kind # "value"
    BY <2>1, <2>6 DEF Owns
  <2> QED BY <2>4, <2>5, <2>6
<1>6. ASSUME NEW i \in 1..Len(inflight), ResolveCorrect(i) PROVE Goal
  <2>1. j \in 1..Len(inflight) /\ vpQueueTable' = vpQueueTable /\ inflight[i].kind = "branch"
    BY <1>0, <1>6 DEF ResolveCorrect, vpqVars
  <2>2. CASE j # i
    <3>1. inflight'[j] = inflight[j]
      BY <1>0, <1>6, <2>1, <2>2 DEF ResolveCorrect
    <3> QED BY <1>0, <2>1, <3>1
  <2>3. CASE j = i
    <3>1. inflight'[j].kind = "branch"
      BY <1>0, <1>6, <2>1, <2>3 DEF ResolveCorrect, Payload
    <3> QED BY <3>1 DEF Owns
  <2> QED BY <2>2, <2>3
<1>7. ASSUME NEW i \in 1..Len(inflight), Mispredict(i) PROVE Goal
  <2> DEFINE kept == SubSeq(inflight, 1, i)
  <2>1. kept \in Seq(Payload) /\ Len(kept) = i /\ \A k \in 1..i : kept[k] = inflight[k]
    BY <1>0
  <2>2. /\ inflight' = [kept EXCEPT ![i].done = TRUE] /\ vpQueueTable' = vpQueueTable
        /\ inflight[i].kind = "branch"
    BY <1>7 DEF Mispredict
  <2> HIDE DEF kept
  <2>3. j \in 1..i /\ j \in 1..Len(inflight)
    BY <1>0, <2>1, <2>2
  <2>4. CASE j # i
    <3>1. inflight'[j] = inflight[j]
      BY <2>1, <2>2, <2>3, <2>4
    <3> QED BY <1>0, <2>2, <2>3, <3>1
  <2>5. CASE j = i
    <3>1. inflight'[j].kind = "branch"
      BY <1>0, <2>1, <2>2, <2>3, <2>5 DEF Payload
    <3> QED BY <3>1 DEF Owns
  <2> QED BY <2>4, <2>5
<1>8. CASE RetireBranch
  <2>1. inflight # <<>> /\ inflight' = Tail(inflight) /\ vpQueueTable' = vpQueueTable
    BY <1>8 DEF RetireBranch, vpqVars
  <2>2. j + 1 \in 1..Len(inflight) /\ inflight'[j] = inflight[j + 1]
    BY <1>0, <2>1, HeadTailProperties
  <2> QED BY <1>0, <2>1, <2>2
<1>9. CASE RetireEligible
  <2>1. /\ inflight # <<>> /\ inflight' = Tail(inflight) /\ inflight[1].kind = "value"
        /\ vpQueueTable' = [vpQueueTable EXCEPT ![vpQueue_Head.idx] =
                              [tag |-> 0, pcIndex |-> 0, value |-> 0]]
    BY <1>9 DEF RetireEligible, popFromVPQ
  <2>2. /\ j + 1 \in 1..Len(inflight) /\ inflight'[j] = inflight[j + 1]
        /\ 1 \in 1..Len(inflight) /\ j + 1 # 1
    BY <1>0, <2>1, HeadTailProperties
  <2>3. CASE inflight[j + 1].kind = "value"
    <3>1. inflight[1].VPQTail # inflight[j + 1].VPQTail
      BY <2>1, <2>2, <2>3, EntriesDistinct
    <3>2. inflight[1].VPQTail = vpQueue_Head.idx
      BY <2>1, HeadEntryOwned
    <3>3. inflight[j + 1].VPQTail \in 0..(VPQsize - 1)
      BY <1>0, <2>2 DEF Payload
    <3>4. vpQueueTable'[inflight[j + 1].VPQTail] = vpQueueTable[inflight[j + 1].VPQTail]
      BY <1>0, <2>1, <3>1, <3>2, <3>3
    <3> QED BY <1>0, <2>2, <3>4
  <2>4. CASE inflight[j + 1].kind # "value"
    BY <2>2, <2>4 DEF Owns
  <2> QED BY <2>3, <2>4
<1>10. CASE RetireMispredicted
  BY <1>10 DEF RetireMispredicted
<1>11. CASE SquashComplete
  BY <1>11 DEF SquashComplete
<1>12. CASE UNCHANGED vars
  BY <1>a, <1>12 DEF vars
<1> QED
  BY <1>1, <1>2, <1>3, <1>4, <1>5, <1>6, <1>7, <1>8, <1>9, <1>10, <1>11, <1>12 DEF Next

\* The entry an eligible instruction recorded in rename2 is still its own when its value is
\* computed and when it retires, so the predictor trains with the instruction's own value.
THEOREM EntryOwnership == Spec => []VPQEntryBelongsToOwner
<1> QED BY TypeInit, TypeNext, OrderInit, OrderNext, OwnerInit, OwnerNext, PTL DEF Spec

-----------------------------------------------------------------------------
(* The instance counters count the VPQ *)

Instances(table, h, t, tag, index) == Cardinality(Matching(table, h, t, tag, index))

\* Pushing an entry adds one to the count of its own tag and index.
LEMMA InstancesPush ==
  ASSUME NEW h \in Pointer(VPQsize), NEW t \in Pointer(VPQsize), Ordered(h, t),
         Distance(h, t, VPQsize) < VPQsize,
         NEW table, NEW pushed, \A s \in 0..(VPQsize - 1) : s # t.idx => pushed[s] = table[s],
         NEW tag, NEW index
  PROVE  /\ pushed[t.idx].tag = tag /\ pushed[t.idx].pcIndex = index =>
              Instances(pushed, h, Advance(t, VPQsize), tag, index) =
                Instances(table, h, t, tag, index) + 1
         /\ pushed[t.idx].tag # tag \/ pushed[t.idx].pcIndex # index =>
              Instances(pushed, h, Advance(t, VPQsize), tag, index) =
                Instances(table, h, t, tag, index)
<1> DEFINE M == Matching(table, h, t, tag, index)
           P == Matching(pushed, h, Advance(t, VPQsize), tag, index)
<1>1. /\ Slots(h, Advance(t, VPQsize), VPQsize) = Slots(h, t, VPQsize) \cup {t.idx}
      /\ t.idx \notin Slots(h, t, VPQsize)
      /\ Slots(h, t, VPQsize) \subseteq 0..(VPQsize - 1)
      /\ t.idx \in 0..(VPQsize - 1)
  BY AdvanceTail, SlotsType, StrideVPAssumption DEF Pointer
<1>2. IsFiniteSet(M) /\ Cardinality(M) \in Nat /\ t.idx \notin M
  <2>1. IsFiniteSet(M) /\ Cardinality(M) \in Nat
    BY MatchingType
  <2>2. t.idx \notin M
    BY <1>1 DEF Matching
  <2> QED BY <2>1, <2>2
<1>3. CASE pushed[t.idx].tag = tag /\ pushed[t.idx].pcIndex = index
  <2>1. P = M \cup {t.idx}
    BY <1>1, <1>3 DEF Matching
  <2> HIDE DEF M, P
  <2>2. Cardinality(P) = Cardinality(M) + 1
    BY <1>2, <2>1, FS_AddElement
  <2> QED BY <1>3, <2>2 DEF Instances, M, P
<1>4. CASE ~(pushed[t.idx].tag = tag /\ pushed[t.idx].pcIndex = index)
  <2>1. P = M
    BY <1>1, <1>4 DEF Matching
  <2> HIDE DEF M, P
  <2> QED BY <1>4, <2>1 DEF Instances, M, P
<1> QED BY <1>3, <1>4

\* Popping the head takes one off the count of its own tag and index.
LEMMA InstancesPop ==
  ASSUME NEW h \in Pointer(VPQsize), NEW t \in Pointer(VPQsize), Ordered(h, t),
         Distance(h, t, VPQsize) > 0,
         NEW table, NEW popped, \A s \in 0..(VPQsize - 1) : s # h.idx => popped[s] = table[s],
         NEW tag, NEW index
  PROVE  /\ table[h.idx].tag = tag /\ table[h.idx].pcIndex = index =>
              Instances(popped, Advance(h, VPQsize), t, tag, index) =
                Instances(table, h, t, tag, index) - 1
         /\ table[h.idx].tag # tag \/ table[h.idx].pcIndex # index =>
              Instances(popped, Advance(h, VPQsize), t, tag, index) =
                Instances(table, h, t, tag, index)
<1> DEFINE M == Matching(table, h, t, tag, index)
           P == Matching(popped, Advance(h, VPQsize), t, tag, index)
<1>1. /\ Slots(Advance(h, VPQsize), t, VPQsize) = Slots(h, t, VPQsize) \ {h.idx}
      /\ h.idx \in Slots(h, t, VPQsize)
      /\ Slots(h, t, VPQsize) \subseteq 0..(VPQsize - 1)
  BY AdvanceHead, SlotsType, StrideVPAssumption
<1>2. IsFiniteSet(M) /\ Cardinality(M) \in Nat
  BY MatchingType
<1>3. P = M \ {h.idx} /\ (h.idx \in M <=> table[h.idx].tag = tag /\ table[h.idx].pcIndex = index)
  BY <1>1 DEF Matching
<1> HIDE DEF M, P
<1>4. Cardinality(P) = IF h.idx \in M THEN Cardinality(M) - 1 ELSE Cardinality(M)
  BY <1>2, <1>3, FS_RemoveElement
<1> QED BY <1>3, <1>4 DEF Instances, M, P

\* A pointer between head and tail splits the count in two.
LEMMA InstancesSplit ==
  ASSUME NEW h \in Pointer(VPQsize), NEW c \in Pointer(VPQsize), NEW t \in Pointer(VPQsize),
         Ordered(h, c), Ordered(h, t), Distance(h, c, VPQsize) <= Distance(h, t, VPQsize),
         NEW table, NEW tag, NEW index
  PROVE  Instances(table, h, t, tag, index) =
           Instances(table, h, c, tag, index) + Instances(table, c, t, tag, index)
<1> DEFINE M == Matching(table, h, c, tag, index)
           P == Matching(table, c, t, tag, index)
<1>1. /\ Slots(h, t, VPQsize) = Slots(h, c, VPQsize) \cup Slots(c, t, VPQsize)
      /\ Slots(h, c, VPQsize) \cap Slots(c, t, VPQsize) = {}
  BY SlotsSplit, StrideVPAssumption
<1>2. Matching(table, h, t, tag, index) = M \cup P /\ M \cap P = {}
  BY <1>1 DEF Matching
<1>3. /\ IsFiniteSet(M) /\ Cardinality(M) \in Nat
      /\ IsFiniteSet(P) /\ Cardinality(P) \in Nat
  BY MatchingType
<1> HIDE DEF M, P
<1>4. Cardinality(M \cup P) = Cardinality(M) + Cardinality(P) - Cardinality({})
  BY <1>2, <1>3, FS_Union
<1>5. Cardinality(M \cup P) = Cardinality(M) + Cardinality(P)
  BY <1>3, <1>4, FS_EmptySet
<1> QED BY <1>2, <1>5 DEF Instances, M, P

\* An empty queue counts nothing, and a count depends on the tags and indexes alone.
LEMMA InstancesEmpty ==
  ASSUME NEW h \in Pointer(VPQsize), NEW table, NEW tag, NEW index
  PROVE  Instances(table, h, h, tag, index) = 0
<1>1. Matching(table, h, h, tag, index) = {}
  BY DistanceZero, StrideVPAssumption DEF Matching
<1> QED BY <1>1, FS_EmptySet DEF Instances

\* A counter agrees with the count of its entry's tag, or is one ahead of it.
Tracks(e, n) == e.instance \in {n, n + 1}

\* InstanceTracksVPQ, one predictor entry at a time.
LEMMA TracksAlt ==
  InstanceTracksVPQ <=>
    \A index \in Index :
      Tracks(svp[index],
             Instances(vpQueueTable, vpQueue_Head, vpQueue_Tail, svp[index].tag, index))
BY DEF InstanceTracksVPQ, Tracks, Instances, speculateInstance

\* Training an entry while a VPQ entry of the tag is popped: a hit takes one off both, a
\* replacement counts the entry that is about to be popped, and a miss that keeps the entry
\* changes nothing.
LEMMA TrainedTracks ==
  ASSUME NEW e \in SVPEntry, NEW tag \in Tag, NEW value, NEW count \in 1..VPQsize,
         e.tag = tag => Tracks(e, count)
  PROVE  \/ /\ Trained(e, tag, value, count).tag = tag
            /\ Tracks(Trained(e, tag, value, count), count - 1)
         \/ e.tag # tag /\ Trained(e, tag, value, count) = e
<1> DEFINE f == Trained(e, tag, value, count)
<1>0. e.instance \in 0..(InstanceMod - 1) /\ count \in Nat
  BY StrideVPAssumption DEF SVPEntry
<1>1. CASE e.tag = tag
  <2>1. f.tag = tag /\ f.instance = WrapSub(e.instance, 1, InstanceMod)
    BY <1>1 DEF Trained, SVPEntry
  <2>2. e.instance \in {count, count + 1}
    BY <1>1 DEF Tracks
  <2>3. WrapSub(e.instance, 1, InstanceMod) \in {count - 1, count - 1 + 1}
    BY <1>0, <2>2, StrideVPAssumption DEF WrapSub
  <2> QED BY <2>1, <2>3 DEF Tracks
<1>2. CASE e.tag # tag /\ e.conf <= Replace
  <2>1. f.tag = tag /\ f.instance = count
    BY <1>2 DEF Trained
  <2> QED BY <1>0, <2>1 DEF Tracks
<1>3. CASE e.tag # tag /\ ~(e.conf <= Replace)
  BY <1>3 DEF Trained
<1> QED BY <1>1, <1>2, <1>3

\* Counters and VPQ start at nothing.
LEMMA InstanceInit == Init => InstanceTracksVPQ
<1> SUFFICES ASSUME Init, NEW index \in Index
             PROVE  Tracks(svp[index],
                      Instances(vpQueueTable, vpQueue_Head, vpQueue_Tail, svp[index].tag, index))
  BY TracksAlt
<1>1. svp[index].instance = 0
  BY DEF Init
<1>2. Instances(vpQueueTable, vpQueue_Head, vpQueue_Tail, svp[index].tag, index) = 0
  BY InstancesEmpty, OriginType, StrideVPAssumption DEF Init
<1> QED BY <1>1, <1>2 DEF Tracks

\* Every step moves an instance counter and the VPQ together, entry x standing for all.
LEMMA InstanceNext ==
  TypeInv /\ TypeInv' /\ OrderInv /\ VPQEntryBelongsToOwner /\ InstanceTracksVPQ /\ [Next]_vars
    => InstanceTracksVPQ'
<1> SUFFICES ASSUME TypeInv, TypeInv', OrderInv, VPQEntryBelongsToOwner, InstanceTracksVPQ,
                    [Next]_vars, NEW x \in Index
             PROVE  Tracks(svp'[x],
                      Instances(vpQueueTable', vpQueue_Head', vpQueue_Tail', svp'[x].tag, x))
  BY DEF InstanceTracksVPQ, Tracks, Instances, speculateInstance
<1> DEFINE Goal == Tracks(svp'[x],
                     Instances(vpQueueTable', vpQueue_Head', vpQueue_Tail', svp'[x].tag, x))
           Holding(tag) == Instances(vpQueueTable, vpQueue_Head, vpQueue_Tail, tag, x)
<1>0. /\ svp \in [Index -> SVPEntry] /\ svp' \in [Index -> SVPEntry]
      /\ vpQueueTable \in [0..(VPQsize - 1) -> VPQEntry]
      /\ vpQueue_Head \in Pointer(VPQsize) /\ vpQueue_Tail \in Pointer(VPQsize)
      /\ vpQueue_Head' \in Pointer(VPQsize)
      /\ Ordered(vpQueue_Head, vpQueue_Tail)
      /\ svp[x] \in SVPEntry
      /\ Tracks(svp[x], Holding(svp[x].tag))
      /\ svp[x].instance \in 0..(InstanceMod - 1)
  BY QueueFacts, TracksAlt DEF TypeInv, TypeOK, SVPEntry
<1>p. /\ vpQueue_Head \in Pointer(VPQsize) /\ vpQueue_Tail \in Pointer(VPQsize)
      /\ Ordered(vpQueue_Head, vpQueue_Tail)
  BY <1>0
<1>b. \A tag : Holding(tag) \in 0..VPQsize
  BY <1>0, MatchingType DEF Instances
<1>a. ASSUME UNCHANGED <<svp, vpQueueTable, vpQueue_Head, vpQueue_Tail>> PROVE Goal
  BY <1>0, <1>a
<1>1. ASSUME NEW bundle \in Bundles, Rename1(bundle) PROVE Goal
  BY <1>a, <1>1 DEF Rename1, vpqVars
<1>2. CASE Rename2
  BY <1>a, <1>2 DEF Rename2, vpqVars
<1>3. CASE RenameBranch
  BY <1>a, <1>3 DEF RenameBranch, vpqVars
<1>4. CASE RenameEligible
  <2> DEFINE pc == Head(RENAME2).pc
             tag == extractTag(pc)
             index == extractPCIndex(pc)
             entry == [tag |-> tag, pcIndex |-> index, value |-> 0]
             e == CountInstance(svp[index], tag)
  <2>1. /\ svp' = [svp EXCEPT ![index] = e]
        /\ vpQueueTable' = [vpQueueTable EXCEPT ![vpQueue_Tail.idx] = entry]
        /\ vpQueue_Tail' = Advance(vpQueue_Tail, VPQsize)
        /\ vpQueue_Head' = vpQueue_Head
    BY <1>4 DEF RenameEligible
  <2>2. Head(RENAME2) \in Instruction
    BY <1>4, HeadTailProperties DEF RenameEligible, TypeInv, TypeOK, RenamingHasBundle
  <2>3. tag \in Tag /\ index \in Index
    BY <2>2, InstructionType, ExtractType
  <2>4. entry \in VPQEntry /\ entry.tag = tag /\ entry.pcIndex = index
    BY <2>3, StrideVPAssumption DEF VPQEntry, Value
  <2>5. Distance(vpQueue_Head, vpQueue_Tail, VPQsize) < VPQsize
    BY <1>4, RoomForHead DEF RenameEligible
  <2>6. svp'[x] = IF x = index THEN e ELSE svp[x]
    BY <1>0, <2>1, <2>3
  <2>7. /\ e.tag = svp[index].tag
        /\ svp[index].tag = tag => e.instance = WrapAdd(svp[index].instance, 1, InstanceMod)
        /\ svp[index].tag # tag => e.instance = svp[index].instance
    BY <1>0, <2>3 DEF CountInstance, SVPEntry
  <2> HIDE DEF pc, tag, index, entry, e
  <2>8. /\ tag = svp[x].tag /\ index = x =>
             Instances(vpQueueTable', vpQueue_Head', vpQueue_Tail', svp[x].tag, x) =
               Holding(svp[x].tag) + 1
        /\ tag # svp[x].tag \/ index # x =>
             Instances(vpQueueTable', vpQueue_Head', vpQueue_Tail', svp[x].tag, x) =
               Holding(svp[x].tag)
    <3>1. /\ vpQueueTable'[vpQueue_Tail.idx] = entry
          /\ \A s \in 0..(VPQsize - 1) :
               s # vpQueue_Tail.idx => vpQueueTable'[s] = vpQueueTable[s]
      BY <1>0, <2>1 DEF Pointer
    <3>2. /\ vpQueueTable'[vpQueue_Tail.idx].tag = tag
          /\ vpQueueTable'[vpQueue_Tail.idx].pcIndex = index
      BY <2>4, <3>1
    <3>3. ASSUME tag = svp[x].tag, index = x
          PROVE  Instances(vpQueueTable', vpQueue_Head, Advance(vpQueue_Tail, VPQsize),
                           svp[x].tag, x) = Holding(svp[x].tag) + 1
      BY <1>p, <2>5, <3>1, <3>2, <3>3, InstancesPush
    <3>4. ASSUME tag # svp[x].tag \/ index # x
          PROVE  Instances(vpQueueTable', vpQueue_Head, Advance(vpQueue_Tail, VPQsize),
                           svp[x].tag, x) = Holding(svp[x].tag)
      BY <1>p, <2>5, <3>1, <3>2, <3>4, InstancesPush
    <3> QED BY <2>1, <3>3, <3>4
  <2>9. svp'[x].tag = svp[x].tag
    BY <2>6, <2>7
  <2>10. CASE x = index /\ svp[x].tag = tag
    <3>1. svp'[x].instance = WrapAdd(svp[x].instance, 1, InstanceMod)
      BY <2>6, <2>7, <2>10
    <3>2. svp[x].instance \in {Holding(svp[x].tag), Holding(svp[x].tag) + 1}
      BY <1>0 DEF Tracks
    <3>3. svp'[x].instance = svp[x].instance + 1
      BY <1>0, <1>b, <3>1, <3>2, StrideVPAssumption DEF WrapAdd
    <3>4. Instances(vpQueueTable', vpQueue_Head', vpQueue_Tail', svp'[x].tag, x) =
            Holding(svp[x].tag) + 1
      BY <2>8, <2>9, <2>10
    <3> HIDE DEF Holding
    <3> QED BY <1>b, <3>2, <3>3, <3>4, StrideVPAssumption DEF Tracks
  <2>11. CASE ~(x = index /\ svp[x].tag = tag)
    <3>1. svp'[x].instance = svp[x].instance
      BY <2>6, <2>7, <2>11
    <3>2. Instances(vpQueueTable', vpQueue_Head', vpQueue_Tail', svp'[x].tag, x) =
            Holding(svp[x].tag)
      BY <2>8, <2>9, <2>11
    <3> QED BY <1>0, <3>1, <3>2 DEF Tracks
  <2> QED BY <2>10, <2>11
<1>5. ASSUME NEW i \in 1..Len(inflight), NEW value \in Value, SetValue(i, value) PROVE Goal
  <2>1. /\ vpQueueTable' = [vpQueueTable EXCEPT ![inflight[i].VPQTail].value = value]
        /\ UNCHANGED <<svp, vpQueue_Head, vpQueue_Tail>>
    BY <1>5 DEF SetValue
  <2>2. inflight[i].VPQTail \in 0..(VPQsize - 1)
    BY QueueFacts DEF Payload
  <2>3. \A s \in 0..(VPQsize - 1) : /\ vpQueueTable'[s].tag = vpQueueTable[s].tag
                                    /\ vpQueueTable'[s].pcIndex = vpQueueTable[s].pcIndex
    BY <1>0, <2>1, <2>2 DEF VPQEntry
  <2>4. Slots(vpQueue_Head, vpQueue_Tail, VPQsize) \subseteq 0..(VPQsize - 1)
    BY <1>0, SlotsType, StrideVPAssumption
  <2>5. Matching(vpQueueTable', vpQueue_Head, vpQueue_Tail, svp[x].tag, x) =
          Matching(vpQueueTable, vpQueue_Head, vpQueue_Tail, svp[x].tag, x)
    BY <2>3, <2>4 DEF Matching
  <2> QED BY <1>0, <2>1, <2>5 DEF Instances
<1>6. ASSUME NEW i \in 1..Len(inflight), ResolveCorrect(i) PROVE Goal
  BY <1>a, <1>6 DEF ResolveCorrect, vpqVars
<1>7. ASSUME NEW i \in 1..Len(inflight), Mispredict(i) PROVE Goal
  <2> DEFINE c == Checkpointed(inflight[i])
             squashed == Instances(vpQueueTable, c, vpQueue_Tail, svp[x].tag, x)
             kept == Instances(vpQueueTable, vpQueue_Head, c, svp[x].tag, x)
  <2>1. /\ vpQueueTable' = vpQueueTable /\ vpQueue_Head' = vpQueue_Head /\ vpQueue_Tail' = c
        /\ svp' = WalkDecreament(c) /\ inflight[i].kind = "branch"
    BY <1>7 DEF Mispredict
  <2>2. inflight[i] \in Payload /\ c \in Pointer(VPQsize)
    BY QueueFacts, CheckpointedType
  <2>3. /\ Ordered(vpQueue_Head, c)
        /\ Distance(vpQueue_Head, c, VPQsize) + TakesOf(inflight[i]) <=
             Distance(vpQueue_Head, vpQueue_Tail, VPQsize)
    BY <2>1 DEF OrderInv, InOrder, PositionOf
  <2>4. Distance(vpQueue_Head, c, VPQsize) <= Distance(vpQueue_Head, vpQueue_Tail, VPQsize)
    BY <1>0, <2>1, <2>2, <2>3, DistanceType, StrideVPAssumption DEF TakesOf
  <2>5. /\ squashed \in 0..VPQsize /\ kept \in 0..VPQsize
        /\ squashed \in Nat /\ kept \in Nat
    BY <1>0, <2>2, MatchingType, StrideVPAssumption DEF Instances
  <2>6. Holding(svp[x].tag) = kept + squashed
    BY <1>0, <2>2, <2>3, <2>4, InstancesSplit
  <2>7. /\ svp'[x].tag = svp[x].tag
        /\ svp'[x].instance = WrapSub(svp[x].instance, squashed, InstanceMod)
    BY <1>0, <2>1 DEF WalkDecreament, Instances, SVPEntry
  <2>8. svp[x].instance \in {kept + squashed, kept + squashed + 1}
    BY <1>0, <2>6 DEF Tracks
  <2>9. Instances(vpQueueTable', vpQueue_Head', vpQueue_Tail', svp'[x].tag, x) = kept
    BY <2>1, <2>7
  <2> HIDE DEF c, squashed, kept
  <2>10. svp'[x].instance \in {kept, kept + 1}
    BY <1>0, <2>5, <2>7, <2>8, StrideVPAssumption DEF WrapSub
  <2> QED BY <2>9, <2>10 DEF Tracks
<1>8. CASE RetireBranch
  BY <1>a, <1>8 DEF RetireBranch, vpqVars
<1>9. CASE RetireEligible
  <2> DEFINE pc == Head(inflight).pc
             tag == extractTag(pc)
             index == extractPCIndex(pc)
             value == vpQueueTable[vpQueue_Head.idx].value
             count == speculateInstance(tag, index)
             e == Trained(svp[index], tag, value, count)
             cleared == [tag |-> 0, pcIndex |-> 0, value |-> 0]
  <2>1. /\ inflight # <<>> /\ inflight[1].kind = "value" /\ Head(inflight) = inflight[1]
        /\ vpQueueTable' = [vpQueueTable EXCEPT ![vpQueue_Head.idx] = cleared]
        /\ vpQueue_Head' = Advance(vpQueue_Head, VPQsize)
        /\ vpQueue_Tail' = vpQueue_Tail
        /\ svp' = [svp EXCEPT ![index] = e]
    BY <1>9 DEF RetireEligible, popFromVPQ, Train
  <2>2. 1 \in 1..Len(inflight) /\ inflight[1] \in Payload
    BY <2>1, QueueFacts, EmptySeq
  <2>3. /\ vpQueueTable[vpQueue_Head.idx].tag = tag
        /\ vpQueueTable[vpQueue_Head.idx].pcIndex = index
    BY <2>1, <2>2, HeadEntryOwned DEF VPQEntryBelongsToOwner
  <2>4. Distance(vpQueue_Head, vpQueue_Tail, VPQsize) > 0
    BY <2>1, HeadEntryOwned
  <2>5. tag \in Tag /\ index \in Index
    BY <2>1, <2>2, ExtractType DEF Payload
  <2>6. svp[index] \in SVPEntry /\ svp'[x] = IF x = index THEN e ELSE svp[x]
    BY <1>0, <2>1, <2>5
  <2>7. count = Instances(vpQueueTable, vpQueue_Head, vpQueue_Tail, tag, index)
    BY DEF speculateInstance, Instances
  <2> HIDE DEF pc, tag, index, value, count, e, cleared
  <2>8. \A y :
          /\ tag = y /\ index = x =>
               Instances(vpQueueTable', vpQueue_Head', vpQueue_Tail', y, x) = Holding(y) - 1
          /\ tag # y \/ index # x =>
               Instances(vpQueueTable', vpQueue_Head', vpQueue_Tail', y, x) = Holding(y)
    <3>1. \A s \in 0..(VPQsize - 1) :
            s # vpQueue_Head.idx => vpQueueTable'[s] = vpQueueTable[s]
      BY <1>0, <2>1
    <3>2. ASSUME NEW y
          PROVE  /\ /\ vpQueueTable[vpQueue_Head.idx].tag = y
                    /\ vpQueueTable[vpQueue_Head.idx].pcIndex = x
                    => Instances(vpQueueTable', Advance(vpQueue_Head, VPQsize), vpQueue_Tail, y, x)
                         = Holding(y) - 1
                 /\ \/ vpQueueTable[vpQueue_Head.idx].tag # y
                    \/ vpQueueTable[vpQueue_Head.idx].pcIndex # x
                    => Instances(vpQueueTable', Advance(vpQueue_Head, VPQsize), vpQueue_Tail, y, x)
                         = Holding(y)
      BY <1>p, <2>4, <3>1, InstancesPop
    <3> QED BY <2>1, <2>3, <3>2
  <2>9. CASE x = index
    <3>1. count = Holding(tag)
      BY <2>7, <2>9
    <3>2. Instances(vpQueueTable', vpQueue_Head', vpQueue_Tail', tag, x) = count - 1
      BY <2>8, <2>9, <3>1
    <3>3. Instances(vpQueueTable', vpQueue_Head', vpQueue_Tail', tag, x) \in Nat
      <4>1. vpQueue_Tail' \in Pointer(VPQsize)
        BY <1>0, <2>1
      <4> QED BY <1>0, <4>1, MatchingType, StrideVPAssumption DEF Instances
    <3>4. count \in 1..VPQsize
      BY <1>b, <3>1, <3>2, <3>3, StrideVPAssumption
    <3>5. svp[x].tag = tag => Tracks(svp[x], count)
      BY <1>0, <3>1
    <3>6. \/ e.tag = tag /\ Tracks(e, count - 1)
          \/ svp[x].tag # tag /\ e = svp[x]
      BY <1>0, <2>5, <2>9, <3>4, <3>5, TrainedTracks DEF e
    <3>7. svp'[x] = e
      BY <2>6, <2>9
    <3>8. CASE e.tag = tag /\ Tracks(e, count - 1)
      BY <3>2, <3>7, <3>8
    <3>9. CASE svp[x].tag # tag /\ e = svp[x]
      <4>1. Instances(vpQueueTable', vpQueue_Head', vpQueue_Tail', svp[x].tag, x) =
              Holding(svp[x].tag)
        BY <2>8, <3>9
      <4> QED BY <1>0, <3>7, <3>9, <4>1
    <3> QED BY <3>6, <3>8, <3>9
  <2>10. CASE x # index
    <3>1. Instances(vpQueueTable', vpQueue_Head', vpQueue_Tail', svp[x].tag, x) =
            Holding(svp[x].tag)
      BY <2>8, <2>10
    <3>2. svp'[x] = svp[x]
      BY <2>6, <2>10
    <3> QED BY <1>0, <3>1, <3>2
  <2> QED BY <2>9, <2>10
<1>c. ASSUME NEW table, svp' = NoInstances(table), vpQueue_Tail' = vpQueue_Head',
             table \in [Index -> SVPEntry]
      PROVE  Goal
  <2>1. svp'[x].instance = 0
    BY <1>c DEF NoInstances, SVPEntry
  <2>2. Instances(vpQueueTable', vpQueue_Head', vpQueue_Tail', svp'[x].tag, x) = 0
    BY <1>0, <1>c, InstancesEmpty
  <2> QED BY <2>1, <2>2 DEF Tracks
<1>10. CASE RetireMispredicted
  <2>1. Head(inflight).pc \in Nat
    BY <1>10, HeadTailProperties, QueueFacts DEF RetireMispredicted, Payload
  <2>2. Train(Head(inflight).pc) \in [Index -> SVPEntry]
    BY <2>1, TrainType DEF TypeInv
  <2> QED BY <1>c, <1>10, <2>2 DEF RetireMispredicted
<1>11. CASE SquashComplete
  <2>1. vpQueue_Tail' = vpQueue_Head' /\ svp' = NoInstances(svp)
    BY <1>11 DEF SquashComplete
  <2> QED BY <1>0, <1>c, <2>1
<1>12. CASE UNCHANGED vars
  BY <1>a, <1>12 DEF vars
<1> QED
  BY <1>1, <1>2, <1>3, <1>4, <1>5, <1>6, <1>7, <1>8, <1>9, <1>10, <1>11, <1>12 DEF Next

\* An instance counter is the number of VPQ entries of its tag and index, or one more, through
\* every rollback, squash, replacement and retirement: so it never wraps below zero.
THEOREM InstanceTracking == Spec => []InstanceTracksVPQ
<1> QED BY TypeInit, TypeNext, OrderInit, OrderNext, OwnerInit, OwnerNext,
           InstanceInit, InstanceNext, PTL DEF Spec

-----------------------------------------------------------------------------
(* The confidence counters saturate *)

\* For a decrement of at most 1 a confidence counter never exceeds confMax.
LEMMA ConfBound ==
  ASSUME confDec <= 1, NEW c \in 0..confMax
  PROVE  increamentConf(c) \in 0..confMax /\ decreamentConf(c) \in 0..confMax
BY StrideVPAssumption DEF increamentConf, decreamentConf, WrapSub

\* Training keeps the bound.
LEMMA TrainConf ==
  ASSUME confDec <= 1, TypeOK, ConfidenceSaturates, NEW pc \in Nat, NEW x \in Index
  PROVE  Train(pc)[x].conf <= confMax
<1> DEFINE tag == extractTag(pc)
           index == extractPCIndex(pc)
           value == vpQueueTable[vpQueue_Head.idx].value
           count == speculateInstance(tag, index)
<1>1. index \in Index
  BY ExtractType
<1>2. svp \in [Index -> SVPEntry] /\ svp[index] \in SVPEntry
  BY <1>1 DEF TypeOK
<1>3. svp[index].conf \in 0..confMax
  BY <1>1, <1>2, StrideVPAssumption DEF ConfidenceSaturates, SVPEntry
<1> HIDE DEF tag, index, value, count
<1>4. Trained(svp[index], tag, value, count).conf \in 0..confMax
  BY <1>2, <1>3, ConfBound, StrideVPAssumption DEF Trained, SVPEntry
<1>5. Train(pc) = [svp EXCEPT ![index] = Trained(svp[index], tag, value, count)]
  BY DEF Train, tag, index, value, count
<1>6. CASE x = index
  BY <1>1, <1>2, <1>4, <1>5, <1>6, StrideVPAssumption
<1>7. CASE x # index
  BY <1>1, <1>2, <1>5, <1>7 DEF ConfidenceSaturates
<1> QED BY <1>6, <1>7

\* With a decrement of at most 1 no confidence counter exceeds confMax (svpEntry.cc:41 and the
\* usage text of main.cc:183).  The assumption is needed: the run stridevp_confDec2 violates
\* the invariant with a decrement of 2.
THEOREM Saturation ==
  ASSUME confDec <= 1
  PROVE  Spec => []ConfidenceSaturates
<1>1. Init => ConfidenceSaturates
  BY StrideVPAssumption DEF Init, ConfidenceSaturates
<1>2. TypeInv /\ ConfidenceSaturates /\ [Next]_vars => ConfidenceSaturates'
  <2> SUFFICES ASSUME TypeInv, ConfidenceSaturates, [Next]_vars, NEW x \in Index
               PROVE  svp'[x].conf <= confMax
    BY DEF ConfidenceSaturates
  <2>0. svp \in [Index -> SVPEntry] /\ svp[x].conf <= confMax
    BY DEF TypeInv, TypeOK, ConfidenceSaturates
  <2>1. CASE svp' = svp
    BY <2>0, <2>1
  <2>2. CASE RenameEligible
    <3>1. PICK index, tag : svp' = [svp EXCEPT ![index] = CountInstance(svp[index], tag)]
      BY <2>2 DEF RenameEligible
    <3>2. CountInstance(svp[x], tag).conf = svp[x].conf
      BY <2>0 DEF CountInstance, SVPEntry
    <3> QED BY <2>0, <3>1, <3>2
  <2>3. ASSUME NEW i \in 1..Len(inflight), Mispredict(i) PROVE svp'[x].conf <= confMax
    BY <2>0, <2>3 DEF Mispredict, WalkDecreament, SVPEntry
  <2>4. ASSUME inflight # <<>>
        PROVE  /\ Train(Head(inflight).pc) \in [Index -> SVPEntry]
               /\ Train(Head(inflight).pc)[x].conf <= confMax
    <3>1. Head(inflight).pc \in Nat
      <4>1. Head(inflight) \in Payload
        BY <2>4, HeadTailProperties DEF TypeInv, TypeOK
      <4> QED BY <4>1 DEF Payload
    <3> QED BY <3>1, TrainType, TrainConf DEF TypeInv
  <2>5. CASE RetireEligible
    BY <2>4, <2>5 DEF RetireEligible
  <2>6. CASE RetireMispredicted
    BY <2>4, <2>6 DEF RetireMispredicted, NoInstances, SVPEntry
  <2>7. CASE SquashComplete
    BY <2>0, <2>7 DEF SquashComplete, NoInstances, SVPEntry
  <2> QED
    BY <2>1, <2>2, <2>3, <2>5, <2>6, <2>7
    DEF Next, vars, Rename1, Rename2, RenameBranch, SetValue, ResolveCorrect, RetireBranch
<1> QED BY <1>1, <1>2, TypeInit, TypeNext, PTL DEF Spec
=============================================================================
