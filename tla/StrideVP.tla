------------------------------ MODULE StrideVP ------------------------------
(***************************************************************************)
(* The stride value predictor (SVP), its value prediction queue (VPQ) and  *)
(* the pipeline stages that drive them: rename2 allocates a VPQ entry for  *)
(* every VP-eligible instruction and checkpoints the VPQ tail at every     *)
(* branch, execution writes computed values into VPQ entries out of order, *)
(* a mispredicted branch rolls the tail back, retirement trains the SVP    *)
(* from the VPQ head, and a complete squash empties the queue.             *)
(*                                                                         *)
(* The configuration is VPQ_full_policy = 0, where a bundle that the VPQ   *)
(* cannot hold stalls.  RenameBundle.tla models the other policy.          *)
(*                                                                         *)
(* One call of a stage's handler for one instruction is one step, and the  *)
(* steps interleave freely: latencies, misses and the order of the         *)
(* execution lanes decide the order in the simulator.                      *)
(***************************************************************************)
EXTENDS PhaseQueue, Sequences, FiniteSets

CONSTANTS
  PCs,             \* instruction numbers (address >> 2) of VP-eligible instructions
  VPQsize,         \* entries of the VPQ
  dispatch_width,  \* longest rename bundle
  ActiveListSize,  \* most instructions between rename2 and retirement
  SVPEntries,      \* 2^SVPIndexBits
  SVPTags,         \* 2^SVPTagBits; 1 is a predictor without tags
  confMax, confInc, confDec, replace_stride, Replace,
  oracleConf,      \* oracle confidence mode: no value misprediction is ever flagged
  ValueMod,        \* 2^64 in the code: computed values, retVal and stride
  ConfMod,         \* 2^64 in the code: the confidence counter
  InstanceMod      \* 2^64 in the code: the instance counter

ASSUME StrideVPAssumption ==
  /\ PCs \subseteq Nat
  /\ VPQsize \in Nat \ {0}
  /\ dispatch_width \in Nat \ {0}
  /\ ActiveListSize \in Nat \ {0}
  /\ SVPEntries \in Nat \ {0}
  /\ SVPTags \in Nat \ {0}
  /\ ConfMod \in Nat \ {0}
  /\ confMax \in 0..(ConfMod - 1)
  /\ confInc \in Nat
  /\ confDec \in 0..(ConfMod - 1)
  /\ replace_stride \in Nat
  /\ Replace \in Nat
  /\ oracleConf \in BOOLEAN
  /\ ValueMod \in Nat \ {0}
  /\ InstanceMod \in Nat
  /\ InstanceMod > VPQsize + 2

VARIABLES
  svp,           \* the predictor table, one entry per index
  vpQueueTable,  \* the VPQ's entries
  vpQueue_Head,  \* pointer to the oldest VPQ entry
  vpQueue_Tail,  \* pointer to the next VPQ entry to allocate
  RENAME2,       \* what is left of the current rename bundle
  renaming,      \* rename2 is in the middle of its loop over the bundle
  inflight       \* renamed, unretired eligible instructions and branches, oldest first

vpqVars == <<vpQueueTable, vpQueue_Head, vpQueue_Tail>>
vars == <<svp, vpQueueTable, vpQueue_Head, vpQueue_Tail, RENAME2, renaming, inflight>>

-----------------------------------------------------------------------------
(* Types *)

Value == 0..(ValueMod - 1)
Tag   == 0..(SVPTags - 1)
Index == 0..(SVPEntries - 1)

\* Instructions as rename2 sees them.  A branch has no pc here; instructions with neither a
\* VPQ entry nor a checkpoint leave this state alone and are left out.
Instruction == [kind : {"value"}, pc : PCs] \cup [kind : {"branch"}, pc : {0}]

SVPEntry == [tag : Tag, conf : 0..(ConfMod - 1), retVal : Value,
             stride : Value, instance : 0..(InstanceMod - 1)]

VPQEntry == [tag : Tag, pcIndex : Index, value : Value]

\* The payload of an instruction between rename2 and retirement.  done: its value is
\* computed, or it is resolved.
Payload == [kind : {"value", "branch"}, pc : Nat,
            VPQTail : 0..(VPQsize - 1), VPQTailPhase : {0, 1},
            predictedValue : Value, isConfident : BOOLEAN,
            done : BOOLEAN, value : Value, val_misp : BOOLEAN]

TypeOK ==
  /\ svp \in [Index -> SVPEntry]
  /\ vpQueueTable \in [0..(VPQsize - 1) -> VPQEntry]
  /\ vpQueue_Head \in Pointer(VPQsize)
  /\ vpQueue_Tail \in Pointer(VPQsize)
  /\ RENAME2 \in Seq(Instruction)
  /\ Len(RENAME2) <= dispatch_width
  /\ renaming \in BOOLEAN
  /\ inflight \in Seq(Payload)
  /\ Len(inflight) + (IF renaming THEN Len(RENAME2) ELSE 0) <= ActiveListSize

-----------------------------------------------------------------------------
(* The predictor's arithmetic *)

extractPCIndex(pc) == pc % SVPEntries

extractTag(pc) == (pc \div SVPEntries) % SVPTags

\* Unsigned addition and subtraction, for operands below mod.
WrapAdd(a, b, mod) == IF a + b < mod THEN a + b ELSE a + b - mod
WrapSub(a, b, mod) == IF a >= b THEN a - b ELSE a - b + mod

\* Mutant of increamentConf: no saturation.
increamentConfUnbounded(c) == IF c > confMax THEN c ELSE c + confInc

increamentConf(c) ==
  IF c > confMax THEN c ELSE IF c + confInc > confMax THEN confMax ELSE c + confInc

decreamentConf(c) == IF confDec = 0 \/ c = 0 THEN 0 ELSE WrapSub(c, confDec, ConfMod)

\* The entry for a tag as retirement of a value leaves it: trained on a hit, replaced on a
\* miss if its confidence is low enough.  count is the walk of the VPQ from head to tail.
Trained(e, tag, value, count) ==
  LET newStride == WrapSub(value, e.retVal, ValueMod)
      same      == newStride = e.stride
  IN  IF e.tag = tag
      THEN [e EXCEPT
             !.conf     = IF same THEN increamentConf(@) ELSE decreamentConf(@),
             !.stride   = IF ~same /\ e.conf <= replace_stride THEN newStride ELSE @,
             !.retVal   = value,
             !.instance = WrapSub(@, 1, InstanceMod)]
      ELSE IF e.conf <= Replace
      THEN [tag |-> tag, conf |-> 0, retVal |-> value, stride |-> value, instance |-> count]
      ELSE e

\* The prediction an entry makes, its instance counter already counting the instruction.
Prediction(e) == (e.retVal + e.instance * e.stride) % ValueMod

\* VPQ entries of a tag and index among the slots from one pointer to another.
Matching(table, h, t, tag, index) ==
  {s \in Slots(h, t, VPQsize) : table[s].tag = tag /\ table[s].pcIndex = index}

speculateInstance(tag, index) ==
  Cardinality(Matching(vpQueueTable, vpQueue_Head, vpQueue_Tail, tag, index))

\* Every entry with its instance counter less the entries of the VPQ from a pointer to the tail.
WalkDecreament(from) ==
  [i \in Index |->
    [svp[i] EXCEPT !.instance =
       WrapSub(@, Cardinality(Matching(vpQueueTable, from, vpQueue_Tail, svp[i].tag, i)),
               InstanceMod)]]

\* Mutant of NoInstances: the complete squash forgets flushSVPInstance.
KeepsInstances(table) == table

NoInstances(table) == [i \in Index |-> [table[i] EXCEPT !.instance = 0]]

-----------------------------------------------------------------------------
(* Rename *)

Init ==
  /\ svp = [i \in Index |-> [tag |-> 0, conf |-> 0, retVal |-> 0, stride |-> 0, instance |-> 0]]
  /\ vpQueueTable = [s \in 0..(VPQsize - 1) |-> [tag |-> 0, pcIndex |-> 0, value |-> 0]]
  /\ vpQueue_Head = Origin
  /\ vpQueue_Tail = Origin
  /\ RENAME2 = <<>>
  /\ renaming = FALSE
  /\ inflight = <<>>

\* rename1: the next bundle arrives from the fetch queue once the previous one has left.
Rename1(bundle) ==
  /\ RENAME2 = <<>>
  /\ RENAME2' = bundle
  /\ UNCHANGED <<svp, vpqVars, renaming, inflight>>

EligibleCount(bundle) == Cardinality({i \in 1..Len(bundle) : bundle[i].kind = "value"})

\* Mutant of stall_value: one entry short is let through.
stall_valueLate(count) == Available(vpQueue_Head, vpQueue_Tail, VPQsize) + 1 < count

stall_value(count) == Available(vpQueue_Head, vpQueue_Tail, VPQsize) < count

\* rename2 starts on a bundle: the VPQ must have an entry for each of its eligible
\* instructions.  The bound on inflight stands for the free list, the checkpoints, the
\* DISPATCH register and the active list, each of which also holds a bundle back.
Rename2 ==
  /\ ~renaming
  /\ RENAME2 # <<>>
  /\ Len(inflight) + Len(RENAME2) <= ActiveListSize
  /\ ~stall_value(EligibleCount(RENAME2))
  /\ renaming' = TRUE
  /\ UNCHANGED <<svp, vpqVars, RENAME2, inflight>>

NextOfBundle ==
  /\ RENAME2' = Tail(RENAME2)
  /\ renaming' = (Len(RENAME2) > 1)

\* One iteration of rename2's loop, for a branch: checkpoint the VPQ tail.
RenameBranch ==
  /\ renaming
  /\ Head(RENAME2).kind = "branch"
  /\ NextOfBundle
  /\ inflight' = Append(inflight,
       [kind |-> "branch", pc |-> 0,
        VPQTail |-> vpQueue_Tail.idx, VPQTailPhase |-> vpQueue_Tail.phase,
        predictedValue |-> 0, isConfident |-> FALSE,
        done |-> FALSE, value |-> 0, val_misp |-> FALSE])
  /\ UNCHANGED <<svp, vpqVars>>

\* The entry after handleSVPEntry: a tag match counts one more instance in flight.
CountInstance(e, tag) ==
  IF e.tag = tag THEN [e EXCEPT !.instance = WrapAdd(@, 1, InstanceMod)] ELSE e

\* One iteration of rename2's loop, for an eligible instruction: count the instance, push a
\* VPQ entry, and on a hit predict its value.
RenameEligible ==
  /\ renaming
  /\ Head(RENAME2).kind = "value"
  /\ LET pc    == Head(RENAME2).pc
         tag   == extractTag(pc)
         index == extractPCIndex(pc)
         e     == CountInstance(svp[index], tag)
         hit   == e.tag = tag
     IN  /\ svp' = [svp EXCEPT ![index] = e]
         /\ vpQueueTable' = [vpQueueTable EXCEPT ![vpQueue_Tail.idx] =
                               [tag |-> tag, pcIndex |-> index, value |-> 0]]
         /\ vpQueue_Tail' = Advance(vpQueue_Tail, VPQsize)
         /\ inflight' = Append(inflight,
              [kind |-> "value", pc |-> pc,
               VPQTail |-> vpQueue_Tail.idx, VPQTailPhase |-> 0,
               predictedValue |-> IF hit THEN Prediction(e) ELSE 0,
               isConfident |-> hit /\ e.conf = confMax,
               done |-> FALSE, value |-> 0, val_misp |-> FALSE])
  /\ NextOfBundle
  /\ UNCHANGED vpQueue_Head

-----------------------------------------------------------------------------
(* Execute and writeback *)

\* An eligible instruction's value is computed: it goes into the VPQ entry the instruction
\* recorded, and a confident prediction that differs from it is a value misprediction.
SetValue(i, value) ==
  /\ ~renaming
  /\ inflight[i].kind = "value"
  /\ ~inflight[i].done
  /\ vpQueueTable' = [vpQueueTable EXCEPT ![inflight[i].VPQTail].value = value]
  /\ inflight' = [inflight EXCEPT ![i].done = TRUE, ![i].value = value,
                    ![i].val_misp = ~oracleConf /\ inflight[i].isConfident
                                    /\ value # inflight[i].predictedValue]
  /\ UNCHANGED <<svp, vpQueue_Head, vpQueue_Tail, RENAME2, renaming>>

ResolveCorrect(i) ==
  /\ ~renaming
  /\ inflight[i].kind = "branch"
  /\ ~inflight[i].done
  /\ inflight' = [inflight EXCEPT ![i].done = TRUE]
  /\ UNCHANGED <<svp, vpqVars, RENAME2, renaming>>

\* Mutant of Checkpointed: the index is restored and the phase is not.
CheckpointedIndexOnly(b) == [idx |-> b.VPQTail, phase |-> vpQueue_Tail.phase]

\* The tail pointer a branch checkpointed.
Checkpointed(b) == [idx |-> b.VPQTail, phase |-> b.VPQTailPhase]

\* A mispredicted branch squashes everything younger, and the VPQ rolls back to the tail it
\* checkpointed, taking the squashed instances off the instance counters.
Mispredict(i) ==
  /\ ~renaming
  /\ inflight[i].kind = "branch"
  /\ ~inflight[i].done
  /\ svp' = WalkDecreament(Checkpointed(inflight[i]))
  /\ vpQueue_Tail' = Checkpointed(inflight[i])
  /\ inflight' = [SubSeq(inflight, 1, i) EXCEPT ![i].done = TRUE]
  /\ RENAME2' = <<>>
  /\ UNCHANGED <<vpQueueTable, vpQueue_Head, renaming>>

-----------------------------------------------------------------------------
(* Retire *)

\* train(): update the SVP from the VPQ entry at the head, then pop it.
Train(pc) ==
  LET tag   == extractTag(pc)
      index == extractPCIndex(pc)
  IN  [svp EXCEPT ![index] =
         Trained(@, tag, vpQueueTable[vpQueue_Head.idx].value, speculateInstance(tag, index))]

\* Mutant of popFromVPQ: the entry is cleared and the head stays.
popKeepsHead ==
  /\ vpQueueTable' = [vpQueueTable EXCEPT ![vpQueue_Head.idx] =
                        [tag |-> 0, pcIndex |-> 0, value |-> 0]]
  /\ vpQueue_Head' = vpQueue_Head

popFromVPQ ==
  /\ vpQueueTable' = [vpQueueTable EXCEPT ![vpQueue_Head.idx] =
                        [tag |-> 0, pcIndex |-> 0, value |-> 0]]
  /\ vpQueue_Head' = Advance(vpQueue_Head, VPQsize)

RetireBranch ==
  /\ ~renaming
  /\ inflight # <<>>
  /\ Head(inflight).kind = "branch"
  /\ Head(inflight).done
  /\ inflight' = Tail(inflight)
  /\ UNCHANGED <<svp, vpqVars, RENAME2, renaming>>

\* The head commits and trains.
RetireEligible ==
  /\ ~renaming
  /\ inflight # <<>>
  /\ Head(inflight).kind = "value"
  /\ Head(inflight).done
  /\ ~Head(inflight).val_misp
  /\ svp' = Train(Head(inflight).pc)
  /\ popFromVPQ
  /\ inflight' = Tail(inflight)
  /\ UNCHANGED <<vpQueue_Tail, RENAME2, renaming>>

\* The head commits and trains, and as its value was mispredicted everything after it is squashed.
RetireMispredicted ==
  /\ ~renaming
  /\ inflight # <<>>
  /\ Head(inflight).kind = "value"
  /\ Head(inflight).done
  /\ Head(inflight).val_misp
  /\ svp' = NoInstances(Train(Head(inflight).pc))
  /\ popFromVPQ
  /\ vpQueue_Tail' = vpQueue_Head'
  /\ inflight' = <<>>
  /\ RENAME2' = <<>>
  /\ UNCHANGED renaming

\* An exception or a load violation at the head of the active list (an instruction of any
\* kind) squashes the pipeline, the offending instruction included, without training.
SquashComplete ==
  /\ ~renaming
  /\ svp' = NoInstances(svp)
  /\ vpQueue_Tail' = vpQueue_Head
  /\ inflight' = <<>>
  /\ RENAME2' = <<>>
  /\ UNCHANGED <<vpQueueTable, vpQueue_Head, renaming>>

-----------------------------------------------------------------------------

\* The bundles rename1 may take from the fetch queue.
Bundles == UNION {[1..n -> Instruction] : n \in 1..dispatch_width}

Next ==
  \/ \E bundle \in Bundles : Rename1(bundle)
  \/ Rename2
  \/ RenameBranch
  \/ RenameEligible
  \/ \E i \in 1..Len(inflight) : \E value \in Value : SetValue(i, value)
  \/ \E i \in 1..Len(inflight) : ResolveCorrect(i)
  \/ \E i \in 1..Len(inflight) : Mispredict(i)
  \/ RetireBranch
  \/ RetireEligible
  \/ RetireMispredicted
  \/ SquashComplete

Spec == Init /\ [][Next]_vars

-----------------------------------------------------------------------------
(* Properties *)

\* How far a VPQ slot is from the head.
SlotOffset(s) ==
  IF s >= vpQueue_Head.idx THEN s - vpQueue_Head.idx ELSE s - vpQueue_Head.idx + VPQsize

\* How far the VPQ position an in-flight instruction recorded is from the head.
Position(i) ==
  IF inflight[i].kind = "branch"
  THEN Distance(vpQueue_Head, Checkpointed(inflight[i]), VPQsize)
  ELSE SlotOffset(inflight[i].VPQTail)

\* The VPQ entries an in-flight instruction takes.
Takes(i) == IF inflight[i].kind = "value" THEN 1 ELSE 0

\* The VPQ is exactly the in-flight eligible instructions in program order: each recorded
\* position is the number of eligible instructions ahead of it, and the tail comes right
\* after the youngest.  So the instruction that retires owns the entry at the head (the
\* assertion of retire.cc:91), the tail a branch checkpointed is still where its successors
\* begin when it is resolved, and neither pointer overtakes the other.
VPQInProgramOrder ==
  /\ Ordered(vpQueue_Head, vpQueue_Tail)
  /\ \A i \in 1..Len(inflight) :
       inflight[i].kind = "branch" => Ordered(vpQueue_Head, Checkpointed(inflight[i]))
  /\ inflight # <<>> => Position(1) = 0
  /\ \A i \in 1..(Len(inflight) - 1) : Position(i + 1) = Position(i) + Takes(i)
  /\ Distance(vpQueue_Head, vpQueue_Tail, VPQsize) =
       IF inflight = <<>> THEN 0 ELSE Position(Len(inflight)) + Takes(Len(inflight))

\* The VPQ entry an eligible instruction recorded stays its own until it retires, through
\* rollbacks and reallocations: it holds the instruction's tag and index (the assertion of
\* setVPQValue, vpQueue.cc:175) and, once computed, the value it trains the predictor with.
VPQEntryBelongsToOwner ==
  \A i \in 1..Len(inflight) :
    LET w == inflight[i]
    IN  w.kind = "value" =>
          /\ vpQueueTable[w.VPQTail].tag = extractTag(w.pc)
          /\ vpQueueTable[w.VPQTail].pcIndex = extractPCIndex(w.pc)
          /\ w.done => vpQueueTable[w.VPQTail].value = w.value

\* An instance counter is the number of VPQ entries of its tag, or one more after a
\* replacement, whose walk counts the retiring entry as well: so the unsigned counter never
\* goes below zero (what svpEntry.cc:34 asserts in vain) and never drifts further.
InstanceTracksVPQ ==
  \A index \in Index :
    LET n == speculateInstance(svp[index].tag, index)
    IN  svp[index].instance \in {n, n + 1}

\* A confidence counter stays within 0..confMax: increments saturate at confMax and
\* decrements at 0 (svpEntry.cc:41,50 and the usage text of main.cc:183-184).
ConfidenceSaturates == \A index \in Index : svp[index].conf <= confMax

-----------------------------------------------------------------------------
(* The value queue that the VPQ implements *)

\* The slot k entries from the head.
SlotAt(k) ==
  IF vpQueue_Head.idx + k < VPQsize THEN vpQueue_Head.idx + k ELSE vpQueue_Head.idx + k - VPQsize

\* The instruction that owns a slot has computed its value.
Computed(s) ==
  \E i \in 1..Len(inflight) :
    inflight[i].kind = "value" /\ inflight[i].VPQTail = s /\ inflight[i].done

\* No value: ValueMod is the least number that is not one.
NotComputed == ValueMod

\* The VPQ from head to tail.
Queue ==
  [k \in 1..Distance(vpQueue_Head, vpQueue_Tail, VPQsize) |->
     LET s == SlotAt(k - 1)
     IN  [tag |-> vpQueueTable[s].tag, index |-> vpQueueTable[s].pcIndex,
          value |-> IF Computed(s) THEN vpQueueTable[s].value ELSE NotComputed]]

\* What an entry knows: everything but the instances in flight.
Known(e) == [tag |-> e.tag, conf |-> e.conf, retVal |-> e.retVal, stride |-> e.stride]

Predictor == [index \in Index |-> Known(svp[index])]

KnownBlank == [tag |-> 0, conf |-> 0, retVal |-> 0, stride |-> 0]

KnownAfter(k, tag, value) ==
  Known(Trained([tag |-> k.tag, conf |-> k.conf, retVal |-> k.retVal, stride |-> k.stride,
                 instance |-> 0], tag, value, 0))

VQ == INSTANCE ValueQueue WITH
        Capacity <- VPQsize, Unknown <- NotComputed, Blank <- KnownBlank, Learn <- KnownAfter,
        queue <- Queue, predictor <- Predictor

\* Through wrap-arounds, rollbacks and squashes the VPQ is a first-in first-out queue: values
\* land in the entries of their instructions, and what the predictor knows changes only when
\* the oldest instruction retires, by the value that this instruction computed (retire.cc:91,
\* train() in valuePredictor.cc); predicting and squashing change instance counters alone.
ImplementsValueQueue == VQ!Spec

-----------------------------------------------------------------------------
(* Liveness *)

\* The stages run every cycle and the oldest instruction always completes in the end, so
\* each of these steps is taken once it stays possible.
HeadCompletes ==
  /\ inflight # <<>>
  /\ \/ \E value \in Value : SetValue(1, value)
     \/ ResolveCorrect(1)
     \/ Mispredict(1)

FairSpec ==
  /\ Spec
  /\ WF_vars(Rename2)
  /\ WF_vars(RenameBranch \/ RenameEligible)
  /\ WF_vars(HeadCompletes)
  /\ WF_vars(RetireBranch \/ RetireEligible \/ RetireMispredicted)

\* A bundle that stalls for VPQ entries (rename.cc:127) is renamed or squashed in the end:
\* retirement and rollback give back every entry they should.
BundleLeavesRename == (RENAME2 # <<>>) ~> (RENAME2 = <<>>)
=============================================================================
