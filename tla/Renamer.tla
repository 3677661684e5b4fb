------------------------------ MODULE Renamer ------------------------------
(***************************************************************************)
(* The register renamer (class renamer) as rename2, dispatch, writeback    *)
(* and retire use it: the rename and architectural map tables, the free    *)
(* list, the active list, the global branch mask (GBM) and the branch      *)
(* checkpoints, together with the fields of each in-flight instruction     *)
(* that the pipeline keeps for it in PAY and in its pipeline registers.    *)
(*                                                                         *)
(* rename2 checks its resources for a whole bundle and then renames one    *)
(* instruction per step; nothing else runs before the loop ends.  An       *)
(* instruction has at most one source register here, and completes at any  *)
(* time between its dispatch and its retirement.                           *)
(***************************************************************************)
EXTENDS PhaseQueue, Sequences, FiniteSets, SequencesExt

CONSTANTS
  logicalRegSize, PRFsize, noOfCheckpoint, activeListSize, dispatch_width,
  Program,   \* the instructions that arrive
  GBMBits,   \* bits of a uint64_t
  IntBits    \* bits of an int

ASSUME RenamerAssumption ==
  /\ logicalRegSize \in Nat \ {0}
  /\ PRFsize \in Nat
  /\ PRFsize > logicalRegSize
  /\ GBMBits \in Nat
  /\ noOfCheckpoint \in 1..GBMBits
  /\ IntBits \in 1..GBMBits
  /\ activeListSize \in Nat \ {0}
  /\ dispatch_width \in Nat \ {0}

LogReg  == 0..(logicalRegSize - 1)
PhysReg == 0..(PRFsize - 1)
freeListSize == PRFsize - logicalRegSize

NoReg == -1        \* an instruction without a destination register
NoCheckpoint == -1 \* the branch ID of an instruction without a checkpoint
NotDispatched == -1

VARIABLES
  RMT, AMT,
  freeListEntry, freeList_Head, freeList_Tail,
  activeList_Head, activeList_Tail,
  GBM,                     \* the positions of the 1 bits
  branchCheckpointTable,   \* the checkpoints in use: one that is free is written before it is read
  RENAME2,                 \* what rename2's loop has left to rename
  inflight                 \* renamed, unretired instructions, oldest first

freeListVars == <<freeListEntry, freeList_Head, freeList_Tail>>
activeListVars == <<activeList_Head, activeList_Tail>>
vars == <<RMT, AMT, freeListVars, activeListVars, GBM, branchCheckpointTable, RENAME2, inflight>>

Bit == 0..(GBMBits - 1)

\* checkpoint: a branch that takes a checkpoint, with (a call) or without a destination.
Instruction == [src : LogReg, dest : LogReg \cup {NoReg}, checkpoint : BOOLEAN]

ASSUME ProgramAssumption == Program \subseteq Instruction

\* An instruction's payload, its branch mask, and its active list entry.  branch_ID is of use
\* until the branch resolves.
Payload == [src : LogReg, srcPhys : PhysReg, dest : LogReg \cup {NoReg}, destPhys : PhysReg,
            branch_mask : SUBSET Bit, checkpoint : BOOLEAN,
            branch_ID : (0..(noOfCheckpoint - 1)) \cup {NoCheckpoint},
            AL_index : (0..(activeListSize - 1)) \cup {NotDispatched},
            resolved : BOOLEAN]

Checkpoint == [freeListHead : Pointer(freeListSize), gbm : SUBSET Bit,
               shadowMapTable : [LogReg -> PhysReg]]

TypeOK ==
  /\ RMT \in [LogReg -> PhysReg]
  /\ AMT \in [LogReg -> PhysReg]
  /\ freeListEntry \in [0..(freeListSize - 1) -> PhysReg]
  /\ freeList_Head \in Pointer(freeListSize)
  /\ freeList_Tail \in Pointer(freeListSize)
  /\ activeList_Head \in Pointer(activeListSize)
  /\ activeList_Tail \in Pointer(activeListSize)
  /\ GBM \in SUBSET Bit
  /\ DOMAIN branchCheckpointTable \subseteq GBM \cap 0..(noOfCheckpoint - 1)
  /\ \A b \in DOMAIN branchCheckpointTable : branchCheckpointTable[b] \in Checkpoint
  /\ RENAME2 \in Seq(Instruction)
  /\ inflight \in Seq(Payload)

Identity == [l \in LogReg |-> l]

NoCheckpoints == [b \in {} |-> 0]

Init ==
  /\ RMT = Identity
  /\ AMT = Identity
  /\ freeListEntry = [i \in 0..(freeListSize - 1) |-> i + logicalRegSize]
  /\ freeList_Head = Origin
  /\ freeList_Tail = [idx |-> 0, phase |-> 1]
  /\ activeList_Head = Origin
  /\ activeList_Tail = Origin
  /\ GBM = {}
  /\ branchCheckpointTable = NoCheckpoints
  /\ RENAME2 = <<>>
  /\ inflight = <<>>

-----------------------------------------------------------------------------
(* Rename *)

stall_reg(bundle_dst) == Distance(freeList_Head, freeList_Tail, freeListSize) < bundle_dst

FreeBits == (0..(noOfCheckpoint - 1)) \ GBM

stall_branch(bundle_branch) == Cardinality(FreeBits) < bundle_branch

\* The DISPATCH register: renamed, not yet in the active list.
Undispatched == {i \in 1..Len(inflight) : inflight[i].AL_index = NotDispatched}

\* rename2 starts on a bundle: enough free registers and checkpoints for all of it.
Rename2(bundle) ==
  /\ RENAME2 = <<>>
  /\ Undispatched = {}
  /\ ~stall_reg(Cardinality({i \in 1..Len(bundle) : bundle[i].dest # NoReg}))
  /\ ~stall_branch(Cardinality({i \in 1..Len(bundle) : bundle[i].checkpoint}))
  /\ RENAME2' = bundle
  /\ UNCHANGED <<RMT, AMT, freeListVars, activeListVars, GBM, branchCheckpointTable, inflight>>

\* 1 << b as the code computes it: an int, sign-extended to 64 bits when it is combined with
\* the GBM.  The shift count is taken modulo the width of an int, which is what the machine
\* makes of the larger counts that C++ leaves undefined.
OneShifted(b) ==
  IF b % IntBits = IntBits - 1 THEN (IntBits - 1)..(GBMBits - 1) ELSE {b % IntBits}

findFirstzeroBit ==
  IF FreeBits = {} THEN NoCheckpoint ELSE CHOOSE b \in FreeBits : \A c \in FreeBits : b <= c

\* One iteration of rename2's loop: the source, the destination, the branch mask, and for a
\* branch the checkpoint, which holds its own destination's new mapping.
RenameNext ==
  /\ RENAME2 # <<>>
  /\ LET instr == Head(RENAME2)
         dst   == instr.dest # NoReg
         phys  == freeListEntry[freeList_Head.idx]
         id    == IF instr.checkpoint THEN findFirstzeroBit ELSE NoCheckpoint
     IN  /\ RMT' = IF dst THEN [RMT EXCEPT ![instr.dest] = phys] ELSE RMT
         /\ freeList_Head' = IF dst THEN Advance(freeList_Head, freeListSize) ELSE freeList_Head
         /\ IF id = NoCheckpoint
            THEN UNCHANGED <<branchCheckpointTable, GBM>>
            ELSE /\ branchCheckpointTable' =
                      [b \in DOMAIN branchCheckpointTable \cup {id} |->
                        IF b = id
                        THEN [freeListHead |-> freeList_Head', gbm |-> GBM, shadowMapTable |-> RMT']
                        ELSE branchCheckpointTable[b]]
                 /\ GBM' = GBM \cup OneShifted(id)
         /\ inflight' = Append(inflight,
              [src |-> instr.src, srcPhys |-> RMT[instr.src],
               dest |-> instr.dest, destPhys |-> IF dst THEN phys ELSE 0,
               branch_mask |-> GBM, checkpoint |-> instr.checkpoint, branch_ID |-> id,
               AL_index |-> NotDispatched, resolved |-> FALSE])
  /\ RENAME2' = Tail(RENAME2)
  /\ UNCHANGED <<AMT, freeListEntry, freeList_Tail, activeListVars>>

-----------------------------------------------------------------------------
(* Dispatch *)

stall_dispatch(bundle_inst) ==
  activeListSize - Distance(activeList_Head, activeList_Tail, activeListSize) < bundle_inst

\* The tail of the active list n instructions further on.  It wraps around at the size of the
\* free list.
advanceActiveListTail(n) == AdvanceBy(activeList_Tail, n, freeListSize)

\* The renamed bundle enters the active list.
Dispatch ==
  /\ RENAME2 = <<>>
  /\ Undispatched # {}
  /\ ~stall_dispatch(Cardinality(Undispatched))
  /\ LET first == Len(inflight) - Cardinality(Undispatched) + 1
     IN  inflight' = [i \in DOMAIN inflight |->
           IF i < first THEN inflight[i]
           ELSE [inflight[i] EXCEPT !.AL_index = advanceActiveListTail(i - first).idx]]
  /\ activeList_Tail' = advanceActiveListTail(Cardinality(Undispatched))
  /\ UNCHANGED <<RMT, AMT, freeListVars, activeList_Head, GBM, branchCheckpointTable, RENAME2>>

-----------------------------------------------------------------------------
(* Writeback: branches resolve, in any order *)

Resolvable(i) ==
  /\ RENAME2 = <<>>
  /\ inflight[i].AL_index # NotDispatched
  /\ inflight[i].checkpoint
  /\ ~inflight[i].resolved
  /\ inflight[i].branch_ID \in GBM

\* Mutant of ClearedCheckpoints: the checkpointed GBMs keep the bit.
UnclearedCheckpoints(mask) == Restrict(branchCheckpointTable, DOMAIN branchCheckpointTable \ mask)

\* The checkpoints once the bits of mask are free.
ClearedCheckpoints(mask) ==
  [b \in DOMAIN branchCheckpointTable \ mask |->
    [branchCheckpointTable[b] EXCEPT !.gbm = @ \ mask]]

\* The branch was predicted correctly: its bit goes out of the GBM, of the checkpointed GBMs
\* and of the branch masks in the pipeline.
ResolveCorrect(i) ==
  /\ Resolvable(i)
  /\ LET mask == OneShifted(inflight[i].branch_ID)
     IN  /\ GBM' = GBM \ mask
         /\ branchCheckpointTable' = ClearedCheckpoints(mask)
  /\ inflight' = [j \in DOMAIN inflight |->
                   [inflight[j] EXCEPT !.branch_mask = @ \ {inflight[i].branch_ID},
                                       !.resolved = @ \/ j = i]]
  /\ UNCHANGED <<RMT, AMT, freeListVars, activeListVars, RENAME2>>

\* Mutant of TailBehind: the phase test misses a tail that has come round to the head.
TailBehindStrict(AL_index) ==
  LET idx == IF AL_index # activeListSize - 1 THEN AL_index + 1 ELSE 0
  IN  [idx |-> idx, phase |-> IF idx < activeList_Head.idx THEN 1 - activeList_Head.phase
                              ELSE activeList_Head.phase]

\* The active list's tail behind an entry, with the phase the code infers from the head.
TailBehind(AL_index) ==
  LET idx == IF AL_index # activeListSize - 1 THEN AL_index + 1 ELSE 0
  IN  [idx |-> idx, phase |-> IF idx <= activeList_Head.idx THEN 1 - activeList_Head.phase
                              ELSE activeList_Head.phase]

\* The instructions the pipeline keeps, in their order: those in the active list whose mask lacks
\* the branch.
Survivors(branch_ID) ==
  LET kept   == {j \in 1..Len(inflight) :
                   inflight[j].AL_index # NotDispatched /\ branch_ID \notin inflight[j].branch_mask}
      nth(k) == CHOOSE j \in kept : Cardinality({i \in kept : i < j}) = k - 1
  IN  [k \in 1..Cardinality(kept) |-> inflight[nth(k)]]

\* The branch was mispredicted: GBM, map, free list and active list roll back, and the
\* instructions that depend on it leave the pipeline.
Mispredict(i) ==
  /\ Resolvable(i)
  /\ LET b == inflight[i].branch_ID
     IN  /\ GBM' = branchCheckpointTable[b].gbm \ OneShifted(b)
         /\ RMT' = branchCheckpointTable[b].shadowMapTable
         /\ freeList_Head' = branchCheckpointTable[b].freeListHead
         /\ branchCheckpointTable' =
              Restrict(branchCheckpointTable, DOMAIN branchCheckpointTable \cap GBM')
         /\ activeList_Tail' = TailBehind(inflight[i].AL_index)
         /\ inflight' = [Survivors(b) EXCEPT ![i].resolved = TRUE]
  /\ UNCHANGED <<AMT, freeListEntry, freeList_Tail, activeList_Head, RENAME2>>

-----------------------------------------------------------------------------
(* Retire *)

\* precommit: the instruction whose entry is at the head of the active list has completed.
AtHead(i) ==
  /\ RENAME2 = <<>>
  /\ ~IsEmpty(activeList_Head, activeList_Tail)
  /\ inflight[i].AL_index = activeList_Head.idx
  /\ inflight[i].checkpoint => inflight[i].resolved

\* Mutant of CommitRegisters: the register that is freed is the new one.
CommitFreesDest(w) ==
  /\ IF w.dest = NoReg
     THEN UNCHANGED <<AMT, freeListEntry, freeList_Tail>>
     ELSE /\ freeListEntry' = [freeListEntry EXCEPT ![freeList_Tail.idx] = w.destPhys]
          /\ freeList_Tail' = Advance(freeList_Tail, freeListSize)
          /\ AMT' = [AMT EXCEPT ![w.dest] = w.destPhys]
  /\ activeList_Head' = Advance(activeList_Head, activeListSize)

\* commit: the destination's previous architectural register goes to the free list's tail.
CommitRegisters(w) ==
  /\ IF w.dest = NoReg
     THEN UNCHANGED <<AMT, freeListEntry, freeList_Tail>>
     ELSE /\ freeListEntry' = [freeListEntry EXCEPT ![freeList_Tail.idx] = AMT[w.dest]]
          /\ freeList_Tail' = Advance(freeList_Tail, freeListSize)
          /\ AMT' = [AMT EXCEPT ![w.dest] = w.destPhys]
  /\ activeList_Head' = Advance(activeList_Head, activeListSize)

Commit(i) ==
  /\ AtHead(i)
  /\ CommitRegisters(inflight[i])
  /\ inflight' = RemoveAt(inflight, i)
  /\ UNCHANGED <<RMT, freeList_Head, activeList_Tail, GBM, branchCheckpointTable, RENAME2>>

\* Mutant of SquashRenamer: the rename map is not restored.
SquashKeepsRMT ==
  /\ activeList_Tail' = activeList_Head'
  /\ freeList_Head' = [idx |-> freeList_Tail'.idx, phase |-> 1 - freeList_Tail'.phase]
  /\ RMT' = RMT
  /\ GBM' = {}
  /\ branchCheckpointTable' = NoCheckpoints
  /\ inflight' = <<>>

\* squash, on the head, tail and map the commit before it may just have changed.
SquashRenamer ==
  /\ activeList_Tail' = activeList_Head'
  /\ freeList_Head' = [idx |-> freeList_Tail'.idx, phase |-> 1 - freeList_Tail'.phase]
  /\ RMT' = AMT'
  /\ GBM' = {}
  /\ branchCheckpointTable' = NoCheckpoints
  /\ inflight' = <<>>

\* The head's value was mispredicted: it commits and everything younger is squashed.
CommitMispredicted(i) ==
  /\ AtHead(i)
  /\ ~inflight[i].checkpoint
  /\ inflight[i].dest # NoReg
  /\ CommitRegisters(inflight[i])
  /\ SquashRenamer
  /\ UNCHANGED RENAME2

\* The head is a load violation or an exception: it is squashed with everything younger.
SquashHead(i) ==
  /\ AtHead(i)
  /\ UNCHANGED <<AMT, freeListEntry, freeList_Tail, activeList_Head, RENAME2>>
  /\ SquashRenamer

Bundles == UNION {[1..n -> Program] : n \in 1..dispatch_width}

Next ==
  \/ \E bundle \in Bundles : Rename2(bundle)
  \/ RenameNext
  \/ Dispatch
  \/ \E i \in 1..Len(inflight) :
       \/ ResolveCorrect(i)
       \/ Mispredict(i)
       \/ Commit(i)
       \/ CommitMispredicted(i)
       \/ SquashHead(i)

Spec == Init /\ [][Next]_vars

-----------------------------------------------------------------------------
(* Properties *)

FreeRegisters == {freeListEntry[s] : s \in Slots(freeList_Head, freeList_Tail, freeListSize)}

WithDest == {i \in 1..Len(inflight) : inflight[i].dest # NoReg}

InflightRegisters == {inflight[i].destPhys : i \in WithDest}

ArchitecturalRegisters == {AMT[l] : l \in LogReg}

\* No physical register is lost or held twice: the free list, the architectural map and the
\* destinations of the instructions in flight hold every one of them exactly once, through
\* rollbacks and squashes that restore only the free list's head.
RegistersPartitioned ==
  /\ FreeRegisters \cup InflightRegisters \cup ArchitecturalRegisters = PhysReg
  /\ Distance(freeList_Head, freeList_Tail, freeListSize) + Cardinality(WithDest)
       + logicalRegSize = PRFsize

\* The map after the first n in-flight instructions in program order.
MapAfter(n) ==
  [l \in LogReg |->
    LET writers == {i \in 1..n : inflight[i].dest = l}
    IN  IF writers = {} THEN AMT[l]
        ELSE inflight[CHOOSE i \in writers : \A j \in writers : j <= i].destPhys]

\* Every map is the one program order calls for: the rename map that of all the instructions
\* in flight, the shadow map an unresolved branch would restore that of the instructions up
\* to the branch, and every source operand that of the instructions before it - so the
\* register an instruction has yet to read is never one that has been freed.
MapsFollowProgramOrder ==
  /\ RMT = MapAfter(Len(inflight))
  /\ \A i \in 1..Len(inflight) :
       /\ inflight[i].checkpoint /\ ~inflight[i].resolved =>
            branchCheckpointTable[inflight[i].branch_ID].shadowMapTable = MapAfter(i)
       /\ inflight[i].srcPhys = MapAfter(i - 1)[inflight[i].src]

Unresolved(n) == {i \in 1..n : inflight[i].checkpoint /\ ~inflight[i].resolved}

BranchIDs(n) == {inflight[i].branch_ID : i \in Unresolved(n)}

\* The branches a mask names; the sign extension also sets bits that no branch has for an ID.
Named(mask) == mask \cap 0..(noOfCheckpoint - 1)

\* A branch mask names exactly the older unresolved branches, no two of which share an ID, and
\* so do the checkpointed masks: a misprediction squashes the younger instructions and no other.
MasksNameOlderBranches ==
  /\ Cardinality(BranchIDs(Len(inflight))) = Cardinality(Unresolved(Len(inflight)))
  /\ Named(GBM) = BranchIDs(Len(inflight))
  /\ \A i \in 1..Len(inflight) :
       /\ Named(inflight[i].branch_mask) = BranchIDs(i - 1)
       /\ i \in Unresolved(i) =>
            Named(branchCheckpointTable[inflight[i].branch_ID].gbm) = BranchIDs(i - 1)

\* The active list is the dispatched instructions in program order, at consecutive entries
\* from its head to its tail: the entry precommit reads is the oldest instruction's.
ActiveListInProgramOrder ==
  LET n == Len(inflight) - Cardinality(Undispatched)
  IN  /\ Ordered(activeList_Head, activeList_Tail)
      /\ Distance(activeList_Head, activeList_Tail, activeListSize) = n
      /\ \A i \in 1..n :
           inflight[i].AL_index = (activeList_Head.idx + i - 1) % activeListSize

\* "a free bit exists": the branch rename2 takes a checkpoint for finds one, since the caller
\* has called stall_branch() for its bundle (renamer.h:301-303).
CheckpointFound ==
  \A i \in 1..Len(inflight) : inflight[i].checkpoint => inflight[i].branch_ID # NoCheckpoint
=============================================================================
