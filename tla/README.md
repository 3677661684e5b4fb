# Stride value predictor: verification project

TLA+ models of the 721sim out-of-order superscalar simulator in `src/721sim/uarchsim`, with the
stride value predictor (SVP) and value prediction queue (VPQ) that this repository adds to it. TLC
checks them on small instances, and TLAPS proves, for every size of the structures, the safety
invariants of the value predictor, the renamer, the renaming of bundles, the out-of-order core, the
load and store queues and the front end, and that the value predictor implements an abstract value
queue. Every invariant a passing run checks is a theorem. Source paths below are relative to
`src/721sim/uarchsim/`.

## 1. The system

721sim is a single-threaded, cycle-level model of a RISC-V core. `step_micro` (pipeline.cc:599-653)
calls the stages once per cycle from the back of the pipeline to the front: retire, writeback, load
replay, execute, register read, schedule, dispatch, rename2, rename1, decode, fetch. Nothing runs in
parallel on the host, but the modelled machine is concurrent: an instruction's stages are spread
over many cycles, latencies and cache misses reorder execution, branches resolve in any order, and a
squash can remove anything that is younger than some instruction. The simulator has no unit tests;
its documentation is the course hand-out `proj4-vp-v1.pdf`, the interface comments of `renamer.h`,
the usage text of `main.cc` and the assertions in the code.

| Component | State | Operations | Where the difficulty is |
|---|---|---|---|
| VPQ, `vpQueue.cc` | circular buffer of (tag, index, value), head and tail with phase bits | push at rename2, set value at execute, pop at retire, roll back the tail, squash | values arrive out of order through an index recorded cycles before; wrap-around; rollback to a stale pointer |
| SVP, `valuePredictor.cc`, `svpEntry.cc` | table of (tag, confidence, last value, stride, instances in flight) | count an instance, predict, train, replace, repair by walking the VPQ | counters must follow a queue from which entries disappear at three places; unsigned arithmetic |
| rename stage, `rename.cc` | RENAME2 register: valid bits and PAY indexes | rename1 takes a bundle from the fetch queue; rename2 checks resources for the whole bundle, then renames one instruction after the other | check and use are apart; a bundle may be short, the slots behind it stale |
| renamer, `renamer.cc` | rename map (RMT), architectural map (AMT), free list, active list, branch mask (GBM), checkpoints, register file | rename, checkpoint, dispatch, resolve, commit, squash | out-of-order resolution; rollback by pointers only; widths of shifts |
| dispatch, `dispatch.cc` | DISPATCH register | allocates active list, issue queue and load/store queue entries, injects predicted values | stalls on any of four structures |
| issue queue, `issue_queue.cc` | entries with ready bits and branch masks, free list | dispatch, wakeup, select, remove, squash, flush | a wakeup between renaming and dispatch |
| execute, lanes, `execute.cc`, `alu.cc`, `register_read.cc`, `schedule.cc` | lane registers | compute, compare with the prediction | any order, any latency |
| load/store unit, `lsu.cc` | load and store queues with phase bits | dispatch, addresses, forwarding, violations, commit, restore | memory disambiguation and its recovery |
| writeback, `writeback.cc`, `squash.cc` | - | completes instructions, resolves branches, starts recovery | restores five structures to the same instruction |
| retire, `retire.cc` | - | commit, train, exceptions, load violations, value mispredictions | commits and squashes in one step |
| payload buffer PAY, `payload.cc` | circular buffer of per-instruction records | push, pop, rollback, clear | indexes are reused |
| fetch unit, fetch queue, branch queue, RAS, `fetchunit.cc`, `fetch_queue.cc`, `bq.cc`, `ras.cc` | PCs, FETCH2, branch queue, speculative history | fetch, misfetch recovery, mispredict, commit, flush | two kinds of rollback of one queue |
| predictors and caches | tables and timing | lookup, update | none for correctness: they decide what is fetched and how long it takes |
| checker, debug buffer, stats, checkpoint files, decode | - | - | observers, input and output, pure functions |
| `riscv-base` | - | - | vendored functional simulator |

Interactions that matter for correctness:

* rename2 writes the VPQ, the SVP and the renamer and records in PAY what it handed out (`VPQTail`,
  `VPQTailPhase`, `branch_ID`, physical registers);
* execute writes VPQ entries through the recorded index;
* writeback restores renamer, VPQ and front end from what a branch recorded (writeback.cc:127);
* retire pops the VPQ head and asserts that it is the retiring instruction's (retire.cc:91), trains
  the SVP from it, and after a value misprediction, load violation or exception calls
  `squash_complete` (squash.cc:74), which empties the pipeline and resets the SVP's counters.

What makes each part correct: the VPQ is the in-flight eligible instructions in program order; an
entry stays its owner's until it retires; instance counters count the VPQ; no register is lost or
held twice; every map is the one program order gives; a branch mask names the older unresolved
branches and nothing else; the active list is in program order; and a bundle that stalls leaves in
the end. Every place where the code could break one of these is a hazard in `PROJECT.json`.

## 2. Modules

| Module | Models | Kind |
|---|---|---|
| `PhaseQueue` | pointers with phase bits (vpQueue.cc, free list, active list) | operators |
| `ValueQueue` | what the VPQ and its training promise: a first-in first-out queue the predictor learns from | abstract specification |
| `StrideVP` | SVP + VPQ with rename2, execute, writeback, retire and squash as they drive them; `VPQ_full_policy` 0 | specification, fair specification, refinement mapping, properties |
| `RenameBundle` | how a bundle gets its VPQ entries under either policy, with PAY indexes and stale RENAME2 slots | specification, properties |
| `Renamer` | class `renamer` with rename2, dispatch, writeback and retire around it | specification, properties |
| `Scheduler` | issue queue, lanes, ready bits and register contents, injected predictions, stalled loads, cycle by cycle | specification, properties |
| `LoadStoreUnit` | load and store queues with disambiguation, forwarding, violations, replay, restore, commit | specification, properties |
| `FetchUnit` | fetch1 to rename1: fetch unit, branch queue, speculative history, PAY, fetch queue, with retirement and recovery | specification, fair specification, properties |
| `MCRenamer`, `MCScheduler`, `MCLoadStoreUnit` | the programs, lanes and memory accesses of the runs | instances |
| `PhaseQueue_proof` | lemmas about phase-bit queues | proofs |
| `StrideVP_proof` | the invariants of `StrideVP` | proofs |
| `StrideVP_refinement` | `StrideVP` implements `ValueQueue` | proofs |
| `RenameBundle_proof` | the invariants of `RenameBundle` | proofs |
| `Renamer_proof` | the invariants of `Renamer` | proofs |
| `LoadStoreUnit_proof` | the invariants of `LoadStoreUnit` | proofs |
| `Scheduler_proof` | the invariants of `Scheduler` | proofs |
| `FetchUnit_proof` | the invariants of `FetchUnit` | proofs |

The modules meet where the code's structures do. `Renamer` shows that a branch mask names exactly
the older unresolved branches, and `Scheduler` squashes by program order on the strength of it.
`Renamer` shows that free registers are those nobody names, and `Scheduler` allocates any such
register. `FetchUnit` shows that PAY gives every instruction in flight an index of its own, which
`RenameBundle` takes from a circular buffer of its own and the other modules take for granted by
keeping an instruction's record with the instruction.

### StrideVP

A step is one call of a stage's handler for one instruction, and handlers of different stages
interleave freely; the simulator's fixed stage order and its latencies pick some of these orders.
The exception is rename2: its loop over a bundle is one call, so between `Rename2` (the stall check)
and the last iteration (`RenameBranch`, `RenameEligible`) the flag `renaming` keeps every other
stage out.

| Action | Code |
|---|---|
| `Rename1` | rename.cc, rename1: a bundle arrives |
| `Rename2`, `stall_value` | rename.cc:57-127 and vpQueue.cc: the eligible instructions are counted and compared with the free entries |
| `RenameEligible` | rename.cc, the loop's value prediction part; `valuePredictor::handleSVPEntry`, push into the VPQ, prediction |
| `RenameBranch` | rename.cc, the checkpoint of the VPQ tail |
| `SetValue` | execute.cc:88 and the misprediction flag |
| `ResolveCorrect`, `Mispredict` | writeback.cc:100-150; `WalkDecreament` is the walk of valuePredictor.cc:199 |
| `RetireBranch`, `RetireEligible`, `RetireMispredicted` | retire.cc with `train` and `popFromVPQ` |
| `SquashComplete` | squash.cc:74 from an exception or a load violation |

Abstractions. Instructions that neither own a VPQ entry nor checkpoint its tail do not appear. Free
list, checkpoints, DISPATCH and active list appear as one bound, `ActiveListSize`, on the
instructions in flight: each of them holds back a bundle and none of them changes VPQ or SVP. A
computed value is any value: data flow is left out. Counters and values keep a width, with
`ConfMod`, `InstanceMod` and `ValueMod` for the code's 2^64. The counters are unsigned as in
`svpEntry.h`.

### ValueQueue and the refinement

`ValueQueue` has a sequence of (tag, index, value) and what the predictor knows at every index.
Instructions are pushed at the end, values are filled in anywhere and once, the predictor learns
from the head alone and the head leaves with that, and a squash removes a suffix and teaches
nothing. `StrideVP` implements it (`ImplementsValueQueue`): the queue is the slots from head to
tail, a slot's value is unknown until its instruction has computed it, and what is known at an index
is the SVP entry without its instance counter, for prediction and repair change only that counter.
So wrap-around, phase bits, recorded indexes and checkpointed tails are invisible from outside. A
squash at retirement is two calls in the code, popping and `squash_complete`, and one step here
(`PopAll`), as in `RetireMispredicted`.

### RenameBundle

Under `VPQ_full_policy` 1 rename2 does not stall: it clears `isVPEligible` of the instructions that
find the VPQ full, in a loop over all `dispatch_width` slots of RENAME2 (rename.cc:133). The loop
does not look at the valid bits. The module therefore keeps the PAY index of every slot, valid or
not, and `isVPEligible` per PAY index; both start with arbitrary contents, because the code
allocates them without initial values. A short bundle arises only behind a serializing instruction,
when the fetch unit is idle: the variable `fetch` keeps that condition. `PAYLOAD_BUFFER_SIZE` is
counted in instructions and assumed to hold everything in flight.

### Renamer

`RenameNext` is one iteration of rename2's loop (source, destination, branch mask, checkpoint);
`Dispatch` is `dispatch_inst` for a bundle; `ResolveCorrect` and `Mispredict` are `renamer::resolve`
with the pipeline's own clearing of branch masks or squashing by them (squash.cc `resolve`);
`Commit`, `CommitMispredicted` and `SquashHead` are `commit` and `squash` as retire calls them. The
GBM is the set of positions of its 1 bits. `OneShifted` is `1 << branchID` as the code computes it,
an `int` that is sign-extended to the 64 bits of the GBM; the widths are `IntBits` and `GBMBits`. A
checkpoint exists only while its bit is set: one that is free is always written before it is read.
Register values and ready bits are in `Scheduler`.

### Scheduler

The one module in which the order of the stages within a cycle is part of the state: `stage` runs
through retire, the lanes' writeback, load replay, execute, register read, schedule and dispatch, as
`step_micro` does. A lane wakes up consumers one stage before it writes their source, and whether
that is right depends on this order. A stage that finds nothing to do changes nothing and is passed
over.

| Action | Code |
|---|---|
| `Retire`, `RetireMispredicted` | retire.cc: commit, and the complete squash behind a value misprediction |
| `SquashComplete` | retire.cc: an exception or a load violation at the head, which is squashed uncommitted |
| `Squashed` | squash.cc, `squash_complete` |
| `Writeback`, `WritebackMispredict` | writeback.cc for one lane; `issue_queue::squash`, and the clearing of lanes in squash.cc |
| `Replay`, `ReplayNothing` | execute.cc, `load_replay` |
| `Execute` | execute.cc, all lanes: the last stage executes, the last but one wakes up, the lane moves on |
| `RegisterRead` | register_read.cc, with the early wakeup of single-cycle lanes |
| `Schedule` | `issue_queue::select_and_issue`: `Scan` is its order, by partition or by age, `Select` one step; `removeEach` takes what was issued off the lists |
| `Dispatch` | dispatch.cc for one instruction: ready bits looked up, destination cleared, prediction injected, slot allocated |

Abstractions. Values are reduced to "right", "wrong" and "stale" (not written since allocation),
which is what a property can tell apart; two wrong values may or may not be equal, which decides
whether a misprediction is noticed. A value computed from right sources is right. Registers are
taken from those nobody names, and a freed one counts as ready and stale, the worst it can be for
its next owner. Bundles are dispatched one instruction at a time in the cycle's last stage. Steering
is a choice among `FULanes`. A load stalls at execution or not, and gets its value in any later
cycle. A load violation or an exception is something the oldest instruction may have when it
retires. A squash shortens `inflight`, and with it go the stalled loads: that `lsu::restore` drops
the same ones, so that the replay engine answers no squashed load, is `QueuesHoldSurvivors` of
`LoadStoreUnit`.

### LoadStoreUnit

| Action | Code |
|---|---|
| `DispatchLoad`, `DispatchStore`, `DispatchBranch` | `lsu::dispatch`, `lsu::stall`; a branch records both tails (dispatch.cc) |
| `StoreAddr`, `StoreValue` | `lsu::store_addr`, `ld_violation`; `lsu::store_value` |
| `LoadAddr`, `LoadUnstall` | `lsu::load_addr`, `load_unstall`, `disambiguate`, `execute_load` |
| `ResolveCorrect`, `Restore` | writeback.cc; `lsu::restore` |
| `CommitLoad`, `CommitStore`, `RetireBranch` | `lsu::train`/`commit` as retire.cc calls them |
| `SquashComplete` | `lsu::flush` through squash.cc |

Abstractions. An address is chosen when its instruction executes, because on a wrong path it may be
anything. The address and the value of a store come in two steps, in either order, as the halves of
a split store do; for a store that is not split the second follows at once, one of these orders. A
store writes one value to all its bytes, so that a load of two bytes shows whether it was put
together from different stores. The memory dependence predictor answers freely, and a cache miss is
a choice. The contents of an entry that is not valid are cleared; the code leaves them and does not
read them. Load-reserved and store-conditional are not included.

### FetchUnit

| Action | Code |
|---|---|
| `Fetch1` | `fetchunit_t::fetch1`: PAY push, checkpoint, speculative history |
| `Misfetch`, `Fetch2Stall`, `Fetch2` | `fetch2`: predecode, the three ways a bundle can go; the branch queue is filled in the last |
| `Decode`, `Rename1`, `Rename2` | decode.cc, rename.cc and fetch_queue.cc: the waits for room and for full bundles |
| `ResolveCorrect`, `Mispredict` | writeback.cc; `fetchunit_t::mispredict`, `bq_t::rollback`, `payload::rollback` |
| `Retire`, `RetireSerial`, `SquashComplete` | retire.cc, squash.cc; `fetchunit_t::commit` and `flush`, `payload::pop` and `clear` |

`Decode` also splits stores (`SPLIT_STORES`, the option `--splitstores`), one or two entries of the
fetch queue for an instruction; the halves then rename and retire apart, and each passes one entry
of PAY. The run sets it: which plain instructions are stores is a choice, so that unsplit programs
are included.

Abstractions. What a bundle contains and what BTB and predictor say of it is any combination that
the BTB's rules for ending a bundle allow (`Bundles`). Only conditional branches are mispredicted;
jumps are plain instructions. The trace cache is off, its default. The history register has
`bhr_length` outcomes. A log entry that holds no branch in flight, because its branch was committed
or squashed long ago or because nothing was written to it yet, is taken for any history when it is
read, which only a flush does; that keeps the states few, and entries kept exactly lead to the same
finding. Two entries of PAY per instruction, as in the code. The assumption that PAY is
larger than twice `MaxInFlight` is strict where the code allows PAY to be exactly twice the pipeline's
capacity (if that is a power of two, payload.cc:94). But decode waits for room for twice its bundle
(decode.cc:20), so that unsplit instructions never fill the fetch queue; it is filled only with
halves of stores, two of which share one instruction's entries, and PAY is not full then either. With
a capacity that is a power of two `MaxInFlight` has to stay one below it, which leaves out just the
states where every entry is taken, some of them by halves. `base`, the history at the point of
retirement, is a history variable that no guard reads; a flush sets it to what the fetch unit takes
it to be, so that the finding about `flush` does not hide everything that comes after it.

## 3. Runs

| Run | Result | Shows |
|---|---|---|
| `stridevp` | holds, 2.1 million states | types; `VPQInProgramOrder`; `VPQEntryBelongsToOwner`; `InstanceTracksVPQ`; `ConfidenceSaturates` |
| `stridevp_live` | holds, 83 000 states | a bundle that waits for VPQ entries leaves rename2; `StrideVP` implements `ValueQueue` |
| `stridevp_confdec2` | violated | a confidence decrement of 2 wraps the counter |
| `rename_drop` | holds, 0.6 million states | with dropping and stale slots the VPQ never overflows and flagged instructions never share an entry |
| `rename_retire` | violated | with dropping and a short bundle the assertion of retire.cc:91 fails |
| `renamer` | holds, 0.9 million states | registers are partitioned; all maps follow program order; masks name the older branches; the active list is in order |
| `renamer_prf` | violated | a register file of its own size breaks the active list's tail |
| `renamer_checkpoints` | violated | more checkpoints than an `int` has bits leave a branch without one |
| `lsu` | holds, 1.1 million states | the queues hold what survives recovery; a load that may commit has program order's value |
| `scheduler` | holds, 1.5 million states | slots are shared out; no lost wakeup; no read before the write; only right values retire |
| `fetch` | holds, 0.6 million states | PAY, branch queue and history follow the instructions in flight through both kinds of rollback; serializing instructions are alone; a stopped fetch unit resumes |
| `fetch_flush` | violated | a flush with no branch in flight restores a stale history |

**Bounds.** `stridevp`: a VPQ of 2 entries wraps around after two allocations, so that every
combination of phases and full/empty occurs; 3 instructions in flight with bundles of 2 give a full
VPQ with a branch before, between or behind the eligible instructions, nested mispredictions and a
rollback across the wrap-around; two PCs that share an index and differ in their tag give
replacement; a confidence range of 0..1 and two values give hits, mispredictions and stride changes.
Beyond these sizes the theorems of section 5 take over. `rename_drop`: 2 slots, so that a bundle of
one leaves one stale slot; PAY holds 5 instructions, the least that is legal for 3 in flight and a
bundle of 2. `renamer`: 2 logical and 4 physical registers (2 free), 2 checkpoints, an active list
of 2, a GBM of 3 bits and an `int` of 2: the proportions of the default configuration, in which
checkpoint 31 is the sign bit of an `int` and the GBM has 64 bits, so that the sign extension
happens in the run. `renamer_prf` differs in the size of the active list alone;
`renamer_checkpoints` has 4 checkpoints for an `int` of 3 bits, the proportion of the `-L`
configuration (64 for 32). `stridevp_live` has one PC, two values, a VPQ of 2 and 3 instructions in
flight: enough for a stall with every kind of instruction at the head, and for the queue to wrap
around with values missing anywhere.

`lsu`: queues of two, 3 instructions in flight, so that either queue is full, wraps around, and is
restored with a store or load on each side of the branch; two bytes, accessed one by one or as a
half word, so that accesses overlap with equal and unequal sizes; one access that may fault. Values
are symmetric: nothing compares or computes with them. `scheduler`: one logical and three physical
registers, so that a register is allocated again while its last owner's consumers are about; two
issue queue entries; lanes of one and of two execute stages, for which wakeup takes different paths;
3 instructions in flight are a producer, its consumer and a branch before, between or behind them.
Selection by age (`IDEAL_AGE_BASED`) and with two partitions was checked with the same constants.
`fetch`: two instructions to a bundle and to a rename bundle, a fetch queue of 5 and an active list
of 2 (the least `FetchUnitAssumption` allows), 3 instructions in flight in a PAY of 8 entries and a
branch queue of 3, which therefore wrap around; a history of two outcomes, so that one that is lost
or brought back shifts another.

**Deadlock.** No run disables the deadlock check.

**Fairness of `StrideVP`** (`FairSpec`, for `stridevp_live`). The pipeline calls rename2 and retire
in every cycle, so a step of theirs that stays possible is taken: weak fairness of `Rename2`, of the
loop's iterations and of retirement. The oldest instruction depends on no other one, and the lanes,
caches and replays finish it within a bounded time: weak fairness of `HeadCompletes`. Nothing is
assumed of the fetch unit, of younger instructions or of squashes. The property also needs `VPQsize
>= dispatch_width`, which the run's constants satisfy and the code does not ask for.

**Fairness of `FetchUnit`** (`FairSpec`, for `fetch`). The pipeline calls every stage in every
cycle: weak fairness of `Fetch2`, `Decode`, `Rename1` and `Rename2`; and the oldest instruction
completes and retires, or is squashed if it raised an exception. Nothing is assumed of `Fetch1`, of
mispredictions or of any other squash. `FetchResumes` needs the fetch queue to take a doubled bundle
on top of an incomplete rename bundle (`fq_size >= 2 * instr_per_cycle + dispatch_width - 1`), for
decode asks for that much room (decode.cc:20) while rename1 waits for a full bundle. The defaults
satisfy it.

## 4. Findings

* **Confidence decrement** (svpEntry.cc:52). `conf - confDec` is unsigned and only tested for zero
  beforehand; the usage text (main.cc:184) promises saturation at 0. Unreachable for a decrement of
  0 (which resets) or 1: theorem `Saturation`.
* **Dropping loop** (rename.cc:133). It processes invalid RENAME2 slots, whose stale index may name
  an instruction in flight with a VPQ entry; that instruction then retires without popping it.
* **Active list tail** (renamer.cc:223). It wraps at the size of the free list. The two sizes agree
  unless `--prf` is given.
* **Checkpoints beyond 32** (renamer.cc:184). `1 << branchID` is an `int`.
* **Flush with no branch in flight** (fetchunit.cc:701). A complete flush gives the predictors the
  branch queue's head as "log entry corresponding to the commit point" (BPinterface.h:69). If no
  branch is in flight, which is always so when a serializing instruction retires, that entry is one
  of a branch long committed or was never written (gshare.cc:85), and gshare.cc:152 replaces the
  history by it. It costs predictions, not correctness.

## 5. Proofs

The proofs hold for every value of the constants that satisfies the modules' own assumptions:
positive sizes; for `StrideVP`, `confMax` and `confDec` below `ConfMod` and an instance counter wide
enough for the VPQ (`InstanceMod > VPQsize + 2`, true of 2^64); for `LoadStoreUnit`, that the mark
for "no value yet" is not a value; for `Scheduler`, that the partitions divide the
issue queue evenly (`part_next` is compared with the queue's size, issue_queue.cc:218) and that every
instruction is steered to at least one lane. Two groups of theorems have a hypothesis of their own,
and for each of them a run of section 3 shows that they fail without it: `Saturation`, and the
theorems about `Renamer`, which assume `SizesAgree`.

| Module | Theorem | States |
|---|---|---|
| `StrideVP_proof` | `TypeCorrect` | `Spec => []TypeOK` |
| | `ProgramOrder` | `Spec => []VPQInProgramOrder` |
| | `EntryOwnership` | `Spec => []VPQEntryBelongsToOwner` |
| | `InstanceTracking` | `Spec => []InstanceTracksVPQ` |
| | `Saturation` | `confDec <= 1` implies `Spec => []ConfidenceSaturates` |
| `StrideVP_refinement` | `Refinement` | `Spec => ImplementsValueQueue` |
| `RenameBundle_proof` | `TypeCorrect` | `Spec => []TypeOK` |
| | `NoOverflow` | `Spec => []EntryOfItsOwn` |
| `Renamer_proof` | `TypeCorrect` | `SizesAgree` implies `Spec => []TypeOK` |
| | `RegistersStayPartitioned` | `SizesAgree` implies `Spec => []RegistersPartitioned` |
| | `MapsStayInOrder` | `SizesAgree` implies `Spec => []MapsFollowProgramOrder` |
| | `MasksNameBranches` | `SizesAgree` implies `Spec => []MasksNameOlderBranches` |
| | `ActiveListInOrder` | `SizesAgree` implies `Spec => []ActiveListInProgramOrder` |
| `LoadStoreUnit_proof` | `TypeCorrect` | `Spec => []TypeOK` |
| | `QueuesInOrder` | `Spec => []QueuesHoldSurvivors` |
| | `LoadsReadRight` | `Spec => []UnflaggedLoadsAreRight` |
| `Scheduler_proof` | `TypeCorrect` | `Spec => []TypeOK` |
| | `SlotsStayShared` | `Spec => []SlotsSharedOut` |
| | `WaitsHaveProducers` | `Spec => []WaitsForAProducer` |
| | `ReadsAreFresh` | `Spec => []NoStaleRead` |
| | `RightValuesRetire` | `Spec => []OnlyRightValuesRetire` |
| `FetchUnit_proof` | `TypeCorrect` | `Spec => []TypeOK` |
| | `PayloadCorrect` | `Spec => []PayloadHoldsInFlight` |
| | `TagsCorrect` | `Spec => []TagsInProgramOrder` |
| | `HistoryCorrect` | `Spec => []HistoryFollowsPath` |
| | `SerializersCorrect` | `Spec => []SerializersAreAlone` |

### Phase-bit queues

`PhaseQueue_proof` turns the two-case arithmetic of phase bits into facts about distances and slots:
advancing the tail adds one slot, advancing the head removes one, a pointer in between splits the
slots in two. `AdvanceBy` is a recursive function; that it equals a closed form (`Onward`) is shown
with the least number at which the two would differ, since the library's induction theorems cannot
be instantiated.

### StrideVP

1. `TypeInv` is `TypeOK` and "rename2's loop has something left". Without the second conjunct the
   head of the bundle would have no type.
2. `OrderInv` is `InOrder` and `BundleFits`. `VPQInProgramOrder` speaks of neighbouring positions
   and is not inductive. A retirement moves the head under every recorded position, so that each of
   them must be known to be past the entry that is popped; a rollback needs the position of its
   branch not to be past the tail. `InOrder` adds both: positions increase along the whole sequence,
   and none is beyond the tail. `BundleFits` carries the result of the stall check through the loop:
   what is left of the bundle still fits, which is why a push never finds the VPQ full. Its lemma
   `EligibleTail` counts the eligible instructions of a bundle's tail by an injection. Each action
   is an application of `InOrderAppend`, `InOrderPrefix`, `InOrderTail`, `InOrderSame` or
   `InOrderEmpty`.
3. `VPQEntryBelongsToOwner` is inductive given `OrderInv`: different positions are different slots
   (`EntriesDistinct`), the slot at the tail is nobody's (`TailEntryFree`), and the slot at the head
   is the retiring instruction's (`HeadEntryOwned`).
4. `InstanceTracksVPQ` is inductive given all of these: pushes and pops change the count of one tag
   by one (`InstancesPush`, `InstancesPop`), a rollback splits it (`InstancesSplit`), and a popped
   entry has the tag being trained because it belongs to the instruction that retires.
5. `Refinement` (`StrideVP_refinement`). `QueueOf` is the mapping's queue as a function of table,
   pointers and instructions. Four facts about it carry the argument: moving the tail back leaves a
   prefix, advancing it appends the new slot's entry, advancing the head drops the first entry, and
   writing one slot changes one entry. Each action then has a lemma that names the abstract step it
   takes, or that it stutters. `OrderInv` gives the distances and says that a restored tail lies
   between head and tail; `VPQEntryBelongsToOwner`, before and after the step, says that the slot an
   instruction writes is its own and that the slot popped is the retiring instruction's, whose value
   is there.

### RenameBundle

The invariant is `Allocated`. "The VPQ holds the eligible instructions in flight" will not do: the
dropping loop may clear the flag of an instruction that is in flight and leave its entry in the
queue (the finding of `rename_retire`). What remains is an order of the recorded tails: what flagged
instructions and unresolved branches recorded lies between head and tail, does not decrease along
program order, and increases behind a flagged instruction. A retirement moves the head by at most
the entry its instruction recorded, and a rollback goes to a recorded place, so that the order
survives both, whether or not there are entries in between that nobody owns any more. The stall
check (policy 0) or the loop (policy 1) leaves no more flags in the bundle than the queue has free
entries. `Consecutive` says that the indexes of PAY in flight and in the bundle follow one another,
so that the flags a bundle gets are those of no instruction in flight.

### Renamer

`SizesAgree` says that the free list is as long as the active list, which is what the code computes
unless `--prf` is given, and that there are no more checkpoints than an `int` has bits. The
invariant `Renamed` has these parts beside `TypeOK`:

* `DispatchedFirst`: the dispatched instructions are a prefix of those in flight, so that the active
  list can be compared with it;
* `FreeListInOrder`: the registers that instructions in flight took are the ones just before the
  free list's head, in program order. Every rollback of the head, to a checkpoint or (as `squash`
  does) to the tail with the other phase, rests on that, for nothing is written back to the list;
* `EveryRegisterHeld`: free list, in-flight destinations and AMT name every register exactly once,
  which is what `RegistersPartitioned` reports;
* `EnoughForBundle`: the result of the stall checks, carried through the loop of rename2;
* `BranchesNamed`: `MasksNameOlderBranches`, and that the bits of the GBM are those of the
  unresolved branches. A bit is set by a shift (`OneShifted`), which below the width of an `int` is
  that bit and no other;
* `MapsFollowProgramOrder`, which is inductive given the others: a checkpoint freed by a correct
  resolution is one that nobody rolls back to.

Recovery from a misprediction needs all of them at once: the surviving instructions are a prefix
because the masks name the older branches, the map of the checkpoint is that prefix's map, and the
head of the free list recorded there is where that prefix left it.

### LoadStoreUnit

`InOrder`, from which `QueuesHoldSurvivors` follows, holds the recorded tails of loads, stores and
branches in program order, each at the distance from the head that its count of older loads and
stores gives. `lsu::restore` recomputes length and valid bits from such a tail, and the distance
says what it computes. `LoadsAreRight` strengthens `UnflaggedLoadsAreRight` to what is known of a
load at every moment. If neither a load that has its value nor anything older is flagged, that value
is the one of the youngest older store which overlaps it among those that have shown their
addresses, or memory's if there is none. A store that shows its address later flags, by
`ld_violation`, the oldest load that went ahead of it, and with it everything younger is squashed; a
load that does not speculate has gone ahead of no such store. A store that commits writes memory and
leaves the queue in one step, and the loads that had its value now have memory's.

### Scheduler

The five properties are proved together, from one invariant, `Scheduled`: when an instruction may
be woken up depends on where its producer is, what it reads depends on when it was woken up, and
what retires depends on what was read. Its parts beside `TypeOK` are:

* `FieldsAgree`: what the fields of an instruction say of each other; sources and waiting belong to
  the issue queue and register read, a prediction to an instruction that has not executed, a
  misprediction to one that has;
* `RegistersApart`: a register is the destination of one instruction in flight, or committed for
  one logical register. `Dispatch` takes one that nobody names, and nothing else makes two of it;
* `SourcesMapped`: a source is what its logical register was mapped to in front of the instruction.
  It says that the producer of a source is older, or committed, and stays true when the producer
  retires, because then no other instruction in between writes that logical register; that the
  producer is in flight or committed is not inductive without it;
* `ReadyInTime`: a destination is ready exactly when its instruction has executed, is one execute
  stage away from it in a lane that wakes up early (`Pending`), or has a prediction injected, and an
  instruction waits for exactly those of its sources that are not ready. The early wakeup comes from
  register read in a lane of one stage and from the last stage but one in a deeper lane; `Pending`
  is what both have in common;
* `ContentsKnown`: what is in the destination of every instruction, `Written`, and that the
  committed registers are right;
* `WrongBehindSuspect`: nothing stale has been read, and an instruction that has read a wrong value
  is behind one that was found mispredicted or will be (`Suspect`). A suspect stays one until it
  is the oldest and leaves, and takes everything behind it along; so the oldest instruction has read
  right values;
* `LanesFlow` and `InCycle`: no two instructions are in one stage of a lane, for the stages empty
  from the back. `InCycle` is what the order of the stages within a cycle gives: what execute puts
  into writeback has left it before the next execute, and when registers are read every source of an
  instruction in register read has been written;
* `SlotsHeld`: the issue queue holds the waiting instructions. There is a rank for every slot
  such that the slots in use are ranked by their owners' ages and the free list and the age list
  (`QueueHolds`) share out the slots, each once, the age list in the order of the ranks. With the
  rank as a function of its own, `PopHolds` (dispatch) and `RemoveHolds` (issue and squash) speak of
  the lists alone and not of the instructions, and removing several slots in one step, whatever the
  scan's order, is `RemoveHolds` once for each (`EachRemoved`).

The theorems cover what the run's constants do not: lanes of every number and depth, any steering,
and selection by age or from any number of partitions (`PartitionsAre`, `ScanIs`).

### FetchUnit

The assumptions on the sizes are those of section 3 (PAY even and with more entries than twice the
instructions in flight, a branch queue that holds as many branches). The invariant is `Fetching`.

* `PayHolds` is `PayloadHoldsInFlight` without the modulus, with two additions: the entries in use
  are at most `2 * MaxInFlight`, and an instruction that is not the value half of a split store has
  an even index, as has the tail. The first is what makes the subtraction in `payLength` exact; the
  second makes `index + 2` the place behind an instruction, so that a rollback to it takes back what
  follows and nothing else, even when one half of a store has retired, and leaves room for the half
  that decode adds.
* `TagsFollow` is `TagsInProgramOrder`, inductive given that there are no more branches behind
  fetch2 than entries: a branch is whole and so has two entries of PAY (`BranchesFit`).
* `OnPath` is `HistoryFollowsPath` in terms of the queue: the outcomes are its contents from head to
  tail (`Out`). Pushing, popping and rolling back the queue each change that sequence at one end
  (`LogAppend`, `LogPop`, `LogCut`); outcomes shifted in one after the other are the concatenated
  outcomes shifted in (`AfterAfter`).
* `SerializersAreAlone` is inductive with `WellFormed`: an exception is the last of its bundle, only
  plain instructions are split, and behind fetch2 the BTB's mistakes are gone. It says that
  `RetireSerial` finds nothing behind it, so that emptying the branch queue loses no branch.
* `Checkpointed`: the checkpoint a misfetch restores is where the bundle in fetch2 begins.

Decode changes the positions of everything behind a split store. `Moved` gives the new position,
`PaySplit` and `TagSplit` say that entries and tags are those from before, and `FlattenSplits` finds
out what the library's recursive `FlattenSeq` makes, by the least number of pieces for which it
would be something else.

### Only model-checked

Liveness (`BundleLeavesRename`, `FetchResumes`) is out of the prover's reach. `EveryRegisterHeld`,
`InOrder`, `Scheduled`, `Fetching` and the other strengthenings are not properties of runs of their
own: TLC checked them with the constants of the module's run before they were proved (for
`Scheduled` with the owner of a slot in place of the rank that is said to exist).

## 6. Not modelled, and why

* Perfect value prediction, perfect branch prediction and oracle disambiguation bypass the state in
  question.
* Load reservations (lsu.cc:453): the reservation is part of the processor state of `riscv-base`.
  That a load-reserved on a mispredicted path may overwrite the reservation is a hazard without a
  property.
* The tables of the memory dependence predictor, gshare, BTB and TAGE-SC-L (third party), and the
  RAS, whose recovery is partial on purpose (fetchunit.cc:692): they decide what is tried, and the
  models let that vary freely.
* Cache timing, with its miss registers: how long a load takes, also free.
* The trace cache and indirect branches, which take part in the branch queue as conditional branches
  do but have targets in place of outcomes.
* Eventual issue of every instruction: `WaitsForAProducer` is the safety half. For the other half
  `Scheduler` would need the fairness of cache and replay in every cycle; a run that size does not
  fit.
* Decode, but for its stall and the splitting of stores: a function from an encoding to fields.
* Configuration parsing. One of its defects is a hazard without a property: parameters.h:19 declares
  as `uint8_t` what parameters.cc defines as `uint64_t`.
* Statistics, logging, checkpoint files, the checker and debug buffer, `riscv-base`: input and
  output, observers and vendored code.

## 7. Plan

Done, in the order of their weight for the program's correctness: `PhaseQueue`, `StrideVP`,
`RenameBundle`, `Renamer`, `ValueQueue` with its refinement, `LoadStoreUnit`, `Scheduler`,
`FetchUnit`, and the proofs about all of them.

Left: `Pipeline`, which composes renamer and value predictor at the point of recovery, with the
result that retired values are those of sequential execution.
