----------------------------- MODULE FetchUnit -----------------------------
(***************************************************************************)
(* The front end: the fetch unit's two stages, the branch queue, the       *)
(* payload buffer PAY every instruction in flight has its place in, the    *)
(* fetch queue up to rename1, and what a misfetch, a mispredicted branch,  *)
(* a serializing instruction and a complete squash do to all of them.      *)
(*                                                                         *)
(* Which instructions a fetch bundle holds and what the BTB and the        *)
(* predictor say of them is free; the branch history register is kept, as  *)
(* gshare and the predictors with the same interface keep it.  "cond" is a *)
(* conditional branch, "serial" an amo or csr instruction, "except" one    *)
(* whose fetch raised an exception.  Only conditional branches are         *)
(* mispredicted and enter the history; an instruction cache miss is a      *)
(* fetch1 that does not happen yet; the trace cache is off.  Which of the  *)
(* plain instructions are stores shows in decode, which splits them in two *)
(* halves, address and value, if it is told to.                            *)
(***************************************************************************)
EXTENDS PhaseQueue, Sequences, FiniteSets, SequencesExt

CONSTANTS
  instr_per_cycle,       \* fetch width
  cond_branch_per_cycle, \* conditional branches that end a bundle
  dispatch_width,        \* rename width
  fq_size,               \* the fetch queue's entries
  rob_size,              \* instructions between rename2 and retirement
  PAYLOAD_BUFFER_SIZE,   \* PAY's entries, two for each instruction
  BQ_SIZE,               \* the branch queue's entries
  bhr_length,            \* outcomes in the branch history register
  SPLIT_STORES,          \* decode splits stores
  MaxInFlight            \* bound on the instructions in flight, fetch bundle included

ASSUME FetchUnitAssumption ==
  /\ instr_per_cycle \in Nat \ {0}
  /\ cond_branch_per_cycle \in Nat \ {0}
  /\ dispatch_width \in Nat \ {0}
  /\ rob_size \in Nat /\ rob_size >= dispatch_width
  /\ bhr_length \in Nat \ {0}
  /\ SPLIT_STORES \in BOOLEAN
  /\ MaxInFlight \in Nat
  /\ PAYLOAD_BUFFER_SIZE \in Nat /\ PAYLOAD_BUFFER_SIZE % 2 = 0
  /\ PAYLOAD_BUFFER_SIZE > 2 * MaxInFlight
  /\ BQ_SIZE \in Nat \ {0} /\ BQ_SIZE >= MaxInFlight
  /\ fq_size \in Nat /\ fq_size >= 2 * instr_per_cycle + dispatch_width - 1

VARIABLES
  fetch_active,            \* fetch1 is not waiting for a serializing instruction
  FETCH2, DECODE,          \* the pipeline registers behind fetch1 and fetch2
  FQ, RENAME2,             \* the fetch queue, and the bundle in rename2
  rob,                     \* instructions from the dispatch register on, oldest first
  pay_head, pay_tail, pay_length,
  bq, bq_head, bq_tail,    \* the outcome of each branch as far as known, and the pointers
  log,                     \* the history before each branch of the branch queue
  bhr,                     \* the speculative branch history
  fetch2_bhr,              \* the history before the bundle in FETCH2
  pay_checkpoint,          \* PAY's tail before the bundle in FETCH2
  base                     \* history variable: the branch history at the point of retirement

stageVars == <<FETCH2, DECODE, FQ, RENAME2, rob>>
payVars == <<pay_head, pay_tail, pay_length>>
bqVars == <<bq, bq_head, bq_tail, log>>
fetch2Vars == <<fetch2_bhr, pay_checkpoint>>
vars == <<fetch_active, stageVars, payVars, bqVars, bhr, fetch2Vars, base>>

Kind == {"plain", "cond", "serial", "except"}

History == [1..bhr_length -> BOOLEAN]

PayIndex == 0..(PAYLOAD_BUFFER_SIZE - 1)

\* branch: the BTB took it for a conditional branch.  taken: the prediction, until the branch
\* queue has it.  tag: its pred_tag.  half: a split store's address or value half.
Instruction == [kind : Kind, branch : BOOLEAN, taken : BOOLEAN, index : PayIndex,
                tag : Pointer(BQ_SIZE), resolved : BOOLEAN, half : {"whole", "upper", "lower"}]

TypeOK ==
  /\ fetch_active \in BOOLEAN
  /\ FETCH2 \in Seq(Instruction) /\ Len(FETCH2) <= instr_per_cycle
  /\ DECODE \in Seq(Instruction) /\ Len(DECODE) <= instr_per_cycle
  /\ FQ \in Seq(Instruction) /\ Len(FQ) <= fq_size
  /\ RENAME2 \in Seq(Instruction) /\ Len(RENAME2) <= dispatch_width
  /\ rob \in Seq(Instruction) /\ Len(rob) <= rob_size
  /\ pay_head \in PayIndex /\ pay_tail \in PayIndex
  /\ pay_length \in 0..PAYLOAD_BUFFER_SIZE
  /\ bq \in [0..(BQ_SIZE - 1) -> BOOLEAN]
  /\ bq_head \in Pointer(BQ_SIZE) /\ bq_tail \in Pointer(BQ_SIZE)
  /\ log \in [0..(BQ_SIZE - 1) -> History]
  /\ bhr \in History /\ fetch2_bhr \in History /\ base \in History
  /\ pay_checkpoint \in PayIndex

\* Behind fetch2, and all, oldest first.
Fetched == rob \o RENAME2 \o FQ \o DECODE
InFlight == Fetched \o FETCH2

NoHistory == [k \in 1..bhr_length |-> FALSE]

Init ==
  /\ fetch_active = TRUE
  /\ FETCH2 = <<>> /\ DECODE = <<>> /\ FQ = <<>> /\ RENAME2 = <<>> /\ rob = <<>>
  /\ pay_head = 0 /\ pay_tail = 0 /\ pay_length = 0
  /\ bq = [s \in 0..(BQ_SIZE - 1) |-> FALSE]
  /\ bq_head = Origin /\ bq_tail = Origin
  /\ log = [s \in 0..(BQ_SIZE - 1) |-> NoHistory]
  /\ bhr = NoHistory /\ base = NoHistory
  /\ fetch2_bhr = NoHistory /\ pay_checkpoint = 0

-----------------------------------------------------------------------------
(* Histories and the payload buffer *)

\* update_bhr(): the newest outcome is shifted in.
update_bhr(h, taken) == [k \in 1..bhr_length |-> IF k = bhr_length THEN taken ELSE h[k + 1]]

\* One outcome after the other is: the newest ones remain.
After(h, outcomes) ==
  [k \in 1..bhr_length |-> IF k + Len(outcomes) <= bhr_length THEN h[k + Len(outcomes)]
                           ELSE outcomes[k + Len(outcomes) - bhr_length]]

\* Where the instructions are that the fetch unit takes for conditional branches.
Branches(insts) == {k \in DOMAIN insts : insts[k].branch}

\* How many of them there are before the k-th instruction.
BranchesBefore(insts, k) == Cardinality({j \in Branches(insts) : j < k})

NthBranch(insts, n) == CHOOSE k \in Branches(insts) : BranchesBefore(insts, k) = n - 1

\* Their predictions, oldest first.
Predictions(insts) ==
  [n \in 1..Cardinality(Branches(insts)) |-> insts[NthBranch(insts, n)].taken]

\* Mutant of payLength: the tail is taken not to have wrapped.
payLengthUnwrapped(tail) == tail - pay_head

payLength(tail) == (PAYLOAD_BUFFER_SIZE + tail - pay_head) % PAYLOAD_BUFFER_SIZE

\* Mutant of rollback: the tail goes back to the instruction itself.
rollbackTooFar(index) ==
  /\ pay_tail' = index
  /\ pay_length' = payLength(index)
  /\ UNCHANGED pay_head

\* The log entries of the branches in a set of slots.  The others are stale, left by branches
\* committed or squashed long ago or, at first, allocated and not initialized: they are cleared,
\* and taken for anything where one is read.
Kept(slots) == [s \in DOMAIN log |-> IF s \in slots THEN log[s] ELSE NoHistory]

\* PAY's tail goes back to behind an instruction.
rollback(index) ==
  /\ pay_tail' = (index + 2) % PAYLOAD_BUFFER_SIZE
  /\ pay_length' = payLength((index + 2) % PAYLOAD_BUFFER_SIZE)
  /\ UNCHANGED pay_head

-----------------------------------------------------------------------------
(* Fetch *)

\* The BTB's view of an instruction is wrong.
Misidentified(w) == w.branch # (w.kind = "cond")

\* What the BTB makes a bundle: it ends at an exception, at a taken branch and at the last
\* conditional branch a cycle can predict.
Bundles ==
  {insts \in UNION {[1..n -> [kind : Kind, branch : BOOLEAN, taken : BOOLEAN]] : n \in 1..instr_per_cycle} :
     /\ \A k \in DOMAIN insts : insts[k].taken => insts[k].branch
     /\ \A k \in DOMAIN insts : k < Len(insts) => insts[k].kind # "except" /\ ~insts[k].taken
     /\ BranchesBefore(insts, Len(insts)) < cond_branch_per_cycle}

\* fetch1(): checkpoint, put the bundle into PAY, and go on as predicted.
Fetch1(bundle) ==
  /\ FETCH2 = <<>>
  /\ fetch_active
  /\ Len(InFlight) + Len(bundle) <= MaxInFlight
  /\ FETCH2' = [k \in DOMAIN bundle |->
                  [kind |-> bundle[k].kind, branch |-> bundle[k].branch, taken |-> bundle[k].taken,
                   index |-> (pay_tail + 2 * (k - 1)) % PAYLOAD_BUFFER_SIZE,
                   tag |-> Origin, resolved |-> FALSE, half |-> "whole"]]
  /\ pay_checkpoint' = pay_tail
  /\ pay_tail' = (pay_tail + 2 * Len(bundle)) % PAYLOAD_BUFFER_SIZE
  /\ pay_length' = pay_length + 2 * Len(bundle)
  /\ fetch2_bhr' = bhr
  /\ bhr' = After(bhr, Predictions(bundle))
  /\ UNCHANGED <<fetch_active, DECODE, FQ, RENAME2, rob, pay_head, bqVars, base>>

\* Predecode looks at the bundle up to the first amo or csr instruction.
Predecoded ==
  LET serial == {k \in DOMAIN FETCH2 : FETCH2[k].kind = "serial"}
  IN  IF serial = {} THEN FETCH2 ELSE SubSeq(FETCH2, 1, Min(serial))

\* The BTB missed a branch or saw one where there is none.
Misfetched == \E k \in DOMAIN Predecoded : Misidentified(Predecoded[k])

\* Mutant of Serializes: only amo and csr instructions stop fetch1.
SerializesNoExceptions == Last(Predecoded).kind = "serial"

Serializes == Last(Predecoded).kind \in {"serial", "except"}

\* What is not read while there is no bundle in fetch2 is cleared.
Fetch2Done == fetch2_bhr' = NoHistory /\ pay_checkpoint' = 0

\* fetch2(): a malformed bundle is discarded, to be predicted again.
Misfetch ==
  /\ FETCH2 # <<>>
  /\ Misfetched
  /\ FETCH2' = <<>>
  /\ fetch_active' = TRUE
  /\ bhr' = fetch2_bhr
  /\ pay_tail' = pay_checkpoint
  /\ pay_length' = payLength(pay_checkpoint)
  /\ Fetch2Done
  /\ UNCHANGED <<DECODE, FQ, RENAME2, rob, pay_head, bqVars, base>>

\* What predecode does to a bundle that stays: fetch1 stops behind a serializing instruction,
\* what follows it in PAY is dropped.
Predecode ==
  /\ FETCH2 # <<>>
  /\ ~Misfetched
  /\ fetch_active' = (fetch_active /\ ~Serializes)
  /\ IF Last(Predecoded).kind = "serial" THEN rollback(Last(Predecoded).index) ELSE UNCHANGED payVars

\* fetch2(): the bundle waits for the decode stage, predecoded again every cycle.
Fetch2Stall ==
  /\ Predecode
  /\ DECODE # <<>>
  /\ FETCH2' = Predecoded
  /\ UNCHANGED <<DECODE, FQ, RENAME2, rob, bqVars, bhr, fetch2Vars, base>>

\* Mutant of LoggedHistory: the branch's own prediction is shifted in before it is logged.
LoggedHistoryUpdated(k) == After(fetch2_bhr, Predictions(SubSeq(Predecoded, 1, k)))

\* The history before the k-th instruction of the bundle in FETCH2.
LoggedHistory(k) == After(fetch2_bhr, Predictions(SubSeq(Predecoded, 1, k - 1)))

\* fetch2(): the bundle moves on, and its branches enter the branch queue and the log.
Fetch2 ==
  LET tag(k) == AdvanceBy(bq_tail, BranchesBefore(Predecoded, k), BQ_SIZE)
      pushed == Branches(Predecoded)
      at(s)  == CHOOSE k \in pushed : tag(k).idx = s
      slots  == {tag(k).idx : k \in pushed}
  IN  /\ Predecode
      /\ DECODE = <<>>
      /\ FETCH2' = <<>>
      /\ DECODE' = [k \in DOMAIN Predecoded |->
                      IF k \in pushed THEN [Predecoded[k] EXCEPT !.tag = tag(k), !.taken = FALSE]
                      ELSE Predecoded[k]]
      /\ bq_tail' = AdvanceBy(bq_tail, Cardinality(pushed), BQ_SIZE)
      /\ bq' = [s \in DOMAIN bq |-> IF s \in slots THEN Predecoded[at(s)].taken ELSE bq[s]]
      /\ log' = [s \in DOMAIN log |->
                   IF s \in slots THEN LoggedHistory(at(s)) ELSE log[s]]
      /\ Fetch2Done
      /\ UNCHANGED <<FQ, RENAME2, rob, bq_head, bhr, base>>

-----------------------------------------------------------------------------
(* Decode and rename *)

\* split(): the lower half goes into the odd entry of the pair.
Halves(w) == <<[w EXCEPT !.half = "upper"], [w EXCEPT !.half = "lower", !.index = @ + 1]>>

\* decode(): there must be room for every instruction to be split in two.
Decode(stores) ==
  /\ DECODE # <<>>
  /\ fq_size - Len(FQ) >= 2 * Len(DECODE)
  /\ \A k \in stores : DECODE[k].kind = "plain" /\ SPLIT_STORES
  /\ FQ' = FQ \o FlattenSeq([k \in DOMAIN DECODE |->
                               IF k \in stores THEN Halves(DECODE[k]) ELSE <<DECODE[k]>>])
  /\ DECODE' = <<>>
  /\ UNCHANGED <<fetch_active, FETCH2, RENAME2, rob, payVars, bqVars, bhr, fetch2Vars, base>>

\* Mutant of MayRename: a full bundle is waited for, although no more will be fetched.
MayRenameFull(width) == width = dispatch_width

\* A bundle that is not full is renamed only when fetch1 has stopped.
MayRename(width) == width > 0 /\ (fetch_active => width = dispatch_width)

\* rename1()
Rename1 ==
  LET width == IF Len(FQ) < dispatch_width THEN Len(FQ) ELSE dispatch_width
  IN  /\ RENAME2 = <<>>
      /\ MayRename(width)
      /\ RENAME2' = SubSeq(FQ, 1, width)
      /\ FQ' = SubSeq(FQ, width + 1, Len(FQ))
      /\ UNCHANGED <<fetch_active, FETCH2, DECODE, rob, payVars, bqVars, bhr, fetch2Vars, base>>

\* The bundle leaves rename2.
Rename2 ==
  /\ RENAME2 # <<>>
  /\ Len(rob) + Len(RENAME2) <= rob_size
  /\ rob' = rob \o RENAME2
  /\ RENAME2' = <<>>
  /\ UNCHANGED <<fetch_active, FETCH2, DECODE, FQ, payVars, bqVars, bhr, fetch2Vars, base>>

-----------------------------------------------------------------------------
(* Branch resolution *)

ResolveCorrect(i) ==
  /\ rob[i].kind = "cond"
  /\ ~rob[i].resolved
  /\ rob' = [rob EXCEPT ![i].resolved = TRUE]
  /\ UNCHANGED <<fetch_active, FETCH2, DECODE, FQ, RENAME2, payVars, bqVars, bhr, fetch2Vars, base>>

\* The front end and the stages up to rename2 are emptied.
EmptyFrontEnd == FETCH2' = <<>> /\ DECODE' = <<>> /\ FQ' = <<>> /\ RENAME2' = <<>> /\ Fetch2Done

\* Mutant of PushedAgain: the branch is rolled back and not pushed again.
RolledBack(tag) == tag

\* The branch queue's tail when the branch is rolled back to and pushed again.
PushedAgain(tag) == Advance(tag, BQ_SIZE)

\* mispredict(): the branch queue is rolled back to the branch and the branch pushed again with
\* its outcome; what follows it is squashed, and PAY rolled back.
Mispredict(i) ==
  LET tag   == rob[i].tag
      taken == ~bq[tag.idx]
  IN  /\ rob[i].kind = "cond"
      /\ ~rob[i].resolved
      /\ bq_tail' = PushedAgain(tag)
      /\ bq' = [s \in DOMAIN bq |-> IF s = tag.idx THEN taken
                                    ELSE s \in Slots(bq_head, tag, BQ_SIZE) /\ bq[s]]
      /\ bhr' = update_bhr(log[tag.idx], taken)
      /\ fetch_active' = TRUE
      /\ EmptyFrontEnd
      /\ rob' = [SubSeq(rob, 1, i) EXCEPT ![i].resolved = TRUE]
      /\ rollback(rob[i].index)
      /\ log' = Kept(Slots(bq_head, tag, BQ_SIZE) \cup {tag.idx})
      /\ UNCHANGED <<bq_head, base>>

-----------------------------------------------------------------------------
(* Retirement *)

\* The entries of PAY that leave with an instruction.
Entries(w) == IF w.half = "whole" THEN 2 ELSE 1

\* PAY's head passes the oldest instruction.
Pop ==
  /\ pay_head' = (pay_head + Entries(Head(rob))) % PAYLOAD_BUFFER_SIZE
  /\ pay_length' = pay_length - Entries(Head(rob))

\* The oldest instruction retires.  A branch commits: the branch queue is popped.
Retire ==
  /\ rob # <<>>
  /\ Head(rob).kind \in {"plain", "cond"}
  /\ Head(rob).kind = "cond" => Head(rob).resolved
  /\ rob' = Tail(rob)
  /\ Pop
  /\ IF Head(rob).kind = "cond"
     THEN /\ bq_head' = Advance(bq_head, BQ_SIZE)
          /\ base' = update_bhr(base, bq[bq_head.idx])
          /\ bq' = [bq EXCEPT ![bq_head.idx] = FALSE]
          /\ log' = Kept(DOMAIN log \ {bq_head.idx})
     ELSE UNCHANGED <<bq_head, base, bq, log>>
  /\ UNCHANGED <<fetch_active, FETCH2, DECODE, FQ, RENAME2, pay_tail, bq_tail, bhr, fetch2Vars>>

\* flush(): the branch queue is emptied, and the history is the one logged at its head, where
\* the entry is stale if no branch is in flight.
flush ==
  /\ bq_tail' = bq_head
  /\ bq' = [s \in DOMAIN bq |-> FALSE]
  /\ bhr' \in IF bq_tail = bq_head THEN History ELSE {log[bq_head.idx]}
  /\ base' = bhr'
  /\ log' = Kept({})
  /\ fetch_active' = TRUE
  /\ UNCHANGED bq_head

\* An amo or csr instruction retires and fetch1 resumes.  Nothing behind the fetch unit is
\* squashed: the pipeline is taken to be empty.
RetireSerial ==
  /\ rob # <<>>
  /\ Head(rob).kind = "serial"
  /\ rob' = Tail(rob)
  /\ flush
  /\ FETCH2' = <<>>
  /\ Fetch2Done
  /\ Pop
  /\ UNCHANGED <<DECODE, FQ, RENAME2, pay_tail>>

\* The oldest instruction's value was mispredicted, or it was a load that read too early, or it
\* raised an exception, an amo or csr instruction when it executed: a complete squash.  The value
\* half of a store raises none.
SquashComplete ==
  /\ rob # <<>>
  /\ Head(rob).kind # "cond" /\ Head(rob).half # "lower"
  /\ flush
  /\ EmptyFrontEnd
  /\ rob' = <<>>
  /\ pay_head' = 0 /\ pay_tail' = 0 /\ pay_length' = 0

-----------------------------------------------------------------------------

Next ==
  \/ \E bundle \in Bundles : Fetch1(bundle)
  \/ Misfetch
  \/ Fetch2Stall
  \/ Fetch2
  \/ \E stores \in SUBSET (1..Len(DECODE)) : Decode(stores)
  \/ Rename1
  \/ Rename2
  \/ \E i \in 1..Len(rob) : ResolveCorrect(i)
  \/ \E i \in 1..Len(rob) : Mispredict(i)
  \/ Retire
  \/ RetireSerial
  \/ SquashComplete

Spec == Init /\ [][Next]_vars

\* Every stage runs every cycle, and the oldest instruction completes and leaves in the end.
\* Decode({}) is possible when any Decode is, and none is after one of them.
FairSpec ==
  /\ Spec
  /\ WF_vars(Fetch2)
  /\ WF_vars(Decode({}))
  /\ WF_vars(Rename1)
  /\ WF_vars(Rename2)
  /\ WF_vars((rob # <<>> /\ ResolveCorrect(1)) \/ Retire \/ RetireSerial
             \/ (rob # <<>> /\ Head(rob).kind = "except" /\ SquashComplete))

-----------------------------------------------------------------------------
(* Properties *)

\* The entries of PAY before the k-th instruction in flight: one each, and one more that is whole.
EntriesBefore(k) == (k - 1) + Cardinality({j \in 1..(k - 1) : InFlight[j].half = "whole"})

\* PAY holds the instructions in flight, from its head to its tail in program order, two
\* entries each, one for the half of a split store, and no entry for two instructions,
\* whatever was rolled back in between: a misfetch, a branch or a serializing instruction
\* takes back exactly what it discards from the pipeline registers and the fetch queue, even
\* when half a store has retired (payload.cc:112 and :124 assert the length).
PayloadHoldsInFlight ==
  /\ \A k \in 1..Len(InFlight) :
       InFlight[k].index = (pay_head + EntriesBefore(k)) % PAYLOAD_BUFFER_SIZE
  /\ pay_length = EntriesBefore(Len(InFlight) + 1)
  /\ pay_tail = (pay_head + pay_length) % PAYLOAD_BUFFER_SIZE

\* The branch queue holds the branches behind fetch2 in program order: the tags they carry run
\* from its head to its tail.  So the branch that commits is the one at the head (the assertion
\* of fetchunit.cc:621), a mispredicted branch is in the queue when it is rolled back to, and
\* the rollback undoes the younger branches and no others (the assertions of bq.cc:55-89).
TagsInProgramOrder ==
  /\ \A k \in Branches(Fetched) :
       Fetched[k].tag = AdvanceBy(bq_head, BranchesBefore(Fetched, k), BQ_SIZE)
  /\ bq_tail = AdvanceBy(bq_head, Cardinality(Branches(Fetched)), BQ_SIZE)

\* The outcomes of the branches behind fetch2, oldest first, as far as they are known.
Outcomes ==
  [n \in 1..Cardinality(Branches(Fetched)) |-> bq[Fetched[NthBranch(Fetched, n)].tag.idx]]

\* Prediction runs on the history of the path it is on: the one at the point of retirement and
\* the outcomes, predicted or known, of everything fetched since, and each branch is logged
\* with the history before it; misfetches and mispredictions bring back no outcome of what they
\* discard and lose none of what stays.  While fetch1 is stopped the register is not used.
HistoryFollowsPath ==
  /\ fetch_active => bhr = After(base, Outcomes \o Predictions(FETCH2))
  /\ FETCH2 # <<>> => fetch2_bhr = After(base, Outcomes)
  /\ \A k \in Branches(Fetched) :
       log[Fetched[k].tag.idx] = After(base, SubSeq(Outcomes, 1, BranchesBefore(Fetched, k)))

\* A serializing instruction behind fetch2 is the youngest in flight and fetch1 is stopped, so
\* that the pipeline is empty behind it when it retires (retire.cc:181 relies on it: its flush
\* squashes nothing behind the fetch unit).
SerializersAreAlone ==
  \A k \in 1..Len(Fetched) :
    Fetched[k].kind \in {"serial", "except"} => k = Len(InFlight) /\ ~fetch_active

\* The history a complete flush restores is the one at the commit point, as BPinterface.h:69-70
\* says of the log entry the predictor's flush() is given.
FlushRestoresCommitPoint == [][RetireSerial \/ SquashComplete => base' = base]_vars

\* A stopped fetch1 resumes: the serializing instruction gets through the fetch queue in a
\* bundle that is not full, and retires or is squashed.
FetchResumes == ~fetch_active ~> fetch_active
=============================================================================
