----------------------------- MODULE Scheduler -----------------------------
(***************************************************************************)
(* The out-of-order core between dispatch and retirement: the issue queue  *)
(* with its free list and its age-ordered list, the execution lanes        *)
(* (register read, one or more execute stages, writeback), the ready bits  *)
(* and contents of the physical registers, and the loads that stall in the *)
(* LSU.  It is driven as pipeline_t::step_micro drives it: in a cycle the  *)
(* stages run once each, from retire backwards to dispatch, and a lane     *)
(* wakes up consumers one stage before it writes their source.             *)
(*                                                                         *)
(* A register's contents are "right", what the instruction computes in     *)
(* program order, "wrong", or "stale": not written since it was allocated. *)
(* A confident value prediction is written at dispatch, right or wrong,    *)
(* and checked when the instruction executes.                              *)
(*                                                                         *)
(* Squashing the instructions younger than a branch stands for the branch  *)
(* masks, and taking a register nobody names for the free list and the     *)
(* maps: Renamer.tla models those.                                         *)
(***************************************************************************)
EXTENDS Integers, Sequences, FiniteSets, SequencesExt, Functions

CONSTANTS
  LogReg, Reg,         \* logical and physical registers, numbers
  IQsize,              \* issue queue entries
  num_parts,           \* partitions that select in turn starts from
  IDEAL_AGE_BASED,     \* select scans from the oldest instruction instead
  Depth,               \* the execute stages of each lane: its latency
  FULanes,             \* for each kind of instruction, the sets of lanes it may be steered to
  Predictions,         \* what a destination may be predicted as, and "none"
  ActiveListSize,      \* most instructions in flight
  NoReg

Lanes == DOMAIN Depth
IQSlot == 0..(IQsize - 1)
part_size == IQsize \div num_parts

ASSUME SchedulerAssumption ==
  /\ Reg \subseteq Nat
  /\ LogReg \subseteq Reg
  /\ IQsize \in Nat \ {0}
  /\ num_parts \in Nat \ {0} /\ IQsize % num_parts = 0
  /\ IDEAL_AGE_BASED \in BOOLEAN
  /\ Depth \in Seq(Nat \ {0})
  /\ FULanes \in [{"alu", "load", "branch"} -> SUBSET ((SUBSET Lanes) \ {{}})]
  /\ Predictions \subseteq {"none", "right", "wrong"} /\ "none" \in Predictions
  /\ ActiveListSize \in Nat \ {0}
  /\ NoReg \notin Reg

VARIABLES
  fl, fl_head, fl_tail, fl_length,   \* the issue queue's free list
  age_list,            \* its occupied slots, oldest to youngest: the list of prev and next
  part_next,           \* the slot select starts at
  inflight,            \* dispatched, unretired instructions, oldest first
  amt,                 \* the committed register of each logical register
  ready,               \* the ready bit of each physical register
  prf,                 \* the contents of each physical register
  stage                \* the stage of the cycle that runs next, a position in Order

iqVars == <<fl, fl_head, fl_tail, fl_length, age_list>>
regVars == <<ready, prf>>
vars == <<iqVars, part_next, inflight, amt, regVars, stage>>

Content == {"right", "wrong", "stale"}

Place == {"iq", "rr", "ex", "lsu", "wb", "done"}

\* An instruction in flight.  waits: the sources whose ready bits its issue queue entry lacks.
\* read: what it read in the register read stage.  prediction: what was written to its
\* destination at dispatch.
Instruction ==
  [kind : {"alu", "load", "branch"}, lanes : SUBSET Lanes,
   srcs : SUBSET Reg, log : LogReg \cup {NoReg}, dst : Reg \cup {NoReg},
   at : Place, slot : IQSlot, lane : Lanes, sub : Nat, waits : SUBSET Reg,
   prediction : Predictions, read : Content, val_misp : BOOLEAN]

\* The stages of a cycle in the order they run, writeback once for each lane.
Order == <<<<"retire", 0>>>> \o [lane \in Lanes |-> <<"writeback", lane>>]
         \o <<<<"replay", 0>>, <<"execute", 0>>, <<"register_read", 0>>, <<"schedule", 0>>,
              <<"dispatch", 0>>>>

\* Some of the instructions w are in a stage's hands.  Select moves its turn on in any case.
HasWork(st, w) ==
  LET somewhere(at) == \E i \in DOMAIN w : w[i].at = at
  IN  CASE st[1] = "retire"        -> w # <<>> /\ w[1].at = "done"
        [] st[1] = "writeback"     -> \E i \in DOMAIN w : w[i].at = "wb" /\ w[i].lane = st[2]
        [] st[1] = "replay"        -> somewhere("lsu")
        [] st[1] = "execute"       -> somewhere("ex")
        [] st[1] = "register_read" -> somewhere("rr")
        [] st[1] = "schedule"      -> somewhere("iq") \/ num_parts > 1
        [] st[1] = "dispatch"      -> TRUE

TypeOK ==
  /\ fl \in [IQSlot -> IQSlot]
  /\ fl_head \in IQSlot /\ fl_tail \in IQSlot /\ fl_length \in 0..IQsize
  /\ age_list \in Seq(IQSlot) /\ Len(age_list) <= IQsize
  /\ part_next \in {k * part_size : k \in 0..(num_parts - 1)}
  /\ inflight \in Seq(Instruction) /\ Len(inflight) <= ActiveListSize
  /\ amt \in [LogReg -> Reg]
  /\ ready \in [Reg -> BOOLEAN]
  /\ prf \in [Reg -> Content]
  /\ stage \in 1..Len(Order) /\ HasWork(Order[stage], inflight)

-----------------------------------------------------------------------------
(* The cycle *)

Running(name) == Order[stage][1] = name

\* The first stage behind position k with work to do for the instructions w.
Behind(k, w) == Min({n \in (k + 1)..Len(Order) : HasWork(Order[n], w)})

\* A stage without work does nothing and is passed over.
NextStage == stage' = Behind(stage, inflight')

-----------------------------------------------------------------------------
(* The issue queue's bookkeeping *)

\* The free list, its pointers and the age list as a record, so that several slots can leave
\* in one step.
IQ == [fl |-> fl, head |-> fl_head, tail |-> fl_tail, length |-> fl_length, list |-> age_list]

IQBecomes(q) ==
  /\ fl' = q.fl /\ fl_head' = q.head /\ fl_tail' = q.tail /\ fl_length' = q.length
  /\ age_list' = q.list

EmptyIQ == [fl |-> [s \in IQSlot |-> s], head |-> 0, tail |-> 0, length |-> IQsize, list |-> <<>>]

\* The age list is doubly linked: a slot's neighbours become each other's.
Unlinked(list, s) == RemoveAt(list, CHOOSE k \in DOMAIN list : list[k] = s)

\* Mutant of remove: the slot is put back without moving the tail of the free list.
removeKeepsTail(q, s) ==
  [q EXCEPT !.fl[q.tail] = s, !.length = @ + 1, !.list = Unlinked(q.list, s)]

\* Take a slot off the age list and push it onto the free list.
remove(q, s) ==
  [q EXCEPT !.fl[q.tail] = s, !.tail = (@ + 1) % IQsize, !.length = @ + 1,
            !.list = Unlinked(q.list, s)]

\* The issue queue after a loop over a sequence of slots that removes those of a set S.
removeEach(slots, S) ==
  LET removed[k \in 0..Len(slots)] ==
        IF k = 0 THEN IQ
        ELSE IF slots[k] \in S THEN remove(removed[k - 1], slots[k]) ELSE removed[k - 1]
  IN  removed[Len(slots)]

\* squash() looks at the slots in the order of their numbers.
InSlotOrder == [k \in 1..IQsize |-> k - 1]

Instructions(at) == {i \in 1..Len(inflight) : inflight[i].at = at}

\* select_and_issue()'s scan: by age, or over all slots from the partition whose turn it is.
Scan ==
  IF IDEAL_AGE_BASED THEN age_list ELSE [k \in 1..IQsize |-> (part_next + k - 1) % IQsize]

Owner(s) == CHOOSE i \in Instructions("iq") : inflight[i].slot = s

\* The lanes of a set that no instruction of the register read stage or issued before has.
FreeLanes(lanes, issued) ==
  lanes \ ({p[2] : p \in issued} \cup {inflight[i].lane : i \in Instructions("rr")})

\* One step of the scan: a ready instruction takes the first of its lanes that is still free.
Select(issued, s) ==
  LET w == inflight[Owner(s)]
  IN  IF s \in ToSet(age_list) /\ w.waits = {} /\ FreeLanes(w.lanes, issued) # {}
      THEN issued \cup {<<s, Min(FreeLanes(w.lanes, issued))>>} ELSE issued

\* The slots selected, each with the lane it is issued to.
Issued ==
  LET issued[k \in 0..Len(Scan)] == IF k = 0 THEN {} ELSE Select(issued[k - 1], Scan[k])
  IN  issued[Len(Scan)]

-----------------------------------------------------------------------------
(* Retire *)

\* The renamer maps the logical registers to the lowest physical ones.
InitialMap == [l \in LogReg |-> l]

Init ==
  /\ fl = EmptyIQ.fl /\ fl_head = 0 /\ fl_tail = 0 /\ fl_length = IQsize
  /\ age_list = <<>>
  /\ part_next = 0
  /\ inflight = <<>>
  /\ amt = InitialMap
  /\ ready = [r \in Reg |-> TRUE]
  /\ prf = [r \in Reg |-> IF r \in Range(amt) THEN "right" ELSE "stale"]
  /\ stage = Len(Order)

\* Registers are freed.  A free register's ready bit and contents are not looked at before it is
\* allocated again, and count as the worst they can be: left ready, and stale.
Free(regs) ==
  /\ ready' = [r \in Reg |-> ready[r] \/ r \in regs]
  /\ prf' = [r \in Reg |-> IF r \in regs THEN "stale" ELSE prf[r]]

\* retire(): the oldest instruction has completed and its value was not mispredicted.
Retire ==
  /\ Running("retire")
  /\ ~Head(inflight).val_misp
  /\ amt' = IF Head(inflight).dst = NoReg THEN amt
            ELSE [amt EXCEPT ![Head(inflight).log] = Head(inflight).dst]
  /\ inflight' = Tail(inflight)
  /\ Free(Range(amt) \ Range(amt'))
  /\ NextStage \/ (HasWork(Order[stage], inflight') /\ stage' = stage)
  /\ UNCHANGED <<iqVars, part_next>>

\* squash_complete(): the issue queue, the lanes and the LSU are emptied, and the renamer goes back
\* to the committed registers.
Squashed ==
  /\ inflight' = <<>>
  /\ IQBecomes(EmptyIQ)
  /\ Free(Reg \ Range(amt'))
  /\ NextStage
  /\ UNCHANGED part_next

\* The oldest instruction commits, and everything after it is squashed: its value was
\* mispredicted.
RetireMispredicted ==
  /\ Running("retire")
  /\ Head(inflight).val_misp
  /\ amt' = [amt EXCEPT ![Head(inflight).log] = Head(inflight).dst]
  /\ Squashed

\* The oldest instruction raised an exception, or is a load that executed before a store it depends
\* on: it is squashed with everything after it, whether or not its value was mispredicted.
SquashComplete ==
  /\ Running("retire")
  /\ UNCHANGED amt
  /\ Squashed

-----------------------------------------------------------------------------
(* Writeback *)

\* What is not read again is cleared.
Completed(w) == [w EXCEPT !.at = "done", !.lanes = {}, !.srcs = {}, !.lane = 1, !.sub = 0]

\* An instruction leaves its lane, complete; a branch was predicted correctly.
Writeback(lane) ==
  /\ Order[stage] = <<"writeback", lane>>
  /\ inflight' = [i \in 1..Len(inflight) |->
                    IF inflight[i].at = "wb" /\ inflight[i].lane = lane
                    THEN Completed(inflight[i]) ELSE inflight[i]]
  /\ NextStage
  /\ UNCHANGED <<iqVars, part_next, amt, regVars>>

\* A branch was mispredicted: everything younger leaves the issue queue, the lanes and the LSU.
WritebackMispredict(lane) ==
  \E b \in Instructions("wb") :
    /\ Order[stage] = <<"writeback", lane>>
    /\ inflight[b].lane = lane
    /\ inflight[b].kind = "branch"
    /\ inflight' = [SubSeq(inflight, 1, b) EXCEPT ![b] = Completed(@)]
    /\ IQBecomes(removeEach(InSlotOrder, {inflight[i].slot : i \in {j \in Instructions("iq") : j > b}}))
    /\ Free({inflight[i].dst : i \in (b + 1)..Len(inflight)} \ {NoReg})
    /\ NextStage
    /\ UNCHANGED <<part_next, amt>>

-----------------------------------------------------------------------------
(* Replay, execute and register read *)

\* Mutant of Mispredicted: loads are not checked.
MispredictedUnlessLoad(w, value, differ) ==
  w.kind # "load" /\ w.prediction # "none" /\ (w.prediction # value \/ (value = "wrong" /\ differ))

\* The computed value is compared with the prediction.  Two wrong values may be the same.
Mispredicted(w, value, differ) ==
  w.prediction # "none" /\ (w.prediction # value \/ (value = "wrong" /\ differ))

\* What an instruction computes from what it read.
Computed(w) == IF w.read = "right" THEN "right" ELSE "wrong"

Checked(w, differ) ==
  [w EXCEPT !.val_misp = Mispredicted(w, Computed(w), differ), !.prediction = "none"]

\* Mutant of WokenUp: of several wakeups in one stage only one gets through.
WokenUpOnce(w, tags) == [w EXCEPT !.waits = IF tags = {} THEN @ ELSE @ \ {Min(tags)}]

\* wakeup(): consumers in the issue queue see a tag's ready bit set.
WokenUp(w, tags) == [w EXCEPT !.waits = @ \ tags]

\* The tags of a set of instructions.
Tags(S) == {inflight[i].dst : i \in S} \ {NoReg}

SetReady(tags) == ready' = [r \in Reg |-> ready[r] \/ r \in tags]

\* load_replay(): a load that stalled in the LSU has its value: it wakes up its consumers, is
\* written and is complete.
Replay(i, differ) ==
  /\ Running("replay")
  /\ inflight[i].at = "lsu"
  /\ inflight' = [j \in 1..Len(inflight) |->
                    IF j = i THEN Completed(Checked(inflight[i], differ))
                    ELSE WokenUp(inflight[j], Tags({i}))]
  /\ SetReady(Tags({i}))
  /\ prf' = [r \in Reg |-> IF r = inflight[i].dst THEN Computed(inflight[i]) ELSE prf[r]]
  /\ NextStage
  /\ UNCHANGED <<iqVars, part_next, amt>>

\* No stalled load gets its value this cycle.
ReplayNothing ==
  /\ Running("replay")
  /\ stage' = Behind(stage, inflight)
  /\ UNCHANGED <<iqVars, part_next, inflight, amt, regVars>>

\* Instructions with n more execute stages ahead of them.
Ahead(n) == {i \in Instructions("ex") : inflight[i].sub + n + 1 = Depth[inflight[i].lane]}

\* execute(), lane by lane: what is in the last stage executes, and goes to writeback unless
\* it is a load that stalls; what is in the last stage but one wakes up its consumers; and the
\* lane moves on.
Execute(stalled, differ) ==
  LET finished == Ahead(0) \ stalled
      tags     == Tags({i \in finished : inflight[i].kind = "load"}
                       \cup {i \in Ahead(1) : inflight[i].kind # "load"})
  IN  /\ Running("execute")
      /\ inflight' = [i \in 1..Len(inflight) |->
           LET w == inflight[i]
           IN  IF i \in finished THEN [Checked(w, differ) EXCEPT !.at = "wb", !.sub = 0]
               ELSE IF i \in stalled THEN [w EXCEPT !.at = "lsu", !.lane = 1, !.sub = 0]
               ELSE IF w.at = "ex" THEN [w EXCEPT !.sub = @ + 1] ELSE WokenUp(w, tags)]
      /\ SetReady(tags)
      /\ prf' = [r \in Reg |-> IF r \in Tags(finished)
                               THEN Computed(inflight[CHOOSE i \in finished : inflight[i].dst = r])
                               ELSE prf[r]]
      /\ NextStage
      /\ UNCHANGED <<iqVars, part_next, amt>>

\* Mutant of WakesEarly: a multi-cycle producer wakes up its consumers as a single-cycle one.
WakesEarlyAnyLane(w) == w.kind # "load"

\* Only a single-cycle producer wakes up its consumers in register read, and never a load.
WakesEarly(w) == Depth[w.lane] = 1 /\ w.kind # "load"

\* The sources as the register file has them.
ReadSources(w) ==
  IF \E r \in w.srcs : prf[r] = "stale" THEN "stale"
  ELSE IF \E r \in w.srcs : prf[r] = "wrong" THEN "wrong" ELSE "right"

\* register_read(), lane by lane.
RegisterRead ==
  LET tags == Tags({i \in Instructions("rr") : WakesEarly(inflight[i])})
  IN  /\ Running("register_read")
      /\ inflight' = [i \in 1..Len(inflight) |->
                        IF inflight[i].at = "rr"
                        THEN [inflight[i] EXCEPT !.at = "ex", !.read = ReadSources(inflight[i]),
                                                   !.srcs = {}]
                        ELSE WokenUp(inflight[i], tags)]
      /\ SetReady(tags)
      /\ NextStage
      /\ UNCHANGED <<iqVars, part_next, amt, prf>>

-----------------------------------------------------------------------------
(* Schedule and dispatch *)

Schedule ==
  /\ Running("schedule")
  /\ inflight' = [i \in 1..Len(inflight) |->
       IF \E p \in Issued : inflight[i].at = "iq" /\ inflight[i].slot = p[1]
       THEN [inflight[i] EXCEPT !.at = "rr", !.slot = 0, !.lanes = {},
               !.lane = (CHOOSE p \in Issued : inflight[i].slot = p[1])[2]]
       ELSE inflight[i]]
  /\ IQBecomes(removeEach(Scan, {p[1] : p \in Issued}))
  /\ part_next' = IF IDEAL_AGE_BASED /\ age_list = <<>> THEN part_next
                  ELSE (part_next + part_size) % IQsize
  /\ NextStage
  /\ UNCHANGED <<amt, regVars>>

\* The register a logical register is renamed to.
Mapping(l) ==
  LET writers == {i \in 1..Len(inflight) : inflight[i].log = l}
  IN  IF writers = {} THEN amt[l] ELSE inflight[Max(writers)].dst

FreeRegs == Reg \ (Range(amt) \cup {inflight[i].dst : i \in 1..Len(inflight)})

\* Mutant of stall: one slot short is let through.
stallLate(bundle_inst) == fl_length + 1 < bundle_inst

stall(bundle_inst) == fl_length < bundle_inst

\* One instruction of the dispatch bundle: its sources' ready bits are looked up, then its own
\* destination's is cleared, unless a confident prediction goes into it at once.
Dispatch(kind, lanes, logs, log, prediction) ==
  LET dst  == IF log = NoReg THEN NoReg ELSE Min(FreeRegs)
      srcs == {Mapping(l) : l \in logs}
      slot == fl[fl_head]
  IN  /\ Running("dispatch")
      /\ Len(inflight) < ActiveListSize
      /\ ~stall(1)
      /\ kind = "branch" <=> log = NoReg
      /\ log # NoReg => FreeRegs # {}
      /\ log = NoReg => prediction = "none"
      /\ inflight' = Append(inflight,
           [kind |-> kind, lanes |-> lanes, srcs |-> srcs, log |-> log, dst |-> dst,
            at |-> "iq", slot |-> slot, lane |-> 1, sub |-> 0,
            waits |-> {r \in srcs : ~ready[r]},
            prediction |-> prediction, read |-> "right", val_misp |-> FALSE])
      /\ ready' = [r \in Reg |-> IF r = dst THEN prediction # "none" ELSE ready[r]]
      /\ prf' = [r \in Reg |-> IF r # dst THEN prf[r]
                               ELSE IF prediction = "none" THEN "stale" ELSE prediction]
      /\ fl' = [fl EXCEPT ![fl_head] = 0]      \* not read again: cleared
      /\ fl_head' = (fl_head + 1) % IQsize
      /\ fl_length' = fl_length - 1
      /\ age_list' = Append(age_list, slot)
      /\ UNCHANGED <<fl_tail, part_next, amt, stage>>

EndOfCycle ==
  /\ Running("dispatch")
  /\ stage' = Behind(0, inflight)
  /\ UNCHANGED <<iqVars, part_next, inflight, amt, regVars>>

-----------------------------------------------------------------------------

Next ==
  \/ Retire
  \/ RetireMispredicted
  \/ SquashComplete
  \/ \E lane \in Lanes : Writeback(lane)
  \/ \E lane \in Lanes : WritebackMispredict(lane)
  \/ \E i \in 1..Len(inflight), differ \in BOOLEAN : Replay(i, differ)
  \/ ReplayNothing
  \/ \E stalled \in SUBSET {i \in Ahead(0) : inflight[i].kind = "load"}, differ \in BOOLEAN :
       Execute(stalled, differ)
  \/ RegisterRead
  \/ Schedule
  \/ \E kind \in {"alu", "load", "branch"} : \E lanes \in FULanes[kind], logs \in SUBSET LogReg,
        log \in LogReg \cup {NoReg}, prediction \in Predictions :
       Dispatch(kind, lanes, logs, log, prediction)
  \/ EndOfCycle

Spec == Init /\ [][Next]_vars

-----------------------------------------------------------------------------
(* Properties *)

\* The free list and the age list share out the slots of the issue queue: a slot is free or
\* holds one instruction, though instructions leave out of order and squashes take several at
\* once, and the age list is the waiting instructions in program order (the assertions of
\* issue_queue.cc:36, :51 and :228-263).
SlotsSharedOut ==
  LET free == [k \in 1..fl_length |-> fl[(fl_head + k - 1) % IQsize]]
      held == {inflight[i].slot : i \in Instructions("iq")}
  IN  /\ Cardinality(ToSet(free)) = fl_length
      /\ ToSet(free) = IQSlot \ held
      /\ ToSet(age_list) = held
      /\ \A i, j \in Instructions("iq") : inflight[i].slot = inflight[j].slot => i = j
      /\ fl_length + Len(age_list) = IQsize
      /\ \A j, k \in 1..Len(age_list) : j < k => Owner(age_list[j]) < Owner(age_list[k])

\* The instruction a source waits for: the older one in flight that writes it.
Producers(i, r) == {j \in 1..(i - 1) : inflight[j].dst = r}

\* An instruction waits only for a source that is not ready yet, and then there is an older
\* instruction in flight that has still to wake it up: no wakeup is lost between the look-up
\* at dispatch, the wakeups of the stages before it in the cycle and a squash, and nobody
\* waits for ever for a register that is there or that nobody will write.
WaitsForAProducer ==
  \A i \in Instructions("iq") : \A r \in inflight[i].waits :
    /\ ~ready[r]
    /\ \E j \in Producers(i, r) : inflight[j].at \in {"iq", "rr", "ex", "lsu"}

\* No instruction reads a register before its producer has written it: a wakeup is one stage
\* ahead of the write and the consumer is selected and reads one stage behind, in every lane.
\* And no two instructions are in one stage of a lane (the assertions of register_read.cc:88
\* and execute.cc:215: the lanes are free-flowing).
NoStaleRead ==
  /\ \A i \in 1..Len(inflight) : inflight[i].read # "stale"
  /\ \A i, j \in Instructions("rr") \cup Instructions("ex") \cup Instructions("wb") :
       inflight[i].at = inflight[j].at /\ inflight[i].lane = inflight[j].lane
       /\ inflight[i].sub = inflight[j].sub => i = j

\* Value speculation is invisible: an instruction that is about to retire has read nothing
\* but right values, although its producers' predictions may have been wrong, and its own
\* register holds the right value, even if it was predicted wrong itself.
OnlyRightValuesRetire ==
  inflight # <<>> /\ Head(inflight).at = "done" =>
    /\ Head(inflight).read = "right"
    /\ Head(inflight).dst # NoReg => prf[Head(inflight).dst] = "right"
=============================================================================
