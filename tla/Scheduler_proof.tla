-------------------------- MODULE Scheduler_proof --------------------------
(***************************************************************************)
(* Proofs about Scheduler: its type invariant, that the issue queue's      *)
(* lists share out its slots, that no wakeup is lost, that no register is  *)
(* read before it is written, and that only right values retire.           *)
(***************************************************************************)
EXTENDS Scheduler, PhaseQueue_proof

-----------------------------------------------------------------------------
(* The invariant, of instructions w[1] to w[n] in flight *)

\* The instruction has computed its value.
Executed(x) == x.at \in {"wb", "done"}

\* It has woken up its consumers, and writes its destination in the next execute stage.
Pending(x) == x.at = "ex" /\ x.kind # "load" /\ x.sub + 1 = Depth[x.lane]

\* What each instruction's fields say of each other.
FieldsAgree(x) ==
  /\ x.dst = NoReg <=> x.log = NoReg
  /\ x.prediction # "none" => x.dst # NoReg /\ ~Executed(x)
  /\ x.val_misp => x.dst # NoReg /\ Executed(x)
  /\ x.at \in {"iq", "rr"} => x.read = "right"
  /\ x.at # "ex" => x.sub = 0
  /\ x.srcs # {} => x.at \in {"iq", "rr"}
  /\ x.waits \subseteq x.srcs
  /\ x.waits # {} => x.at = "iq"

\* A register is the destination of one instruction, or committed for one logical register.
RegistersApart(w, n, map) ==
  /\ \A l, m \in LogReg : map[l] = map[m] => l = m
  /\ \A i \in 1..n : \A l \in LogReg : w[i].dst # map[l]
  /\ \A i, j \in 1..n : w[i].dst # NoReg /\ w[i].dst = w[j].dst => i = j

\* Register r is what logical register l is mapped to in front of instruction i.
MappedAt(w, map, l, i, r) ==
  \/ map[l] = r /\ \A j \in 1..(i - 1) : w[j].log # l
  \/ \E j \in 1..(i - 1) : /\ w[j].log = l /\ w[j].dst = r
                           /\ \A k \in (j + 1)..(i - 1) : w[k].log # l

\* An instruction's sources are what its logical sources are mapped to.
SourcesMapped(w, n, map) ==
  \A i \in 1..n : \A r \in w[i].srcs : \E l \in LogReg : MappedAt(w, map, l, i, r)

\* A destination is ready once its instruction has computed it or will in time for its
\* consumers, or if it was predicted; an instruction waits for what is not ready.
ReadyInTime(w, n, map, rdy) ==
  /\ \A l \in LogReg : rdy[map[l]]
  /\ \A i \in 1..n : w[i].dst # NoReg =>
       /\ Executed(w[i]) \/ Pending(w[i]) => rdy[w[i].dst]
       /\ rdy[w[i].dst] => Executed(w[i]) \/ Pending(w[i]) \/ w[i].prediction # "none"
  /\ \A i \in 1..n : w[i].waits = {r \in w[i].srcs : ~rdy[r]}

\* What is in the destination of an instruction.
Written(x) == IF Executed(x) THEN Computed(x) ELSE IF x.prediction = "none" THEN "stale" ELSE x.prediction

\* Committed registers are right; the others hold what their instructions have written.
ContentsKnown(w, n, map, regs) ==
  /\ \A l \in LogReg : regs[map[l]] = "right"
  /\ \A i \in 1..n : w[i].dst # NoReg => regs[w[i].dst] = Written(w[i])

\* The instruction will be found, or has been found, mispredicted.
Suspect(x) == x.val_misp \/ x.prediction = "wrong"

\* Nothing stale is read, and what has read a wrong value is behind a suspect.
WrongBehindSuspect(w, n) ==
  \A i \in 1..n : /\ w[i].read # "stale"
                  /\ w[i].read = "wrong" => \E k \in 1..(i - 1) : Suspect(w[k])

\* No two instructions are in one stage of a lane.
LanesFlow(w, n) ==
  \A i, j \in 1..n :
    /\ w[i].at \in {"rr", "ex", "wb"} /\ w[i].at = w[j].at
    /\ w[i].lane = w[j].lane /\ w[i].sub = w[j].sub
    => i = j

\* The positions of the stages in Order, of which retire is the first.
WritebackOf(lane) == 1 + lane
ExecuteStage == Len(Depth) + 3
ReadStage == Len(Depth) + 4

\* What has reached writeback leaves it before the next execute; when registers are read, the
\* execute stages have moved on and the sources of who reads are written.
InCycle(w, n, regs, st) ==
  /\ \A i \in 1..n : w[i].at = "wb" => st <= WritebackOf(w[i].lane) \/ st > ExecuteStage
  /\ st = ReadStage => \A i \in 1..n : /\ w[i].at = "ex" => w[i].sub > 0
                                       /\ w[i].at = "rr" => \A r \in w[i].srcs : regs[r] # "stale"

\* The k-th slot of the free list.
FreeAt(q, k) == q.fl[(q.head + k - 1) % IQsize]

\* The issue queue q, of which the slots H are taken: the free list has each of the others once,
\* and the age list has H in the order of rank.
QueueHolds(q, H, rank) ==
  /\ q.fl \in [IQSlot -> IQSlot] /\ q.head \in IQSlot /\ q.tail \in IQSlot /\ q.length \in 0..IQsize
  /\ q.tail = (q.head + q.length) % IQsize
  /\ \A k \in 1..q.length : FreeAt(q, k) \notin H
  /\ \A j, k \in 1..q.length : FreeAt(q, j) = FreeAt(q, k) => j = k
  /\ \A s \in IQSlot \ H : \E k \in 1..q.length : FreeAt(q, k) = s
  /\ q.list \in Seq(IQSlot) /\ q.length + Len(q.list) = IQsize
  /\ \A k \in 1..Len(q.list) : q.list[k] \in H
  /\ \A s \in H : \E k \in 1..Len(q.list) : q.list[k] = s
  /\ \A j, k \in 1..Len(q.list) : j < k => rank[q.list[j]] < rank[q.list[k]]

\* The slots of the instructions that wait to be issued.
Held(w, n) == {w[i].slot : i \in {j \in 1..n : w[j].at = "iq"}}

\* Each has one of its own, and rank is its owner.
Ranks(w, n, rank) == \A i \in 1..n : w[i].at = "iq" => rank[w[i].slot] = i

\* The issue queue holds the waiting instructions in program order.
SlotsHeld(w, n, q) == \E rank \in [IQSlot -> Nat] : Ranks(w, n, rank) /\ QueueHolds(q, Held(w, n), rank)

\* All of it.
Consistent(w, n, map, rdy, regs, st, q) ==
  /\ \A i \in 1..n : FieldsAgree(w[i])
  /\ RegistersApart(w, n, map)
  /\ SourcesMapped(w, n, map)
  /\ ReadyInTime(w, n, map, rdy)
  /\ ContentsKnown(w, n, map, regs)
  /\ WrongBehindSuspect(w, n)
  /\ LanesFlow(w, n)
  /\ InCycle(w, n, regs, st)
  /\ SlotsHeld(w, n, q)

\* The inductive invariant.
Scheduled == TypeOK /\ Consistent(inflight, Len(inflight), amt, ready, prf, stage, IQ)

-----------------------------------------------------------------------------
(* The cycle *)

\* One element, a sequence and five elements, one behind the other.
LEMMA Joined ==
  ASSUME NEW r, NEW d \in Nat, NEW T, NEW b \in [1..d -> T],
         NEW p1, NEW p2, NEW p3, NEW p4, NEW p5, NEW o, o = (<<r>> \o b) \o <<p1, p2, p3, p4, p5>>
  PROVE  /\ Len(o) = d + 6 /\ o[1] = r /\ \A i \in 1..d : o[1 + i] = b[i]
         /\ o[d + 2] = p1 /\ o[d + 3] = p2 /\ o[d + 4] = p3 /\ o[d + 5] = p4 /\ o[d + 6] = p5
<1>0. PICK U : U = T \cup {r, p1, p2, p3, p4, p5}
  OBVIOUS
<1>1. PICK a \in Seq(U) : a = <<r>> /\ Len(a) = 1 /\ a[1] = r
  <2>1. r \in U
    BY <1>0
  <2>2. <<r>> \in Seq(U) /\ Len(<<r>>) = 1 /\ <<r>>[1] = r
    BY <2>1
  <2> QED BY <2>2
<1>2. b \in Seq(U) /\ Len(b) = d
  <2>1. b \in [1..d -> U]
    BY <1>0
  <2> QED BY <2>1, FunctionIsSequence
<1>3. PICK c \in Seq(U) : /\ c = <<p1, p2, p3, p4, p5>> /\ Len(c) = 5
                          /\ c[1] = p1 /\ c[2] = p2 /\ c[3] = p3 /\ c[4] = p4 /\ c[5] = p5
  <2>1. p1 \in U /\ p2 \in U /\ p3 \in U /\ p4 \in U /\ p5 \in U
    BY <1>0
  <2>2. <<p1, p2, p3, p4, p5>> \in Seq(U)
    BY <2>1
  <2>3. PICK c : c = <<p1, p2, p3, p4, p5>>
    OBVIOUS
  <2>4. Len(c) = 5 /\ c[1] = p1 /\ c[2] = p2 /\ c[3] = p3 /\ c[4] = p4 /\ c[5] = p5
    BY <2>3
  <2> QED BY <2>2, <2>3, <2>4
<1>4. PICK e \in Seq(U) : /\ e = a \o b /\ Len(e) = d + 1
                          /\ \A i \in 1..(d + 1) : e[i] = IF i <= 1 THEN a[i] ELSE b[i - 1]
  <2>1. /\ a \o b \in Seq(U) /\ Len(a \o b) = Len(a) + Len(b)
        /\ \A i \in 1..(Len(a) + Len(b)) : (a \o b)[i] = IF i <= Len(a) THEN a[i] ELSE b[i - Len(a)]
    BY <1>2, ConcatProperties
  <2>2. Len(a) + Len(b) = d + 1 /\ Len(a) = 1
    BY <1>1, <1>2
  <2>3. PICK e : e = a \o b
    OBVIOUS
  <2>4. e \in Seq(U) /\ Len(e) = d + 1
    BY <2>1, <2>2, <2>3
  <2>5. \A i \in 1..(d + 1) : e[i] = IF i <= 1 THEN a[i] ELSE b[i - 1]
    BY <2>1, <2>2, <2>3
  <2> QED BY <2>3, <2>4, <2>5
<1>5. /\ Len(e \o c) = d + 6
      /\ \A i \in 1..(d + 6) : (e \o c)[i] = IF i <= d + 1 THEN e[i] ELSE c[i - (d + 1)]
  <2>1. /\ e \o c \in Seq(U) /\ Len(e \o c) = Len(e) + Len(c)
        /\ \A i \in 1..(Len(e) + Len(c)) : (e \o c)[i] = IF i <= Len(e) THEN e[i] ELSE c[i - Len(e)]
    BY ConcatProperties
  <2> QED BY <1>3, <1>4, <2>1
<1>6. o = e \o c
  BY <1>1, <1>3, <1>4
<1>7. o[1] = r
  BY <1>1, <1>4, <1>5, <1>6
<1>8. ASSUME NEW i \in 1..d PROVE o[1 + i] = b[i]
  <2>1. 1 + i \in 1..(d + 6) /\ 1 + i <= d + 1 /\ 1 + i \in 1..(d + 1) /\ ~(1 + i <= 1) /\ 1 + i - 1 = i
    OBVIOUS
  <2> QED BY <1>4, <1>5, <1>6, <2>1
<1>9. ASSUME NEW i \in 1..5 PROVE o[d + 1 + i] = c[i]
  <2>1. d + 1 + i \in 1..(d + 6) /\ ~(d + 1 + i <= d + 1) /\ d + 1 + i - (d + 1) = i
    OBVIOUS
  <2>2. (e \o c)[d + 1 + i] = c[d + 1 + i - (d + 1)]
    BY <1>5, <2>1
  <2> QED BY <1>6, <2>1, <2>2
<1>10. /\ d + 1 + 1 = d + 2 /\ d + 1 + 2 = d + 3 /\ d + 1 + 3 = d + 4 /\ d + 1 + 4 = d + 5
       /\ d + 1 + 5 = d + 6
  OBVIOUS
<1>11. /\ o[d + 2] = c[1] /\ o[d + 3] = c[2] /\ o[d + 4] = c[3] /\ o[d + 5] = c[4] /\ o[d + 6] = c[5]
  <2>1. 1 \in 1..5 /\ 2 \in 1..5 /\ 3 \in 1..5 /\ 4 \in 1..5 /\ 5 \in 1..5
    OBVIOUS
  <2>2. /\ o[d + 1 + 1] = c[1] /\ o[d + 1 + 2] = c[2] /\ o[d + 1 + 3] = c[3] /\ o[d + 1 + 4] = c[4]
        /\ o[d + 1 + 5] = c[5]
    BY <1>9, <2>1
  <2> QED BY <1>10, <2>2
<1> QED BY <1>3, <1>5, <1>6, <1>7, <1>8, <1>11

\* The stages of a cycle.
LEMMA OrderIs ==
  /\ Len(Depth) \in Nat /\ Lanes = 1..Len(Depth) /\ Len(Order) = Len(Depth) + 6
  /\ Order[1] = <<"retire", 0>>
  /\ \A lane \in Lanes : Order[1 + lane] = <<"writeback", lane>>
  /\ Order[Len(Depth) + 2] = <<"replay", 0>>
  /\ Order[Len(Depth) + 3] = <<"execute", 0>>
  /\ Order[Len(Depth) + 4] = <<"register_read", 0>>
  /\ Order[Len(Depth) + 5] = <<"schedule", 0>>
  /\ Order[Len(Depth) + 6] = <<"dispatch", 0>>
<1>1. PICK d \in Nat : d = Len(Depth) /\ Lanes = 1..d
  BY SchedulerAssumption, LenProperties DEF Lanes
<1>2. PICK T : T = {<<"writeback", lane>> : lane \in 1..d}
  OBVIOUS
<1>7. PICK b \in [1..d -> T] :
        b = [lane \in Lanes |-> <<"writeback", lane>>] /\ \A lane \in 1..d : b[lane] = <<"writeback", lane>>
  <2>1. [lane \in 1..d |-> <<"writeback", lane>>] \in [1..d -> T]
    BY <1>2
  <2> QED BY <1>1, <2>1
<1>3. Order = (<<<<"retire", 0>>>> \o b)
                \o <<<<"replay", 0>>, <<"execute", 0>>, <<"register_read", 0>>, <<"schedule", 0>>,
                     <<"dispatch", 0>>>>
  BY <1>7 DEF Order
<1>4. PICK r, p1, p2, p3, p4, p5 :
        /\ r = <<"retire", 0>> /\ p1 = <<"replay", 0>> /\ p2 = <<"execute", 0>>
        /\ p3 = <<"register_read", 0>> /\ p4 = <<"schedule", 0>> /\ p5 = <<"dispatch", 0>>
  OBVIOUS
<1>5. Order = (<<r>> \o b) \o <<p1, p2, p3, p4, p5>>
  BY <1>3, <1>4
<1>6. /\ Len(Order) = d + 6 /\ Order[1] = r /\ \A i \in 1..d : Order[1 + i] = b[i]
      /\ Order[d + 2] = p1 /\ Order[d + 3] = p2 /\ Order[d + 4] = p3 /\ Order[d + 5] = p4
      /\ Order[d + 6] = p5
  BY <1>5, Joined
<1> QED BY <1>1, <1>4, <1>6, <1>7

\* A stage is at one position, writeback at one for each lane.
LEMMA StageIs ==
  ASSUME stage \in 1..Len(Order)
  PROVE  /\ Running("retire") => stage = 1
         /\ \A lane \in Lanes : Order[stage] = <<"writeback", lane>> => stage = WritebackOf(lane)
         /\ Running("replay") => stage = Len(Depth) + 2
         /\ Running("execute") => stage = ExecuteStage
         /\ Running("register_read") => stage = ReadStage
         /\ Running("schedule") => stage = Len(Depth) + 5
         /\ Running("dispatch") => stage = Len(Depth) + 6
<1>1. PICK d \in Nat : d = Len(Depth) /\ Lanes = 1..d /\ Len(Order) = d + 6
  BY OrderIs
<1>2. \/ stage = 1 \/ stage = d + 2 \/ stage = d + 3 \/ stage = d + 4 \/ stage = d + 5 \/ stage = d + 6
      \/ \E l \in 1..d : stage = 1 + l
  <2>1. CASE stage \in 2..(d + 1)
    <3>1. stage - 1 \in 1..d /\ stage = 1 + (stage - 1)
      BY <2>1
    <3> QED BY <3>1
  <2> QED BY <1>1, <2>1
<1>3. CASE \E l \in 1..d : stage = 1 + l
  <2>1. PICK l \in 1..d : stage = 1 + l
    BY <1>3
  <2>2. Order[stage] = <<"writeback", l>>
    BY <1>1, <2>1, OrderIs
  <2> QED BY <2>1, <2>2 DEF Running, WritebackOf
<1>4. CASE \/ stage = 1 \/ stage = d + 2 \/ stage = d + 3 \/ stage = d + 4 \/ stage = d + 5 \/ stage = d + 6
  <2>1. /\ stage = 1 => Order[stage] = <<"retire", 0>>
        /\ stage = d + 2 => Order[stage] = <<"replay", 0>>
        /\ stage = d + 3 => Order[stage] = <<"execute", 0>>
        /\ stage = d + 4 => Order[stage] = <<"register_read", 0>>
        /\ stage = d + 5 => Order[stage] = <<"schedule", 0>>
        /\ stage = d + 6 => Order[stage] = <<"dispatch", 0>>
    BY <1>1, OrderIs
  <2> QED BY <1>1, <1>4, <2>1 DEF Running, ExecuteStage, ReadStage
<1> QED BY <1>2, <1>3, <1>4

\* The least of a set of numbers, and the greatest of a finite one.
LEMMA MinIs ==
  ASSUME NEW S \in SUBSET Nat, S # {}
  PROVE  Min(S) \in S /\ \A y \in S : Min(S) <= y
<1>1. \E x \in S : \A y \in S : x <= y
  BY LeastNat
<1> QED BY <1>1 DEF Min

\* Of positions there is a greatest.
LEMMA MaxIs ==
  ASSUME NEW n \in Nat, NEW S \in SUBSET (1..n), S # {}
  PROVE  Max(S) \in S /\ \A y \in S : Max(S) >= y
<1> DEFINE T == {n - x : x \in S}
<1>1. T \subseteq Nat /\ T # {}
  OBVIOUS
<1>2. PICK t \in T : \A y \in T : t <= y
  <2> HIDE DEF T
  <2> QED BY <1>1, LeastNat
<1>3. PICK x \in S : t = n - x
  BY <1>2
<1>4. \A y \in S : x >= y
  <2> SUFFICES ASSUME NEW y \in S PROVE x >= y
    OBVIOUS
  <2>1. n - x <= n - y
    BY <1>2, <1>3
  <2> QED BY <2>1
<1>5. \E z \in S : \A y \in S : z >= y
  BY <1>4
<1> QED BY <1>5 DEF Max

\* The stage behind position k that runs next, with instructions w[1] to w[n] in flight, has work,
\* and those passed over have none.
StageAfter(k, st, w, n) ==
  /\ st \in 1..Len(Order) /\ HasWork(Order[st], w) /\ st > k
  /\ \A i \in 1..n : w[i].at = "wb" => ~(k < WritebackOf(w[i].lane) /\ WritebackOf(w[i].lane) < st)
  /\ k < ExecuteStage /\ ExecuteStage < st => \A i \in 1..n : w[i].at # "ex"

\* There is always one.
LEMMA BehindIs ==
  ASSUME NEW k \in 0..(Len(Order) - 1), NEW n \in Nat, NEW w \in Seq(Instruction), n = Len(w)
  PROVE  StageAfter(k, Behind(k, w), w, n)
<1>1. PICK d \in Nat : d = Len(Depth) /\ Lanes = 1..d /\ Len(Order) = d + 6
  BY OrderIs
<1> DEFINE S == {m \in (k + 1)..Len(Order) : HasWork(Order[m], w)}
<1>2. S \in SUBSET Nat /\ S \in SUBSET ((k + 1)..(d + 6))
  BY <1>1
<1>3. Len(Order) \in S
  <2>1. Len(Order) \in (k + 1)..Len(Order)
    BY <1>1
  <2>2. Order[Len(Order)] = <<"dispatch", 0>>
    BY <1>1, OrderIs
  <2>3. HasWork(Order[Len(Order)], w)
    BY <2>2 DEF HasWork
  <2> QED BY <2>1, <2>3
<1>4. PICK st \in S : st = Min(S) /\ \A y \in S : st <= y
  <2> HIDE DEF S
  <2> QED BY <1>2, <1>3, MinIs
<1>5. st = Behind(k, w)
  BY <1>4 DEF Behind
<1>6. st \in 1..(d + 6) /\ st > k /\ HasWork(Order[st], w)
  BY <1>1, <1>4
<1>7. \A m \in (k + 1)..(st - 1) : ~HasWork(Order[m], w)
  <2> SUFFICES ASSUME NEW m \in (k + 1)..(st - 1), HasWork(Order[m], w) PROVE FALSE
    OBVIOUS
  <2>1. m \in S
    BY <1>1, <1>6
  <2> QED BY <1>4, <1>6, <2>1
<1> HIDE DEF S
<1>8. /\ DOMAIN w = 1..n
      /\ \A i \in 1..n : w[i] \in Instruction
  BY LenProperties, ElementOfSeq
<1>9. ASSUME NEW i \in 1..n, w[i].at = "wb", k < WritebackOf(w[i].lane), WritebackOf(w[i].lane) < st
      PROVE  FALSE
  <2>1. PICK l \in 1..d : l = w[i].lane
    BY <1>1, <1>8 DEF Instruction
  <2>2. Order[1 + l] = <<"writeback", l>>
    BY <1>1, OrderIs
  <2>4. 1 + l \in (k + 1)..(st - 1)
    <3>1. k \in Nat /\ st \in Nat /\ l \in Nat
      BY <1>1, <1>6
    <3>2. k < 1 + l /\ 1 + l < st
      BY <1>9, <2>1 DEF WritebackOf
    <3> QED BY <3>1, <3>2
  <2>3. HasWork(<<"writeback", l>>, w)
    BY <1>8, <1>9, <2>1 DEF HasWork
  <2> QED BY <1>7, <2>2, <2>3, <2>4
<1>10. ASSUME k < ExecuteStage, ExecuteStage < st, NEW i \in 1..n, w[i].at = "ex" PROVE FALSE
  <2>1. d + 3 \in (k + 1)..(st - 1) /\ Order[d + 3] = <<"execute", 0>>
    BY <1>1, <1>6, <1>10, OrderIs DEF ExecuteStage
  <2>2. HasWork(<<"execute", 0>>, w)
    BY <1>8, <1>10 DEF HasWork
  <2> QED BY <1>7, <2>1, <2>2
<1>11. st \in 1..Len(Order)
  BY <1>1, <1>6
<1> QED BY <1>5, <1>6, <1>9, <1>10, <1>11 DEF StageAfter

-----------------------------------------------------------------------------
(* Steps that change each instruction where it is *)

\* What is in w[1] to w[n].
LEMMA InstructionsIn ==
  ASSUME NEW w \in Seq(Instruction)
  PROVE  /\ Len(w) \in Nat /\ DOMAIN w = 1..Len(w)
         /\ \A i \in 1..Len(w) : /\ w[i] \in Instruction
                                 /\ w[i].srcs \in SUBSET Reg /\ w[i].waits \in SUBSET Reg
                                 /\ w[i].dst \in Reg \cup {NoReg} /\ w[i].log \in LogReg \cup {NoReg}
                                 /\ w[i].lane \in Lanes /\ w[i].sub \in Nat
                                 /\ w[i].slot \in IQSlot
                                 /\ w[i].prediction \in {"none", "right", "wrong"}
                                 /\ w[i].read \in Content /\ w[i].val_misp \in BOOLEAN
                                 /\ w[i].at \in Place
<1>1. Len(w) \in Nat /\ DOMAIN w = 1..Len(w) /\ \A i \in 1..Len(w) : w[i] \in Instruction
  BY LenProperties, ElementOfSeq
<1>2. ASSUME NEW x \in Instruction
      PROVE  /\ x.srcs \in SUBSET Reg /\ x.waits \in SUBSET Reg
             /\ x.dst \in Reg \cup {NoReg} /\ x.log \in LogReg \cup {NoReg}
             /\ x.lane \in Lanes /\ x.sub \in Nat /\ x.slot \in IQSlot
             /\ x.prediction \in {"none", "right", "wrong"}
             /\ x.read \in Content /\ x.val_misp \in BOOLEAN /\ x.at \in Place
  BY SchedulerAssumption DEF Instruction
<1> QED BY <1>1, <1>2

\* The instructions name the same registers, or no longer name them.
LEMMA MapsKept ==
  ASSUME NEW n \in Nat, NEW w, NEW w2, NEW map,
         \A i \in 1..n : w2[i].log = w[i].log /\ w2[i].dst = w[i].dst /\ w2[i].srcs \subseteq w[i].srcs,
         RegistersApart(w, n, map), SourcesMapped(w, n, map)
  PROVE  RegistersApart(w2, n, map) /\ SourcesMapped(w2, n, map)
<1>1. RegistersApart(w2, n, map)
  BY DEF RegistersApart
<1>2. ASSUME NEW i \in 1..n, NEW r \in w2[i].srcs
      PROVE  \E l \in LogReg : MappedAt(w2, map, l, i, r)
  <2>1. PICK l \in LogReg : MappedAt(w, map, l, i, r)
    BY DEF SourcesMapped
  <2>2. \A j \in 1..(i - 1) : j \in 1..n /\ \A k \in (j + 1)..(i - 1) : k \in 1..n
    OBVIOUS
  <2>3. MappedAt(w2, map, l, i, r)
    BY <2>1, <2>2 DEF MappedAt
  <2> QED BY <2>3
<1> QED BY <1>1, <1>2 DEF SourcesMapped

\* What waits in the issue queue waits there still.
LEMMA SlotsKept ==
  ASSUME NEW n \in Nat, NEW w, NEW w2, NEW q,
         \A i \in 1..n : /\ w2[i].at = "iq" <=> w[i].at = "iq"
                         /\ w[i].at = "iq" => w2[i].slot = w[i].slot,
         SlotsHeld(w, n, q)
  PROVE  SlotsHeld(w2, n, q)
<1>1. Held(w2, n) = Held(w, n)
  BY DEF Held
<1>2. \A rank : Ranks(w, n, rank) => Ranks(w2, n, rank)
  BY DEF Ranks
<1> QED BY <1>1, <1>2 DEF SlotsHeld

\* An instruction is woken up by tags or gives its sources up, and nothing else makes it ready than
\* having set its tag.
ReadyLater(x, x2, tags, sets) ==
  /\ x2.dst = x.dst
  /\ \/ x2.srcs = x.srcs /\ x2.waits = x.waits \ tags
     \/ x2.srcs = {} /\ x2.waits = {}
  /\ x.dst # NoReg =>
       /\ Executed(x2) \/ Pending(x2) => Executed(x) \/ Pending(x) \/ sets
       /\ Executed(x) \/ Pending(x) \/ sets \/ x.prediction # "none"
          => Executed(x2) \/ Pending(x2) \/ x2.prediction # "none"

\* The destinations of the instructions S become ready: they have just computed them, or will in
\* time for their consumers, which are woken up.
Wake(w, w2, n, S, tags, rdy, rdy2) ==
  /\ tags = {w[i].dst : i \in S} \ {NoReg}
  /\ \A r \in Reg : rdy2[r] <=> rdy[r] \/ r \in tags
  /\ \A i \in 1..n : ReadyLater(w[i], w2[i], tags, i \in S)

\* Then the ready bits are still set in time.
LEMMA ReadyUpdated ==
  ASSUME NEW n \in Nat, NEW w \in Seq(Instruction), n = Len(w), NEW w2,
         NEW map \in [LogReg -> Reg], NEW rdy, NEW rdy2,
         NEW S \in SUBSET (1..n), NEW tags, Wake(w, w2, n, S, tags, rdy, rdy2),
         RegistersApart(w, n, map), ReadyInTime(w, n, map, rdy)
  PROVE  ReadyInTime(w2, n, map, rdy2)
<1>0. \A i \in 1..n : w[i].srcs \in SUBSET Reg /\ w[i].dst \in Reg \cup {NoReg}
  BY InstructionsIn
<1>1. \A l \in LogReg : rdy2[map[l]]
  BY DEF ReadyInTime, Wake
<1>2. ASSUME NEW i \in 1..n, w[i].dst # NoReg
      PROVE  w[i].dst \in tags <=> i \in S
  BY <1>2 DEF RegistersApart, Wake
<1>3. ASSUME NEW i \in 1..n, w2[i].dst # NoReg
      PROVE  /\ Executed(w2[i]) \/ Pending(w2[i]) => rdy2[w2[i].dst]
             /\ rdy2[w2[i].dst] => Executed(w2[i]) \/ Pending(w2[i]) \/ w2[i].prediction # "none"
  <2>1. w2[i].dst = w[i].dst /\ w[i].dst # NoReg /\ w[i].dst \in Reg
    BY <1>0, <1>3 DEF ReadyLater, Wake
  <2>2. rdy2[w[i].dst] <=> rdy[w[i].dst] \/ i \in S
    BY <1>2, <2>1 DEF Wake
  <2>3. /\ Executed(w[i]) \/ Pending(w[i]) => rdy[w[i].dst]
        /\ rdy[w[i].dst] => Executed(w[i]) \/ Pending(w[i]) \/ w[i].prediction # "none"
    BY <2>1 DEF ReadyInTime
  <2>4. /\ Executed(w2[i]) \/ Pending(w2[i]) => Executed(w[i]) \/ Pending(w[i]) \/ i \in S
        /\ Executed(w[i]) \/ Pending(w[i]) \/ i \in S \/ w[i].prediction # "none"
           => Executed(w2[i]) \/ Pending(w2[i]) \/ w2[i].prediction # "none"
    BY <2>1 DEF ReadyLater, Wake
  <2> QED BY <2>1, <2>2, <2>3, <2>4
<1>4. ASSUME NEW i \in 1..n
      PROVE  w2[i].waits = {r \in w2[i].srcs : ~rdy2[r]}
  <2>1. w[i].waits = {r \in w[i].srcs : ~rdy[r]}
    BY DEF ReadyInTime
  <2>2. CASE w2[i].srcs = w[i].srcs /\ w2[i].waits = w[i].waits \ tags
    BY <1>0, <2>1, <2>2 DEF Wake
  <2>3. CASE w2[i].srcs = {} /\ w2[i].waits = {}
    BY <2>3
  <2> QED BY <2>2, <2>3 DEF ReadyLater, Wake
<1> QED BY <1>1, <1>3, <1>4 DEF ReadyInTime

\* The instructions F write their destinations, and no other register is written.
Write(w, w2, n, F, regs, regs2) ==
  /\ \A i \in 1..n : w2[i].dst = w[i].dst
  /\ \A i \in F : w[i].dst # NoReg => regs2[w[i].dst] = Written(w2[i])
  /\ \A r \in Reg : (\A i \in F : w[i].dst # r) => regs2[r] = regs[r]
  /\ \A i \in 1..n : i \notin F => Written(w2[i]) = Written(w[i])

\* Then the registers still hold what they should.
LEMMA ContentsUpdated ==
  ASSUME NEW n \in Nat, NEW w \in Seq(Instruction), n = Len(w), NEW w2,
         NEW map \in [LogReg -> Reg], NEW regs, NEW regs2,
         NEW F \in SUBSET (1..n), Write(w, w2, n, F, regs, regs2),
         RegistersApart(w, n, map), ContentsKnown(w, n, map, regs)
  PROVE  ContentsKnown(w2, n, map, regs2)
<1>0. \A i \in 1..n : w[i].dst \in Reg \cup {NoReg}
  BY InstructionsIn
<1>1. \A l \in LogReg : regs2[map[l]] = "right"
  BY DEF RegistersApart, ContentsKnown, Write
<1>2. ASSUME NEW i \in 1..n, w2[i].dst # NoReg
      PROVE  regs2[w2[i].dst] = Written(w2[i])
  <2>1. w2[i].dst = w[i].dst /\ w[i].dst \in Reg
    BY <1>0, <1>2 DEF Write
  <2>2. CASE i \in F
    BY <1>2, <2>1, <2>2 DEF Write
  <2>3. CASE i \notin F
    <3>1. \A j \in F : w[j].dst # w[i].dst
      BY <1>2, <2>1, <2>3 DEF RegistersApart
    <3>2. regs2[w[i].dst] = regs[w[i].dst]
      BY <2>1, <3>1 DEF Write
    <3>3. regs[w[i].dst] = Written(w[i]) /\ Written(w2[i]) = Written(w[i])
      BY <1>2, <2>1, <2>3 DEF ContentsKnown, Write
    <3> QED BY <2>1, <3>2, <3>3
  <2> QED BY <2>2, <2>3
<1> QED BY <1>1, <1>2 DEF ContentsKnown

\* The first suspect has read nothing wrong.
LEMMA FirstSuspect ==
  ASSUME NEW n \in Nat, NEW w, WrongBehindSuspect(w, n), NEW m \in 1..n, Suspect(w[m])
  PROVE  \E k \in 1..m : Suspect(w[k]) /\ w[k].read \notin {"wrong", "stale"}
<1> DEFINE T == {k \in 1..n : Suspect(w[k])}
<1>1. PICK k \in T : \A j \in T : k <= j
  <2>1. T \subseteq Nat /\ T # {}
    OBVIOUS
  <2> HIDE DEF T
  <2> QED BY <2>1, LeastNat
<1>2. k \in 1..m
  BY <1>1
<1>3. ASSUME w[k].read = "wrong" PROVE FALSE
  <2>1. PICK j \in 1..(k - 1) : Suspect(w[j])
    BY <1>1, <1>3 DEF WrongBehindSuspect
  <2>2. j \in T /\ ~(k <= j)
    BY <1>1, <2>1
  <2> QED BY <1>1, <2>2
<1>4. w[k].read # "stale"
  BY <1>1 DEF WrongBehindSuspect
<1> QED BY <1>1, <1>2, <1>3, <1>4

\* Who has read nothing wrong stays suspect, and nothing is read.
LEMMA SuspectsStay ==
  ASSUME NEW n \in Nat, NEW w, NEW w2,
         \A i \in 1..n : /\ w2[i].read = w[i].read
                         /\ Suspect(w[i]) /\ w[i].read \notin {"wrong", "stale"} => Suspect(w2[i]),
         WrongBehindSuspect(w, n)
  PROVE  WrongBehindSuspect(w2, n)
<1> SUFFICES ASSUME NEW i \in 1..n
             PROVE  /\ w2[i].read # "stale"
                    /\ w2[i].read = "wrong" => \E k \in 1..(i - 1) : Suspect(w2[k])
  BY DEF WrongBehindSuspect
<1>1. w2[i].read # "stale"
  BY DEF WrongBehindSuspect
<1>2. ASSUME w2[i].read = "wrong" PROVE \E k \in 1..(i - 1) : Suspect(w2[k])
  <2>1. PICK m \in 1..(i - 1) : Suspect(w[m])
    BY <1>2 DEF WrongBehindSuspect
  <2>2. m \in 1..n
    BY <2>1
  <2>3. PICK k \in 1..m : Suspect(w[k]) /\ w[k].read \notin {"wrong", "stale"}
    BY <2>1, <2>2, FirstSuspect
  <2>4. k \in 1..n /\ k \in 1..(i - 1)
    BY <2>1, <2>2, <2>3
  <2> QED BY <2>3, <2>4
<1> QED BY <1>1, <1>2

\* Instructions stay where they are in their lanes, or leave them.
LEMMA LanesEmptied ==
  ASSUME NEW n \in Nat, NEW w, NEW w2,
         \A i \in 1..n : w2[i].at \in {"rr", "ex", "wb"} =>
           w2[i].at = w[i].at /\ w2[i].lane = w[i].lane /\ w2[i].sub = w[i].sub,
         LanesFlow(w, n)
  PROVE  LanesFlow(w2, n)
BY DEF LanesFlow

\* Completing an instruction changes these of its fields.
LEMMA CompletedIs ==
  ASSUME NEW x \in Instruction
  PROVE  /\ Completed(x) \in Instruction
         /\ Completed(x).at = "done" /\ Completed(x).srcs = {} /\ Completed(x).sub = 0
         /\ Completed(x).kind = x.kind /\ Completed(x).log = x.log /\ Completed(x).dst = x.dst
         /\ Completed(x).slot = x.slot /\ Completed(x).waits = x.waits
         /\ Completed(x).prediction = x.prediction /\ Completed(x).read = x.read
         /\ Completed(x).val_misp = x.val_misp
<1>1. 1 \in Lanes
  <2>1. x.lane \in Lanes
    BY DEF Instruction
  <2> QED BY <2>1, OrderIs
<1> QED BY <1>1 DEF Completed, Instruction, Place

\* So does checking its value.
LEMMA CheckedIs ==
  ASSUME NEW x \in Instruction, NEW differ \in BOOLEAN
  PROVE  /\ Checked(x, differ) \in Instruction
         /\ Checked(x, differ).val_misp <=> Mispredicted(x, Computed(x), differ)
         /\ Checked(x, differ).prediction = "none"
         /\ Checked(x, differ).kind = x.kind /\ Checked(x, differ).log = x.log
         /\ Checked(x, differ).dst = x.dst /\ Checked(x, differ).slot = x.slot
         /\ Checked(x, differ).waits = x.waits /\ Checked(x, differ).read = x.read
         /\ Checked(x, differ).at = x.at /\ Checked(x, differ).srcs = x.srcs
         /\ Checked(x, differ).sub = x.sub /\ Checked(x, differ).lane = x.lane
<1>1. "none" \in Predictions
  BY SchedulerAssumption
<1>2. Mispredicted(x, Computed(x), differ) \in BOOLEAN
  BY DEF Mispredicted
<1> QED BY <1>1, <1>2 DEF Checked, Instruction

\* And a wakeup.
LEMMA WokenUpIs ==
  ASSUME NEW x \in Instruction, NEW tags
  PROVE  /\ WokenUp(x, tags) \in Instruction
         /\ WokenUp(x, tags).waits = x.waits \ tags
         /\ WokenUp(x, tags).kind = x.kind /\ WokenUp(x, tags).log = x.log
         /\ WokenUp(x, tags).dst = x.dst /\ WokenUp(x, tags).slot = x.slot
         /\ WokenUp(x, tags).read = x.read /\ WokenUp(x, tags).prediction = x.prediction
         /\ WokenUp(x, tags).at = x.at /\ WokenUp(x, tags).srcs = x.srcs
         /\ WokenUp(x, tags).sub = x.sub /\ WokenUp(x, tags).lane = x.lane
         /\ WokenUp(x, tags).val_misp = x.val_misp
BY DEF WokenUp, Instruction

\* When nothing is left to be written in the execute stages, sources that are ready are written.
LEMMA SourcesWritten ==
  ASSUME NEW n \in Nat, NEW w \in Seq(Instruction), n = Len(w), NEW map \in [LogReg -> Reg],
         NEW rdy, NEW regs,
         SourcesMapped(w, n, map), ReadyInTime(w, n, map, rdy), ContentsKnown(w, n, map, regs),
         \A j \in 1..n : ~Pending(w[j]),
         NEW i \in 1..n, w[i].waits = {}, NEW r \in w[i].srcs
  PROVE  regs[r] # "stale"
<1>1. PICK l \in LogReg : MappedAt(w, map, l, i, r)
  BY DEF SourcesMapped
<1>2. rdy[r] /\ r \in Reg
  <2>1. w[i].waits = {s \in w[i].srcs : ~rdy[s]}
    BY DEF ReadyInTime
  <2>2. r \in Reg
    BY InstructionsIn
  <2> QED BY <2>1, <2>2
<1>3. CASE map[l] = r
  BY <1>3 DEF ContentsKnown
<1>4. CASE \E j \in 1..(i - 1) : w[j].dst = r
  <2>1. PICK j \in 1..n : w[j].dst = r
    BY <1>4
  <2>2. r # NoReg
    BY <1>2, SchedulerAssumption
  <2>3. regs[r] = Written(w[j])
    BY <2>1, <2>2 DEF ContentsKnown
  <2>4. Executed(w[j]) \/ w[j].prediction # "none"
    BY <1>2, <2>1, <2>2 DEF ReadyInTime
  <2>5. w[j].prediction \in {"none", "right", "wrong"}
    BY InstructionsIn
  <2> QED BY <2>3, <2>4, <2>5 DEF Written, Computed
<1> QED BY <1>1, <1>3, <1>4 DEF MappedAt

\* Before registers are read, nothing waits for writeback that could not leave it in time.
LEMMA InCycleEarly ==
  ASSUME NEW n \in Nat, NEW w \in Seq(Instruction), n = Len(w), NEW map \in [LogReg -> Reg],
         NEW rdy, NEW regs, NEW k \in 0..(Len(Order) - 1), NEW st,
         \A i \in 1..n : FieldsAgree(w[i]),
         SourcesMapped(w, n, map), ReadyInTime(w, n, map, rdy), ContentsKnown(w, n, map, regs),
         k < ExecuteStage, StageAfter(k, st, w, n),
         \A i \in 1..n : w[i].at = "wb" => k < WritebackOf(w[i].lane)
  PROVE  InCycle(w, n, regs, st)
<1>1. PICK d \in Nat : d = Len(Depth) /\ Lanes = 1..d /\ Len(Order) = d + 6
  BY OrderIs
<1>2. st \in Nat
  BY DEF StageAfter
<1>3. ASSUME NEW i \in 1..n, w[i].at = "wb" PROVE st <= WritebackOf(w[i].lane)
  <2>1. w[i].lane \in Nat
    BY <1>1, InstructionsIn
  <2>2. ~(WritebackOf(w[i].lane) < st)
    BY <1>3 DEF StageAfter
  <2> QED BY <1>2, <2>1, <2>2 DEF WritebackOf
<1>4. ASSUME st = ReadStage, NEW i \in 1..n
      PROVE  w[i].at # "ex" /\ (w[i].at = "rr" => \A r \in w[i].srcs : regs[r] # "stale")
  <2>1. ExecuteStage < st
    BY <1>1, <1>4 DEF ExecuteStage, ReadStage
  <2>2. \A j \in 1..n : w[j].at # "ex"
    BY <2>1 DEF StageAfter
  <2>3. \A j \in 1..n : ~Pending(w[j])
    BY <2>2 DEF Pending
  <2>4. ASSUME w[i].at = "rr", NEW r \in w[i].srcs PROVE regs[r] # "stale"
    <3>1. w[i].waits = {}
      BY <2>4 DEF FieldsAgree
    <3> QED BY <2>3, <2>4, <3>1, SourcesWritten
  <2> QED BY <2>2, <2>4
<1> QED BY <1>3, <1>4 DEF InCycle

-----------------------------------------------------------------------------
(* Writeback *)

\* An instruction leaves its lane, complete.
LEMMA WritebackStep ==
  ASSUME Scheduled, NEW lane \in Lanes, Writeback(lane)
  PROVE  Scheduled'
<1>1. PICK n \in Nat, w \in Seq(Instruction) : w = inflight /\ n = Len(w)
  BY InstructionsIn DEF Scheduled, TypeOK
<1>2. /\ \A i \in 1..n : FieldsAgree(w[i])
      /\ RegistersApart(w, n, amt) /\ SourcesMapped(w, n, amt) /\ ReadyInTime(w, n, amt, ready)
      /\ ContentsKnown(w, n, amt, prf) /\ WrongBehindSuspect(w, n) /\ LanesFlow(w, n)
      /\ InCycle(w, n, prf, stage) /\ SlotsHeld(w, n, IQ)
  BY <1>1 DEF Scheduled, Consistent
<1>3. \A i \in 1..n : /\ w[i] \in Instruction /\ w[i].srcs \in SUBSET Reg
                      /\ w[i].dst \in Reg \cup {NoReg} /\ w[i].lane \in Lanes
  BY <1>1, InstructionsIn
<1>4. PICK w2 \in Seq(Instruction) :
        /\ w2 = inflight' /\ Len(w2) = n
        /\ \A i \in 1..n : w2[i] = IF w[i].at = "wb" /\ w[i].lane = lane THEN Completed(w[i]) ELSE w[i]
  <2> DEFINE f == [i \in 1..n |-> IF w[i].at = "wb" /\ w[i].lane = lane THEN Completed(w[i]) ELSE w[i]]
  <2>1. f \in [1..n -> Instruction]
    BY <1>3, CompletedIs
  <2>2. f = inflight'
    BY <1>1 DEF Writeback
  <2>3. \A i \in 1..n : f[i] = IF w[i].at = "wb" /\ w[i].lane = lane THEN Completed(w[i]) ELSE w[i]
    OBVIOUS
  <2> HIDE DEF f
  <2> QED BY <2>1, <2>2, <2>3, FunctionIsSequence
<1>5. stage = WritebackOf(lane) /\ stage \in 1..(Len(Order) - 1) /\ stage < ExecuteStage
  <2>1. stage = WritebackOf(lane)
    BY StageIs DEF Scheduled, TypeOK, Writeback
  <2> QED BY <2>1, OrderIs DEF WritebackOf, ExecuteStage
<1>6. StageAfter(stage, stage', w2, n)
  <2>1. stage' = Behind(stage, w2)
    BY <1>4 DEF Writeback, NextStage
  <2>2. stage \in 0..(Len(Order) - 1)
    BY <1>5, OrderIs
  <2> QED BY <1>4, <2>1, <2>2, BehindIs
<1>7. /\ UNCHANGED <<iqVars, part_next, amt, regVars>>
      /\ amt \in [LogReg -> Reg] /\ ready \in [Reg -> BOOLEAN] /\ prf \in [Reg -> Content]
  BY DEF Writeback, Scheduled, TypeOK
<1>8. TypeOK'
  BY <1>1, <1>4, <1>6, <1>7 DEF Scheduled, TypeOK, StageAfter, iqVars, regVars
<1>9. ASSUME NEW i \in 1..n
      PROVE  \/ w2[i] = w[i] /\ (w[i].at = "wb" => w[i].lane # lane)
             \/ /\ w[i].at = "wb" /\ w2[i].at = "done" /\ w2[i].srcs = {} /\ w2[i].sub = 0
                /\ w2[i].log = w[i].log /\ w2[i].dst = w[i].dst /\ w2[i].waits = w[i].waits
                /\ w2[i].prediction = w[i].prediction /\ w2[i].read = w[i].read
                /\ w2[i].val_misp = w[i].val_misp
  <2>1. CASE w[i].at = "wb" /\ w[i].lane = lane
    BY <1>3, <1>4, <2>1, CompletedIs
  <2>2. CASE ~(w[i].at = "wb" /\ w[i].lane = lane)
    BY <1>4, <2>2
  <2> QED BY <2>1, <2>2
<1>10. ASSUME NEW i \in 1..n PROVE FieldsAgree(w2[i])
  <2>1. FieldsAgree(w[i])
    BY <1>2
  <2>2. CASE w2[i] = w[i]
    BY <2>1, <2>2
  <2>3. CASE w2[i] # w[i]
    <3>1. /\ w[i].at = "wb" /\ w2[i].at = "done" /\ w2[i].srcs = {} /\ w2[i].sub = 0
          /\ w2[i].log = w[i].log /\ w2[i].dst = w[i].dst /\ w2[i].waits = w[i].waits
          /\ w2[i].prediction = w[i].prediction /\ w2[i].read = w[i].read
          /\ w2[i].val_misp = w[i].val_misp
      BY <1>9, <2>3
    <3> QED BY <2>1, <3>1 DEF FieldsAgree, Executed
  <2> QED BY <2>2, <2>3
<1>11. RegistersApart(w2, n, amt) /\ SourcesMapped(w2, n, amt)
  <2>1. \A i \in 1..n : w2[i].log = w[i].log /\ w2[i].dst = w[i].dst /\ w2[i].srcs \subseteq w[i].srcs
    BY <1>9
  <2> QED BY <1>2, <2>1, MapsKept
<1>12. ReadyInTime(w2, n, amt, ready)
  <2>1. \A i \in 1..n : w[i].at = "wb" => w[i].waits = {}
    BY <1>2 DEF FieldsAgree
  <2>2. PICK S \in SUBSET (1..n) : S = {}
    OBVIOUS
  <2>3. PICK tags : tags = {w[i].dst : i \in S} \ {NoReg}
    OBVIOUS
  <2>4. tags = {} /\ \A r \in Reg : ready[r] <=> ready[r] \/ r \in tags
    BY <2>2, <2>3
  <2>5. \A i \in 1..n : ReadyLater(w[i], w2[i], tags, i \in S)
    BY <1>9, <2>1, <2>2, <2>4 DEF ReadyLater, Executed, Pending
  <2>6. Wake(w, w2, n, S, tags, ready, ready)
    BY <2>3, <2>4, <2>5 DEF Wake
  <2> QED BY <1>1, <1>2, <1>7, <2>6, ReadyUpdated
<1>13. ContentsKnown(w2, n, amt, prf)
  <2>1. \A i \in 1..n : w2[i].dst = w[i].dst /\ Written(w2[i]) = Written(w[i])
    BY <1>9 DEF Written, Executed, Computed
  <2> QED BY <1>2, <2>1 DEF ContentsKnown
<1>14. WrongBehindSuspect(w2, n)
  <2>1. \A i \in 1..n : w2[i].read = w[i].read /\ (Suspect(w[i]) => Suspect(w2[i]))
    BY <1>9 DEF Suspect
  <2> QED BY <1>2, <2>1, SuspectsStay
<1>15. LanesFlow(w2, n)
  <2>1. \A i \in 1..n : w2[i].at \in {"rr", "ex", "wb"} => w2[i] = w[i]
    BY <1>9
  <2> QED BY <1>2, <2>1, LanesEmptied
<1>16. InCycle(w2, n, prf, stage')
  <2>1. ASSUME NEW i \in 1..n, w2[i].at = "wb" PROVE stage < WritebackOf(w2[i].lane)
    <3>1. w[i].at = "wb" /\ w[i].lane # lane /\ w2[i].lane = w[i].lane
      BY <1>9, <2>1
    <3>2. stage <= WritebackOf(w[i].lane)
      BY <1>2, <1>5, <3>1, OrderIs DEF InCycle, ExecuteStage
    <3>3. w[i].lane \in 1..Len(Depth) /\ lane \in 1..Len(Depth) /\ Len(Depth) \in Nat
      BY <1>3, OrderIs
    <3> QED BY <1>5, <3>1, <3>2, <3>3 DEF WritebackOf
  <2>2. stage \in 0..(Len(Order) - 1)
    BY <1>5, OrderIs
  <2> QED BY <1>4, <1>5, <1>6, <1>7, <1>10, <1>11, <1>12, <1>13, <2>1, <2>2, InCycleEarly
<1>17. SlotsHeld(w2, n, IQ)
  <2>1. \A i \in 1..n : /\ w2[i].at = "iq" <=> w[i].at = "iq"
                        /\ w[i].at = "iq" => w2[i].slot = w[i].slot
    BY <1>9
  <2> QED BY <1>2, <2>1, SlotsKept
<1>18. amt' = amt /\ ready' = ready /\ prf' = prf /\ IQ' = IQ
  BY <1>7 DEF regVars, iqVars, IQ
<1> QED BY <1>4, <1>8, <1>10, <1>11, <1>12, <1>13, <1>14, <1>15, <1>16, <1>17, <1>18 DEF Scheduled, Consistent

\* No stalled load gets its value, or the cycle ends.
LEMMA StageStep ==
  ASSUME Scheduled, ReplayNothing \/ EndOfCycle
  PROVE  Scheduled'
<1>1. PICK n \in Nat, w \in Seq(Instruction) : w = inflight /\ n = Len(w)
  BY InstructionsIn DEF Scheduled, TypeOK
<1>2. /\ \A i \in 1..n : FieldsAgree(w[i])
      /\ RegistersApart(w, n, amt) /\ SourcesMapped(w, n, amt) /\ ReadyInTime(w, n, amt, ready)
      /\ ContentsKnown(w, n, amt, prf) /\ WrongBehindSuspect(w, n) /\ LanesFlow(w, n)
      /\ InCycle(w, n, prf, stage) /\ SlotsHeld(w, n, IQ)
  BY <1>1 DEF Scheduled, Consistent
<1>3. PICK k \in 0..(Len(Order) - 1) :
        /\ k = 0 \/ (k = stage /\ stage = Len(Depth) + 2)
        /\ stage' = Behind(k, w)
        /\ UNCHANGED <<iqVars, part_next, inflight, amt, regVars>>
  <2>1. CASE ReplayNothing
    <3>1. stage = Len(Depth) + 2
      BY <2>1, StageIs DEF Scheduled, TypeOK, ReplayNothing
    <3>2. stage \in 0..(Len(Order) - 1)
      BY <3>1, OrderIs
    <3> QED BY <1>1, <2>1, <3>1, <3>2 DEF ReplayNothing
  <2>2. CASE EndOfCycle
    <3>1. 0 \in 0..(Len(Order) - 1)
      BY OrderIs
    <3> QED BY <1>1, <2>2, <3>1 DEF EndOfCycle
  <2> QED BY <2>1, <2>2
<1>4. StageAfter(k, stage', w, n)
  BY <1>1, <1>3, BehindIs
<1>5. amt' = amt /\ ready' = ready /\ prf' = prf /\ IQ' = IQ /\ inflight' = w /\ part_next' = part_next
  BY <1>1, <1>3 DEF regVars, iqVars, IQ
<1>6. TypeOK'
  BY <1>1, <1>3, <1>4, <1>5 DEF Scheduled, TypeOK, StageAfter, iqVars, regVars
<1>7. InCycle(w, n, prf, stage')
  <2>1. k < ExecuteStage
    BY <1>3, OrderIs DEF ExecuteStage
  <2>2. ASSUME NEW i \in 1..n, w[i].at = "wb" PROVE k < WritebackOf(w[i].lane)
    <3>1. w[i].lane \in 1..Len(Depth) /\ Len(Depth) \in Nat
      BY <1>1, InstructionsIn, OrderIs
    <3>2. stage \in Nat
      BY DEF Scheduled, TypeOK
    <3>3. stage <= WritebackOf(w[i].lane) \/ stage > ExecuteStage
      BY <1>2, <2>2 DEF InCycle
    <3> QED BY <1>3, <3>1, <3>2, <3>3 DEF WritebackOf, ExecuteStage
  <2>3. amt \in [LogReg -> Reg]
    BY DEF Scheduled, TypeOK
  <2> QED BY <1>1, <1>2, <1>4, <2>1, <2>2, <2>3, InCycleEarly
<1> QED BY <1>1, <1>2, <1>5, <1>6, <1>7 DEF Scheduled, Consistent

\* Nothing at all happens.
LEMMA StutterStep ==
  ASSUME Scheduled, UNCHANGED vars
  PROVE  Scheduled'
<1>1. /\ fl' = fl /\ fl_head' = fl_head /\ fl_tail' = fl_tail /\ fl_length' = fl_length
      /\ age_list' = age_list /\ part_next' = part_next /\ inflight' = inflight /\ amt' = amt
      /\ ready' = ready /\ prf' = prf /\ stage' = stage
  BY DEF vars, iqVars, regVars
<1>2. TypeOK'
  BY <1>1 DEF Scheduled, TypeOK
<1>3. IQ' = IQ
  BY <1>1 DEF IQ
<1> QED BY <1>1, <1>2, <1>3 DEF Scheduled

-----------------------------------------------------------------------------
(* Replay *)

\* An instruction executes: its value is checked.
LEMMA FinishingIs ==
  ASSUME NEW x \in Instruction, NEW y \in Instruction, NEW differ \in BOOLEAN, NEW tags,
         FieldsAgree(x), x.at \in {"ex", "lsu"}, Executed(y),
         y.srcs = {}, y.waits = x.waits, y.sub = 0, y.prediction = "none",
         y.log = x.log, y.dst = x.dst, y.read = x.read,
         y.val_misp <=> Mispredicted(x, Computed(x), differ)
  PROVE  /\ FieldsAgree(y) /\ ReadyLater(x, y, tags, TRUE) /\ Written(y) = Computed(x)
         /\ Suspect(x) /\ x.read \notin {"wrong", "stale"} => Suspect(y)
<1>1. x.waits = {} /\ ~x.val_misp /\ (x.prediction # "none" => x.dst # NoReg)
  BY DEF FieldsAgree, Executed
<1>2. y.at \in {"wb", "done"}
  BY DEF Executed
<1>3. y.val_misp => x.prediction # "none"
  BY DEF Mispredicted
<1>4. FieldsAgree(y)
  <2>1. x.dst = NoReg <=> x.log = NoReg
    BY DEF FieldsAgree
  <2> QED BY <1>1, <1>2, <1>3, <2>1 DEF FieldsAgree, Executed
<1>5. ReadyLater(x, y, tags, TRUE)
  BY <1>1 DEF ReadyLater
<1>6. Written(y) = Computed(x)
  BY DEF Written, Computed
<1>7. ASSUME Suspect(x), x.read \notin {"wrong", "stale"} PROVE Suspect(y)
  <2>1. x.prediction = "wrong"
    BY <1>1, <1>7 DEF Suspect
  <2>2. Computed(x) = "right"
    BY <1>7 DEF Computed, Instruction, Content
  <2> QED BY <2>1, <2>2 DEF Suspect, Mispredicted
<1> QED BY <1>4, <1>5, <1>6, <1>7

\* An instruction is woken up, or is not concerned.
Waking(x, y, tags) ==
  /\ FieldsAgree(y) /\ ReadyLater(x, y, tags, FALSE) /\ Written(y) = Written(x)
  /\ y.log = x.log /\ y.dst = x.dst /\ y.srcs = x.srcs /\ y.slot = x.slot /\ y.at = x.at
  /\ y.lane = x.lane /\ y.sub = x.sub /\ y.read = x.read /\ (Suspect(x) => Suspect(y))

\* It only waits for less.
LEMMA WakingIs ==
  ASSUME NEW x \in Instruction, NEW tags, FieldsAgree(x)
  PROVE  Waking(x, WokenUp(x, tags), tags)
<1>0. PICK y : y = WokenUp(x, tags)
  OBVIOUS
<1>1. /\ y.waits = x.waits \ tags
      /\ y.kind = x.kind /\ y.log = x.log /\ y.dst = x.dst /\ y.slot = x.slot
      /\ y.read = x.read /\ y.prediction = x.prediction
      /\ y.at = x.at /\ y.srcs = x.srcs /\ y.sub = x.sub /\ y.lane = x.lane
      /\ y.val_misp = x.val_misp
  BY <1>0, WokenUpIs
<1>2. FieldsAgree(y)
  BY <1>1 DEF FieldsAgree, Executed
<1>3. ReadyLater(x, y, tags, FALSE)
  BY <1>1 DEF ReadyLater, Executed, Pending
<1>4. Written(y) = Written(x) /\ (Suspect(x) => Suspect(y))
  BY <1>1 DEF Written, Executed, Computed, Suspect
<1> QED BY <1>0, <1>1, <1>2, <1>3, <1>4 DEF Waking

\* A stalled load has its value.
LEMMA ReplayStep ==
  ASSUME Scheduled, NEW i \in 1..Len(inflight), NEW differ \in BOOLEAN, Replay(i, differ)
  PROVE  Scheduled'
<1>1. PICK n \in Nat, w \in Seq(Instruction) : w = inflight /\ n = Len(w)
  BY InstructionsIn DEF Scheduled, TypeOK
<1>2. /\ \A j \in 1..n : FieldsAgree(w[j])
      /\ RegistersApart(w, n, amt) /\ SourcesMapped(w, n, amt) /\ ReadyInTime(w, n, amt, ready)
      /\ ContentsKnown(w, n, amt, prf) /\ WrongBehindSuspect(w, n) /\ LanesFlow(w, n)
      /\ InCycle(w, n, prf, stage) /\ SlotsHeld(w, n, IQ)
  BY <1>1 DEF Scheduled, Consistent
<1>3. /\ i \in 1..n /\ w[i].at = "lsu"
      /\ \A j \in 1..n : /\ w[j] \in Instruction /\ w[j].srcs \in SUBSET Reg
                         /\ w[j].dst \in Reg \cup {NoReg} /\ w[j].lane \in Lanes
                         /\ w[j].prediction \in {"none", "right", "wrong"}
  BY <1>1, InstructionsIn DEF Replay
<1>4. PICK tags : tags = Tags({i}) /\ tags = {w[j].dst : j \in {i}} \ {NoReg}
  BY <1>1 DEF Tags
<1>5. PICK w2 \in Seq(Instruction) :
        /\ w2 = inflight' /\ Len(w2) = n
        /\ \A j \in 1..n : w2[j] = IF j = i THEN Completed(Checked(w[i], differ)) ELSE WokenUp(w[j], tags)
  <2> DEFINE f == [j \in 1..n |-> IF j = i THEN Completed(Checked(w[i], differ)) ELSE WokenUp(w[j], tags)]
  <2>1. f \in [1..n -> Instruction]
    BY <1>3, CompletedIs, CheckedIs, WokenUpIs
  <2>2. f = inflight'
    BY <1>1, <1>4 DEF Replay
  <2>3. \A j \in 1..n : f[j] = IF j = i THEN Completed(Checked(w[i], differ)) ELSE WokenUp(w[j], tags)
    OBVIOUS
  <2> HIDE DEF f
  <2> QED BY <2>1, <2>2, <2>3, FunctionIsSequence
<1>6. stage = Len(Depth) + 2 /\ stage \in 0..(Len(Order) - 1) /\ stage < ExecuteStage
  <2>1. stage = Len(Depth) + 2
    BY StageIs DEF Scheduled, TypeOK, Replay
  <2> QED BY <2>1, OrderIs DEF ExecuteStage
<1>7. StageAfter(stage, stage', w2, n)
  <2>1. stage' = Behind(stage, w2)
    BY <1>5 DEF Replay, NextStage
  <2> QED BY <1>5, <1>6, <2>1, BehindIs
<1>8. /\ UNCHANGED <<iqVars, part_next, amt>>
      /\ amt \in [LogReg -> Reg] /\ ready \in [Reg -> BOOLEAN] /\ prf \in [Reg -> Content]
      /\ ready' = [r \in Reg |-> ready[r] \/ r \in tags]
      /\ prf' = [r \in Reg |-> IF r = w[i].dst THEN Computed(w[i]) ELSE prf[r]]
  BY <1>1, <1>4 DEF Replay, SetReady, Scheduled, TypeOK
<1>9. TypeOK'
  <2>1. ready' \in [Reg -> BOOLEAN] /\ prf' \in [Reg -> Content]
    BY <1>8 DEF Content, Computed
  <2> QED BY <1>1, <1>5, <1>7, <1>8, <2>1 DEF Scheduled, TypeOK, StageAfter, iqVars
<1>10. /\ w2[i].at = "done" /\ w2[i].srcs = {} /\ w2[i].sub = 0 /\ w2[i].prediction = "none"
       /\ w2[i].log = w[i].log /\ w2[i].dst = w[i].dst /\ w2[i].waits = w[i].waits
       /\ w2[i].read = w[i].read /\ w2[i].slot = w[i].slot
       /\ (w2[i].val_misp <=> Mispredicted(w[i], Computed(w[i]), differ))
  <2>1. PICK x \in Instruction : x = Checked(w[i], differ)
    BY <1>3, CheckedIs
  <2>2. w2[i] = Completed(x)
    BY <1>3, <1>5, <2>1
  <2>3. /\ x.prediction = "none" /\ x.log = w[i].log /\ x.dst = w[i].dst /\ x.waits = w[i].waits
        /\ x.read = w[i].read /\ x.slot = w[i].slot /\ (x.val_misp <=> Mispredicted(w[i], Computed(w[i]), differ))
    BY <1>3, <2>1, CheckedIs
  <2> QED BY <2>2, <2>3, CompletedIs
<1>11. /\ FieldsAgree(w2[i]) /\ ReadyLater(w[i], w2[i], tags, TRUE) /\ Written(w2[i]) = Computed(w[i])
       /\ Suspect(w[i]) /\ w[i].read \notin {"wrong", "stale"} => Suspect(w2[i])
  <2>1. PICK x \in Instruction, y \in Instruction : x = w[i] /\ y = w2[i]
    BY <1>3, <1>5, InstructionsIn
  <2>2. FieldsAgree(x) /\ x.at \in {"ex", "lsu"} /\ Executed(y)
    BY <1>2, <1>3, <1>10, <2>1 DEF Executed
  <2>3. /\ y.srcs = {} /\ y.waits = x.waits /\ y.sub = 0 /\ y.prediction = "none"
        /\ y.log = x.log /\ y.dst = x.dst /\ y.read = x.read
        /\ (y.val_misp <=> Mispredicted(x, Computed(x), differ))
    BY <1>10, <2>1
  <2>4. /\ FieldsAgree(y) /\ ReadyLater(x, y, tags, TRUE) /\ Written(y) = Computed(x)
        /\ (Suspect(x) /\ x.read \notin {"wrong", "stale"} => Suspect(y))
    BY <2>2, <2>3, FinishingIs
  <2> QED BY <2>1, <2>4
<1>12. ASSUME NEW j \in 1..n, j # i
       PROVE  /\ FieldsAgree(w2[j]) /\ ReadyLater(w[j], w2[j], tags, FALSE)
              /\ Written(w2[j]) = Written(w[j])
              /\ w2[j].log = w[j].log /\ w2[j].dst = w[j].dst /\ w2[j].srcs = w[j].srcs
              /\ w2[j].slot = w[j].slot /\ w2[j].at = w[j].at /\ w2[j].lane = w[j].lane
              /\ w2[j].sub = w[j].sub /\ w2[j].read = w[j].read /\ (Suspect(w[j]) => Suspect(w2[j]))
  <2>1. w2[j] = WokenUp(w[j], tags) /\ w[j] \in Instruction /\ FieldsAgree(w[j])
    BY <1>2, <1>3, <1>5, <1>12
  <2>2. Waking(w[j], w2[j], tags)
    BY <2>1, WakingIs
  <2> QED BY <2>2 DEF Waking
<1>13. ASSUME NEW j \in 1..n PROVE FieldsAgree(w2[j])
  BY <1>11, <1>12
<1>14. RegistersApart(w2, n, amt) /\ SourcesMapped(w2, n, amt)
  <2>1. \A j \in 1..n : w2[j].log = w[j].log /\ w2[j].dst = w[j].dst /\ w2[j].srcs \subseteq w[j].srcs
    BY <1>10, <1>12
  <2> QED BY <1>2, <2>1, MapsKept
<1>15. ReadyInTime(w2, n, amt, ready')
  <2>1. PICK S \in SUBSET (1..n) : S = {i}
    BY <1>3
  <2>2. tags = {w[j].dst : j \in S} \ {NoReg}
    BY <1>4, <2>1
  <2>3. ASSUME NEW j \in 1..n PROVE ReadyLater(w[j], w2[j], tags, j \in S)
    <3>1. (j \in S) = (j = i)
      BY <2>1
    <3>2. CASE j = i
      BY <1>11, <3>1, <3>2 DEF ReadyLater
    <3>3. CASE j # i
      BY <1>12, <3>1, <3>3 DEF ReadyLater
    <3> QED BY <3>2, <3>3
  <2>6. PICK rdy2 : rdy2 = ready'
    OBVIOUS
  <2>4. \A r \in Reg : rdy2[r] <=> ready[r] \/ r \in tags
    BY <1>8, <2>6
  <2>7. Wake(w, w2, n, S, tags, ready, rdy2)
    BY <2>2, <2>3, <2>4 DEF Wake
  <2>5. ReadyInTime(w2, n, amt, rdy2)
    BY <1>1, <1>2, <1>8, <2>7, ReadyUpdated
  <2> QED BY <2>5, <2>6
<1>16. ContentsKnown(w2, n, amt, prf')
  <2>1. PICK F \in SUBSET (1..n) : F = {i}
    BY <1>3
  <2>7. PICK regs2 : regs2 = prf'
    OBVIOUS
  <2>2. \A j \in 1..n : w[j].dst \in Reg \cup {NoReg} /\ w2[j].dst = w[j].dst
    BY <1>3, <1>10, <1>12
  <2>3. \A j \in F : w[j].dst # NoReg => regs2[w[j].dst] = Written(w2[j])
    BY <1>3, <1>8, <1>11, <2>1, <2>7
  <2>4. \A r \in Reg : (\A j \in F : w[j].dst # r) => regs2[r] = prf[r]
    BY <1>8, <2>1, <2>7
  <2>5. \A j \in 1..n : j \notin F => Written(w2[j]) = Written(w[j])
    BY <1>12, <2>1
  <2>8. Write(w, w2, n, F, prf, regs2)
    BY <2>2, <2>3, <2>4, <2>5 DEF Write
  <2>6. ContentsKnown(w2, n, amt, regs2)
    BY <1>1, <1>2, <1>8, <2>8, ContentsUpdated
  <2> QED BY <2>6, <2>7
<1>17. WrongBehindSuspect(w2, n)
  <2>1. ASSUME NEW j \in 1..n
        PROVE  /\ w2[j].read = w[j].read
               /\ Suspect(w[j]) /\ w[j].read \notin {"wrong", "stale"} => Suspect(w2[j])
    <3>1. CASE j = i
      BY <1>10, <1>11, <3>1
    <3>2. CASE j # i
      BY <1>12, <3>2
    <3> QED BY <3>1, <3>2
  <2> QED BY <1>2, <2>1, SuspectsStay
<1>18. LanesFlow(w2, n)
  <2>1. \A j \in 1..n : w2[j].at \in {"rr", "ex", "wb"} =>
          w2[j].at = w[j].at /\ w2[j].lane = w[j].lane /\ w2[j].sub = w[j].sub
    BY <1>10, <1>12
  <2> QED BY <1>2, <2>1, LanesEmptied
<1>19. InCycle(w2, n, prf', stage')
  <2>1. ASSUME NEW j \in 1..n, w2[j].at = "wb" PROVE stage < WritebackOf(w2[j].lane)
    <3>1. j # i
      BY <1>10, <2>1
    <3>2. w[j].at = "wb" /\ w[j].lane \in 1..Len(Depth) /\ Len(Depth) \in Nat
      BY <1>3, <1>12, <2>1, <3>1, OrderIs
    <3>3. stage <= WritebackOf(w[j].lane) \/ stage > ExecuteStage
      BY <1>2, <3>2 DEF InCycle
    <3> QED BY <1>6, <3>2, <3>3 DEF WritebackOf, ExecuteStage
  <2>2. PICK regs2, rdy2, st : regs2 = prf' /\ rdy2 = ready' /\ st = stage'
    OBVIOUS
  <2>3. ReadyInTime(w2, n, amt, rdy2) /\ ContentsKnown(w2, n, amt, regs2) /\ StageAfter(stage, st, w2, n)
    BY <1>7, <1>15, <1>16, <2>2
  <2>4. InCycle(w2, n, regs2, st)
    BY <1>5, <1>6, <1>8, <1>13, <1>14, <2>1, <2>3, InCycleEarly
  <2> QED BY <2>2, <2>4
<1>20. SlotsHeld(w2, n, IQ)
  <2>1. \A j \in 1..n : /\ w2[j].at = "iq" <=> w[j].at = "iq"
                        /\ w[j].at = "iq" => w2[j].slot = w[j].slot
    BY <1>3, <1>10, <1>12
  <2> QED BY <1>2, <2>1, SlotsKept
<1>21. amt' = amt /\ IQ' = IQ
  BY <1>8 DEF iqVars, IQ
<1> QED BY <1>5, <1>9, <1>13, <1>14, <1>15, <1>16, <1>17, <1>18, <1>19, <1>20, <1>21 DEF Scheduled, Consistent

-----------------------------------------------------------------------------
(* Execute *)

\* What an instruction need not wait for is committed, or an older instruction's that has it or
\* will have it in time.
LEMMA SourceIs ==
  ASSUME NEW n \in Nat, NEW w, NEW map, NEW rdy, SourcesMapped(w, n, map), ReadyInTime(w, n, map, rdy),
         NEW i \in 1..n, w[i].waits = {}, NEW r \in Reg, r \in w[i].srcs
  PROVE  \/ \E l \in LogReg : map[l] = r
         \/ \E j \in 1..(i - 1) : /\ w[j].dst = r /\ r # NoReg
                                  /\ Executed(w[j]) \/ Pending(w[j]) \/ w[j].prediction # "none"
<1>1. PICK l \in LogReg : MappedAt(w, map, l, i, r)
  BY DEF SourcesMapped
<1>2. rdy[r]
  <2>1. w[i].waits = {s \in w[i].srcs : ~rdy[s]}
    BY DEF ReadyInTime
  <2> QED BY <2>1
<1>3. CASE map[l] = r
  BY <1>3
<1>4. CASE \E j \in 1..(i - 1) : w[j].dst = r
  <2>1. PICK j \in 1..(i - 1) : w[j].dst = r
    BY <1>4
  <2>2. r # NoReg
    BY <1>2, SchedulerAssumption
  <2>3. j \in 1..n
    BY <2>1
  <2>4. Executed(w[j]) \/ Pending(w[j]) \/ w[j].prediction # "none"
    BY <1>2, <2>1, <2>2, <2>3 DEF ReadyInTime
  <2> QED BY <2>1, <2>2, <2>4
<1> QED BY <1>1, <1>3, <1>4 DEF MappedAt

\* An instruction that has executed, a load that stalls, and one that moves on in its lane.
Finished(x, differ) == [Checked(x, differ) EXCEPT !.at = "wb", !.sub = 0]
Stalled(x) == [x EXCEPT !.at = "lsu", !.lane = 1, !.sub = 0]
Moved(x) == [x EXCEPT !.sub = @ + 1]

\* The fields of an instruction that has executed.
LEMMA FinishedIs ==
  ASSUME NEW x \in Instruction, NEW differ \in BOOLEAN
  PROVE  /\ Finished(x, differ) \in Instruction
         /\ Finished(x, differ).at = "wb" /\ Finished(x, differ).sub = 0
         /\ Finished(x, differ).lane = x.lane
         /\ Finished(x, differ).srcs = x.srcs /\ Finished(x, differ).waits = x.waits
         /\ Finished(x, differ).prediction = "none"
         /\ Finished(x, differ).log = x.log /\ Finished(x, differ).dst = x.dst
         /\ Finished(x, differ).read = x.read
         /\ Finished(x, differ).val_misp <=> Mispredicted(x, Computed(x), differ)
<1>1. PICK z \in Instruction : z = Checked(x, differ)
  BY CheckedIs
<1>2. /\ z.prediction = "none" /\ z.log = x.log /\ z.dst = x.dst /\ z.waits = x.waits
      /\ z.read = x.read /\ z.srcs = x.srcs /\ z.lane = x.lane
      /\ z.val_misp <=> Mispredicted(x, Computed(x), differ)
  BY <1>1, CheckedIs
<1>3. PICK y : y = [z EXCEPT !.at = "wb", !.sub = 0] /\ y = Finished(x, differ)
  BY <1>1 DEF Finished
<1>4. y \in Instruction
  <2>1. "wb" \in Place /\ 0 \in Nat
    BY DEF Place
  <2> QED BY <1>3, <2>1 DEF Instruction
<1>5. /\ y.at = "wb" /\ y.sub = 0 /\ y.lane = z.lane
      /\ y.srcs = z.srcs /\ y.waits = z.waits /\ y.prediction = z.prediction
      /\ y.log = z.log /\ y.dst = z.dst /\ y.read = z.read
  BY <1>3 DEF Instruction
<1>6. y.val_misp = z.val_misp
  BY <1>3 DEF Instruction
<1> QED BY <1>2, <1>3, <1>4, <1>5, <1>6

\* The fields of a load that stalls.
LEMMA StalledIs ==
  ASSUME NEW x \in Instruction
  PROVE  /\ Stalled(x) \in Instruction
         /\ Stalled(x).at = "lsu" /\ Stalled(x).sub = 0 /\ Stalled(x).kind = x.kind
         /\ Stalled(x).srcs = x.srcs /\ Stalled(x).waits = x.waits
         /\ Stalled(x).prediction = x.prediction /\ Stalled(x).log = x.log /\ Stalled(x).dst = x.dst
         /\ Stalled(x).read = x.read /\ Stalled(x).val_misp = x.val_misp
<1>1. 1 \in Lanes
  <2>1. x.lane \in Lanes
    BY DEF Instruction
  <2> QED BY <2>1, OrderIs
<1> QED BY <1>1 DEF Stalled, Instruction, Place

\* The fields of an instruction that moves on in its lane.
LEMMA MovedIs ==
  ASSUME NEW x \in Instruction
  PROVE  /\ Moved(x) \in Instruction
         /\ Moved(x).at = x.at /\ Moved(x).sub = x.sub + 1 /\ Moved(x).lane = x.lane
         /\ Moved(x).srcs = x.srcs /\ Moved(x).waits = x.waits /\ Moved(x).kind = x.kind
         /\ Moved(x).prediction = x.prediction /\ Moved(x).log = x.log /\ Moved(x).dst = x.dst
         /\ Moved(x).read = x.read /\ Moved(x).val_misp = x.val_misp
BY DEF Moved, Instruction

\* What follows for the invariant when an instruction x executes, stalls or moves on as y.
Passing(x, y, tags, sets) ==
  /\ FieldsAgree(y) /\ ReadyLater(x, y, tags, sets)
  /\ y.log = x.log /\ y.dst = x.dst /\ y.srcs \subseteq x.srcs /\ y.read = x.read
  /\ Suspect(x) /\ x.read \notin {"wrong", "stale"} => Suspect(y)

\* In the last stage it executes: a load wakes up its consumers, the others did.
LEMMA FinishedPasses ==
  ASSUME NEW x \in Instruction, NEW differ \in BOOLEAN, NEW tags,
         FieldsAgree(x), x.at = "ex", x.sub + 0 + 1 = Depth[x.lane]
  PROVE  /\ Passing(x, Finished(x, differ), tags, TRUE)
         /\ x.kind # "load" => Passing(x, Finished(x, differ), tags, FALSE)
         /\ Written(Finished(x, differ)) = Computed(x)
<1>1. PICK y \in Instruction : y = Finished(x, differ)
  BY FinishedIs
<1>2. /\ y.at = "wb" /\ y.sub = 0 /\ y.srcs = x.srcs /\ y.waits = x.waits /\ y.prediction = "none"
      /\ y.log = x.log /\ y.dst = x.dst /\ y.read = x.read
      /\ y.val_misp <=> Mispredicted(x, Computed(x), differ)
  BY <1>1, FinishedIs
<1>3. x.srcs = {} /\ y.srcs = {} /\ x.at \in {"ex", "lsu"}
  BY <1>2 DEF FieldsAgree
<1>4. Executed(y)
  BY <1>2 DEF Executed
<1>5. /\ FieldsAgree(y) /\ ReadyLater(x, y, tags, TRUE) /\ Written(y) = Computed(x)
      /\ Suspect(x) /\ x.read \notin {"wrong", "stale"} => Suspect(y)
  BY <1>2, <1>3, <1>4, FinishingIs
<1>6. ASSUME x.kind # "load" PROVE ReadyLater(x, y, tags, FALSE)
  <2>1. x.sub \in Nat
    BY DEF Instruction
  <2>2. Pending(x)
    BY <1>6, <2>1 DEF Pending
  <2>3. /\ y.dst = x.dst
        /\ \/ y.srcs = x.srcs /\ y.waits = x.waits \ tags
           \/ y.srcs = {} /\ y.waits = {}
    BY <1>5 DEF ReadyLater
  <2> QED BY <1>4, <2>2, <2>3 DEF ReadyLater
<1>7. Passing(x, y, tags, TRUE)
  BY <1>2, <1>5 DEF Passing
<1>8. x.kind # "load" => Passing(x, y, tags, FALSE)
  BY <1>6, <1>7 DEF Passing
<1> QED BY <1>1, <1>5, <1>7, <1>8

\* A load stalls.
LEMMA StalledPasses ==
  ASSUME NEW x \in Instruction, NEW tags, FieldsAgree(x), x.at = "ex", x.kind = "load"
  PROVE  Passing(x, Stalled(x), tags, FALSE) /\ Written(Stalled(x)) = Written(x)
<1>1. PICK y \in Instruction : y = Stalled(x)
  BY StalledIs
<1>2. /\ y.at = "lsu" /\ y.sub = 0 /\ y.kind = x.kind
      /\ y.srcs = x.srcs /\ y.waits = x.waits /\ y.prediction = x.prediction
      /\ y.log = x.log /\ y.dst = x.dst /\ y.read = x.read /\ y.val_misp = x.val_misp
  BY <1>1, StalledIs
<1>3. x.srcs = {} /\ x.waits = {} /\ ~Executed(x) /\ ~Executed(y) /\ ~Pending(x) /\ ~Pending(y)
  BY <1>2 DEF FieldsAgree, Executed, Pending
<1>4. FieldsAgree(y)
  BY <1>2, <1>3 DEF FieldsAgree, Executed
<1>5. ReadyLater(x, y, tags, FALSE)
  BY <1>2, <1>3 DEF ReadyLater
<1>6. Written(y) = Written(x) /\ (Suspect(x) => Suspect(y))
  BY <1>2, <1>3 DEF Written, Suspect
<1> QED BY <1>1, <1>2, <1>4, <1>5, <1>6 DEF Passing

\* Before that it moves on, and wakes up its consumers in the last stage but one.
LEMMA MovedPasses ==
  ASSUME NEW x \in Instruction, NEW tags, FieldsAgree(x), x.at = "ex", x.sub + 0 + 1 # Depth[x.lane]
  PROVE  /\ IF x.sub + 1 + 1 = Depth[x.lane] /\ x.kind # "load"
            THEN Passing(x, Moved(x), tags, TRUE) ELSE Passing(x, Moved(x), tags, FALSE)
         /\ Written(Moved(x)) = Written(x)
<1>1. PICK y \in Instruction : y = Moved(x)
  BY MovedIs
<1>2. /\ y.at = x.at /\ y.sub = x.sub + 1 /\ y.lane = x.lane
      /\ y.srcs = x.srcs /\ y.waits = x.waits /\ y.prediction = x.prediction
      /\ y.log = x.log /\ y.dst = x.dst /\ y.read = x.read /\ y.val_misp = x.val_misp
      /\ y.kind = x.kind
  BY <1>1, MovedIs
<1>3. x.srcs = {} /\ x.waits = {} /\ ~Executed(x) /\ ~Executed(y)
  BY <1>2 DEF FieldsAgree, Executed
<1>4. ~Pending(x) /\ (Pending(y) <=> x.sub + 1 + 1 = Depth[x.lane] /\ x.kind # "load")
  <2>1. x.sub \in Nat
    BY DEF Instruction
  <2> QED BY <1>2, <2>1 DEF Pending
<1>5. FieldsAgree(y)
  BY <1>2, <1>3 DEF FieldsAgree, Executed
<1>6. /\ Pending(y) => ReadyLater(x, y, tags, TRUE)
      /\ ~Pending(y) => ReadyLater(x, y, tags, FALSE)
  BY <1>2, <1>3, <1>4 DEF ReadyLater
<1>7. Written(y) = Written(x) /\ (Suspect(x) => Suspect(y))
  BY <1>2, <1>3 DEF Written, Suspect
<1>8. /\ Pending(y) => Passing(x, y, tags, TRUE)
      /\ ~Pending(y) => Passing(x, y, tags, FALSE)
  BY <1>2, <1>5, <1>6, <1>7 DEF Passing
<1> QED BY <1>1, <1>4, <1>7, <1>8

\* The lanes execute.
LEMMA ExecuteStep ==
  ASSUME Scheduled, NEW stalled \in SUBSET {i \in Ahead(0) : inflight[i].kind = "load"},
         NEW differ \in BOOLEAN, Execute(stalled, differ)
  PROVE  Scheduled'
<1>1. PICK n \in Nat, w \in Seq(Instruction) : w = inflight /\ n = Len(w)
  BY InstructionsIn DEF Scheduled, TypeOK
<1>2. /\ \A i \in 1..n : FieldsAgree(w[i])
      /\ RegistersApart(w, n, amt) /\ SourcesMapped(w, n, amt) /\ ReadyInTime(w, n, amt, ready)
      /\ ContentsKnown(w, n, amt, prf) /\ WrongBehindSuspect(w, n) /\ LanesFlow(w, n)
      /\ InCycle(w, n, prf, stage) /\ SlotsHeld(w, n, IQ)
  BY <1>1 DEF Scheduled, Consistent
<1>3. \A i \in 1..n : /\ w[i] \in Instruction /\ w[i].srcs \in SUBSET Reg
                      /\ w[i].dst \in Reg \cup {NoReg} /\ w[i].lane \in Lanes /\ w[i].sub \in Nat
                      /\ w[i].prediction \in {"none", "right", "wrong"}
  BY <1>1, InstructionsIn
<1>4. PICK fin \in SUBSET (1..n) :
        /\ fin = Ahead(0) \ stalled
        /\ fin = {i \in 1..n : w[i].at = "ex" /\ w[i].sub + 0 + 1 = Depth[w[i].lane]} \ stalled
  BY <1>1 DEF Ahead, Instructions
<1>5. \A i \in stalled : /\ i \in 1..n /\ w[i].at = "ex" /\ w[i].kind = "load"
                         /\ w[i].sub + 0 + 1 = Depth[w[i].lane] /\ i \notin fin
  BY <1>1, <1>4 DEF Ahead, Instructions
<1>6. PICK S \in SUBSET (1..n) :
        /\ S = {i \in fin : inflight[i].kind = "load"} \cup {i \in Ahead(1) : inflight[i].kind # "load"}
        /\ S = {i \in fin : w[i].kind = "load"}
                 \cup {i \in 1..n : /\ w[i].at = "ex" /\ w[i].sub + 1 + 1 = Depth[w[i].lane]
                                    /\ w[i].kind # "load"}
  BY <1>1 DEF Ahead, Instructions
<1>7. PICK tags : tags = Tags(S) /\ tags = {w[i].dst : i \in S} \ {NoReg}
  BY <1>1 DEF Tags
<1>8. /\ Running("execute") /\ UNCHANGED <<iqVars, part_next, amt>>
      /\ ready' = [r \in Reg |-> ready[r] \/ r \in tags]
      /\ stage' = Behind(stage, inflight')
  BY <1>4, <1>6, <1>7 DEF Execute, SetReady, NextStage
<1>8a. prf' = [r \in Reg |-> IF r \in Tags(fin)
                             THEN Computed(w[CHOOSE i \in fin : w[i].dst = r]) ELSE prf[r]]
  <2>1. prf' = [r \in Reg |-> IF r \in Tags(Ahead(0) \ stalled)
                              THEN Computed(inflight[CHOOSE i \in Ahead(0) \ stalled : inflight[i].dst = r])
                              ELSE prf[r]]
    BY DEF Execute
  <2> QED BY <1>1, <1>4, <2>1
<1>9. PICK w2 \in Seq(Instruction) :
        /\ w2 = inflight' /\ Len(w2) = n
        /\ \A i \in 1..n : w2[i] = IF i \in fin THEN Finished(w[i], differ)
                                   ELSE IF i \in stalled THEN Stalled(w[i])
                                   ELSE IF w[i].at = "ex" THEN Moved(w[i]) ELSE WokenUp(w[i], tags)
  <2> DEFINE F(i) == IF i \in fin THEN Finished(w[i], differ)
                     ELSE IF i \in stalled THEN Stalled(w[i])
                     ELSE IF w[i].at = "ex" THEN Moved(w[i]) ELSE WokenUp(w[i], tags)
  <2>1. \A i \in 1..n : F(i) \in Instruction
    BY <1>3, FinishedIs, StalledIs, MovedIs, WokenUpIs
  <2>2. inflight' = [i \in 1..Len(inflight) |-> F(i)]
    BY <1>1, <1>4, <1>6, <1>7 DEF Execute, Finished, Stalled, Moved
  <2> HIDE DEF F
  <2>3. PICK f : f = inflight'
    OBVIOUS
  <2>4. f \in [1..n -> Instruction] /\ \A i \in 1..n : f[i] = F(i)
    BY <1>1, <2>1, <2>2, <2>3
  <2>5. f \in Seq(Instruction) /\ Len(f) = n
    BY <2>4, FunctionIsSequence
  <2> QED BY <2>3, <2>4, <2>5 DEF F
<1>10. stage = ExecuteStage /\ stage \in 0..(Len(Order) - 1)
  <2>1. stage = ExecuteStage
    BY <1>8, StageIs DEF Scheduled, TypeOK
  <2> QED BY <2>1, OrderIs DEF ExecuteStage
<1>11. StageAfter(stage, stage', w2, n)
  <2>1. stage' = Behind(stage, w2)
    BY <1>8, <1>9
  <2> QED BY <1>9, <1>10, <2>1, BehindIs
<1>12. amt \in [LogReg -> Reg] /\ ready \in [Reg -> BOOLEAN] /\ prf \in [Reg -> Content]
  BY DEF Scheduled, TypeOK
<1>13. TypeOK'
  <2>1. ready' \in [Reg -> BOOLEAN] /\ prf' \in [Reg -> Content]
    BY <1>8, <1>12, <1>8a DEF Content, Computed
  <2> QED BY <1>1, <1>8, <1>9, <1>11, <1>12, <2>1 DEF Scheduled, TypeOK, StageAfter, iqVars
<1>14. ASSUME NEW i \in 1..n, i \in fin
       PROVE  /\ w[i].at = "ex" /\ w[i].sub + 0 + 1 = Depth[w[i].lane]
              /\ w2[i].at = "wb" /\ w2[i].lane = w[i].lane /\ w2[i].sub = 0
              /\ Passing(w[i], w2[i], tags, i \in S) /\ Written(w2[i]) = Computed(w[i])
  <2>1. w[i].at = "ex" /\ w[i].sub + 0 + 1 = Depth[w[i].lane] /\ FieldsAgree(w[i]) /\ w[i] \in Instruction
    BY <1>2, <1>3, <1>4, <1>14
  <2>2. w2[i] = Finished(w[i], differ)
    BY <1>9, <1>14
  <2>3. w2[i].at = "wb" /\ w2[i].lane = w[i].lane /\ w2[i].sub = 0
    BY <2>1, <2>2, FinishedIs
  <2>4. /\ Passing(w[i], Finished(w[i], differ), tags, TRUE)
        /\ w[i].kind # "load" => Passing(w[i], Finished(w[i], differ), tags, FALSE)
        /\ Written(Finished(w[i], differ)) = Computed(w[i])
    BY <2>1, FinishedPasses
  <2>5. CASE w[i].kind = "load"
    <3>1. (i \in S) = TRUE
      BY <1>6, <1>14, <2>5
    <3> QED BY <2>1, <2>2, <2>3, <2>4, <3>1
  <2>6. CASE w[i].kind # "load"
    <3>1. (i \in S) = FALSE
      <4>1. ~(w[i].sub + 1 + 1 = Depth[w[i].lane])
        BY <1>3, <2>1
      <4> QED BY <1>6, <2>6, <4>1
    <3> QED BY <2>1, <2>2, <2>3, <2>4, <2>6, <3>1
  <2> QED BY <2>5, <2>6
<1>15. ASSUME NEW i \in 1..n, i \in stalled
       PROVE  /\ w[i].at = "ex" /\ i \notin fin /\ w2[i].at = "lsu"
              /\ Passing(w[i], w2[i], tags, i \in S) /\ Written(w2[i]) = Written(w[i])
  <2>1. w[i].at = "ex" /\ w[i].kind = "load" /\ i \notin fin /\ FieldsAgree(w[i]) /\ w[i] \in Instruction
    BY <1>2, <1>3, <1>5, <1>15
  <2>2. (i \in S) = FALSE
    BY <1>6, <2>1
  <2>3. w2[i] = Stalled(w[i])
    BY <1>9, <1>15, <2>1
  <2>4. w2[i].at = "lsu" /\ Passing(w[i], w2[i], tags, FALSE) /\ Written(w2[i]) = Written(w[i])
    BY <2>1, <2>3, StalledPasses, StalledIs
  <2> QED BY <2>1, <2>2, <2>4
<1>16. ASSUME NEW i \in 1..n, i \notin fin, i \notin stalled, w[i].at = "ex"
       PROVE  /\ w2[i].at = "ex" /\ w2[i].lane = w[i].lane /\ w2[i].sub = w[i].sub + 1
              /\ Passing(w[i], w2[i], tags, i \in S) /\ Written(w2[i]) = Written(w[i])
              /\ ~Pending(w[i])
  <2>1. /\ w[i].sub + 0 + 1 # Depth[w[i].lane] /\ FieldsAgree(w[i]) /\ w[i] \in Instruction
        /\ w[i].sub \in Nat
    BY <1>2, <1>3, <1>4, <1>16
  <2>2. i \in S <=> w[i].sub + 1 + 1 = Depth[w[i].lane] /\ w[i].kind # "load"
    BY <1>6, <1>16
  <2>3. w2[i] = Moved(w[i])
    BY <1>9, <1>16
  <2>4. w2[i].at = "ex" /\ w2[i].lane = w[i].lane /\ w2[i].sub = w[i].sub + 1
    BY <1>16, <2>1, <2>3, MovedIs
  <2>5. /\ IF w[i].sub + 1 + 1 = Depth[w[i].lane] /\ w[i].kind # "load"
           THEN Passing(w[i], Moved(w[i]), tags, TRUE) ELSE Passing(w[i], Moved(w[i]), tags, FALSE)
        /\ Written(Moved(w[i])) = Written(w[i])
    BY <1>16, <2>1, MovedPasses
  <2>6. Passing(w[i], w2[i], tags, i \in S)
    <3>1. CASE i \in S
      <4>1. (i \in S) = TRUE
        BY <3>1
      <4> QED BY <2>2, <2>3, <2>5, <3>1, <4>1
    <3>2. CASE i \notin S
      <4>1. (i \in S) = FALSE
        BY <3>2
      <4> QED BY <2>2, <2>3, <2>5, <3>2, <4>1
    <3> QED BY <3>1, <3>2
  <2>7. ~Pending(w[i])
    BY <2>1 DEF Pending
  <2> QED BY <2>3, <2>4, <2>5, <2>6, <2>7
<1>17. ASSUME NEW i \in 1..n, w[i].at # "ex"
       PROVE  /\ i \notin fin /\ i \notin S /\ Waking(w[i], w2[i], tags) /\ Passing(w[i], w2[i], tags, i \in S)
  <2>1. i \notin fin /\ i \notin stalled
    BY <1>4, <1>5, <1>17
  <2>2. (i \in S) = FALSE
    BY <1>6, <1>17, <2>1
  <2>3. w2[i] = WokenUp(w[i], tags) /\ w[i] \in Instruction /\ FieldsAgree(w[i])
    BY <1>2, <1>3, <1>9, <1>17, <2>1
  <2>4. Waking(w[i], w2[i], tags)
    BY <2>3, WakingIs
  <2>5. Passing(w[i], w2[i], tags, FALSE)
    BY <2>4 DEF Waking, Passing
  <2> QED BY <2>1, <2>2, <2>4, <2>5
<1>18. \A i \in 1..n : /\ Passing(w[i], w2[i], tags, i \in S)
                       /\ i \notin fin => Written(w2[i]) = Written(w[i])
  BY <1>14, <1>15, <1>16, <1>17 DEF Waking
<1>19. \A i \in 1..n : FieldsAgree(w2[i])
  BY <1>18 DEF Passing
<1>20. RegistersApart(w2, n, amt) /\ SourcesMapped(w2, n, amt)
  <2>1. \A i \in 1..n : w2[i].log = w[i].log /\ w2[i].dst = w[i].dst /\ w2[i].srcs \subseteq w[i].srcs
    BY <1>18 DEF Passing
  <2> QED BY <1>2, <2>1, MapsKept
<1>21. ReadyInTime(w2, n, amt, ready')
  <2>1. PICK rdy2 : rdy2 = ready'
    OBVIOUS
  <2>2. \A r \in Reg : rdy2[r] <=> ready[r] \/ r \in tags
    BY <1>8, <2>1
  <2>3. \A i \in 1..n : ReadyLater(w[i], w2[i], tags, i \in S)
    BY <1>18 DEF Passing
  <2>4. Wake(w, w2, n, S, tags, ready, rdy2)
    BY <1>7, <2>2, <2>3 DEF Wake
  <2>5. ReadyInTime(w2, n, amt, rdy2)
    BY <1>1, <1>2, <1>12, <2>4, ReadyUpdated
  <2> QED BY <2>1, <2>5
<1>22. ContentsKnown(w2, n, amt, prf')
  <2>1. PICK regs2 : regs2 = prf'
    OBVIOUS
  <2>2. \A i \in 1..n : w2[i].dst = w[i].dst /\ (i \notin fin => Written(w2[i]) = Written(w[i]))
    BY <1>18 DEF Passing
  <2>3. ASSUME NEW i \in fin, w[i].dst # NoReg PROVE regs2[w[i].dst] = Written(w2[i])
    <3>1. w[i].dst \in Reg /\ w[i].dst \in Tags(fin)
      BY <1>1, <1>3, <2>3 DEF Tags
    <3>2. PICK j \in fin : j = (CHOOSE k \in fin : w[k].dst = w[i].dst) /\ w[j].dst = w[i].dst
      BY <2>3
    <3>3. j = i
      BY <1>2, <2>3, <3>2 DEF RegistersApart
    <3>4. regs2[w[i].dst] = Computed(w[j])
      BY <1>8a, <2>1, <3>1, <3>2
    <3> QED BY <1>14, <3>3, <3>4
  <2>4. ASSUME NEW r \in Reg, \A i \in fin : w[i].dst # r PROVE regs2[r] = prf[r]
    <3>1. r \notin Tags(fin)
      BY <1>1, <2>4 DEF Tags
    <3> QED BY <1>8a, <2>1, <3>1
  <2>5. Write(w, w2, n, fin, prf, regs2)
    BY <2>2, <2>3, <2>4 DEF Write
  <2>6. ContentsKnown(w2, n, amt, regs2)
    BY <1>1, <1>2, <1>12, <2>5, ContentsUpdated
  <2> QED BY <2>1, <2>6
<1>23. WrongBehindSuspect(w2, n)
  <2>1. \A i \in 1..n : /\ w2[i].read = w[i].read
                        /\ Suspect(w[i]) /\ w[i].read \notin {"wrong", "stale"} => Suspect(w2[i])
    BY <1>18 DEF Passing
  <2> QED BY <1>2, <2>1, SuspectsStay
<1>24. \A i \in 1..n : w[i].at # "wb"
  <2> SUFFICES ASSUME NEW i \in 1..n, w[i].at = "wb" PROVE FALSE
    OBVIOUS
  <2>1. w[i].lane \in 1..Len(Depth) /\ Len(Depth) \in Nat
    BY <1>3, OrderIs
  <2>2. stage <= WritebackOf(w[i].lane) \/ stage > ExecuteStage
    BY <1>2 DEF InCycle
  <2> QED BY <1>10, <2>1, <2>2 DEF WritebackOf, ExecuteStage
<1>25. ASSUME NEW i \in 1..n
       PROVE  /\ w2[i].at = "rr" => w[i].at = "rr" /\ w2[i].lane = w[i].lane /\ w2[i].sub = w[i].sub
              /\ w2[i].at = "ex" => w[i].at = "ex" /\ w2[i].lane = w[i].lane /\ w2[i].sub = w[i].sub + 1
              /\ w2[i].at = "wb" => /\ w[i].at = "ex" /\ w2[i].lane = w[i].lane
                                    /\ w[i].sub + 0 + 1 = Depth[w[i].lane]
  <2>1. CASE i \in fin
    BY <1>14, <2>1
  <2>2. CASE i \in stalled
    BY <1>15, <2>2
  <2>3. CASE i \notin fin /\ i \notin stalled /\ w[i].at = "ex"
    BY <1>16, <2>3
  <2>4. CASE w[i].at # "ex"
    <3>1. w2[i].at = w[i].at /\ w2[i].lane = w[i].lane /\ w2[i].sub = w[i].sub
      BY <1>17, <2>4 DEF Waking
    <3> QED BY <1>24, <2>4, <3>1
  <2> QED BY <2>1, <2>2, <2>3, <2>4
<1>26. LanesFlow(w2, n)
  <2> SUFFICES ASSUME NEW i \in 1..n, NEW j \in 1..n, w2[i].at \in {"rr", "ex", "wb"}, w2[i].at = w2[j].at,
                      w2[i].lane = w2[j].lane, w2[i].sub = w2[j].sub
               PROVE  i = j
    BY DEF LanesFlow
  <2>1. w[i].at = w[j].at /\ w[i].at \in {"rr", "ex", "wb"} /\ w[i].lane = w[j].lane
    BY <1>25
  <2>2. w[i].sub = w[j].sub
    <3>1. PICK a \in Nat, c \in Nat : a = w[i].sub /\ c = w[j].sub
      BY <1>3
    <3>2. CASE w2[i].at = "rr"
      BY <1>25, <3>2
    <3>3. CASE w2[i].at = "ex"
      <4>1. w2[i].sub = w[i].sub + 1 /\ w2[j].sub = w[j].sub + 1
        BY <1>25, <3>3
      <4>2. a + 1 = c + 1
        BY <3>1, <4>1
      <4>3. a = c
        BY <4>2
      <4> QED BY <3>1, <4>3
    <3>4. CASE w2[i].at = "wb"
      <4>1. w[i].sub + 0 + 1 = Depth[w[i].lane] /\ w[j].sub + 0 + 1 = Depth[w[i].lane]
        BY <1>25, <2>1, <3>4
      <4>2. a + 0 + 1 = c + 0 + 1
        BY <3>1, <4>1
      <4>3. a = c
        BY <4>2
      <4> QED BY <3>1, <4>3
    <3> QED BY <3>2, <3>3, <3>4
  <2> QED BY <1>2, <2>1, <2>2 DEF LanesFlow
<1>27. InCycle(w2, n, prf', stage')
  <2>1. stage' > ExecuteStage
    BY <1>10, <1>11 DEF StageAfter
  <2>2. \A i \in 1..n : w2[i].at = "ex" => w2[i].sub > 0
    <3> SUFFICES ASSUME NEW i \in 1..n, w2[i].at = "ex" PROVE w2[i].sub > 0
      OBVIOUS
    <3>1. w2[i].sub = w[i].sub + 1 /\ w[i].sub \in Nat
      BY <1>3, <1>25
    <3> QED BY <3>1
  <2>3. ASSUME NEW i \in 1..n, w2[i].at = "rr", NEW r \in w2[i].srcs PROVE prf'[r] # "stale"
    <3>1. w[i].at = "rr" /\ r \in w[i].srcs
      BY <1>18, <1>25, <2>3 DEF Passing
    <3>2. w[i].waits = {}
      BY <1>2, <3>1 DEF FieldsAgree
    <3>3. \/ \E l \in LogReg : amt[l] = r
          \/ \E j \in 1..(i - 1) : /\ w[j].dst = r /\ r # NoReg
                                   /\ Executed(w[j]) \/ Pending(w[j]) \/ w[j].prediction # "none"
      <4>1. SourcesMapped(w, n, amt) /\ ReadyInTime(w, n, amt, ready)
        BY <1>2
      <4>2. r \in Reg
        BY <1>3, <3>1
      <4> QED BY <3>1, <3>2, <4>1, <4>2, SourceIs
    <3>4. CASE \E l \in LogReg : amt[l] = r
      BY <1>22, <3>4 DEF ContentsKnown
    <3>5. CASE \E j \in 1..(i - 1) : /\ w[j].dst = r /\ r # NoReg
                                     /\ Executed(w[j]) \/ Pending(w[j]) \/ w[j].prediction # "none"
      <4>1. PICK j \in 1..n : /\ w[j].dst = r /\ r # NoReg
                              /\ Executed(w[j]) \/ Pending(w[j]) \/ w[j].prediction # "none"
        BY <3>5
      <4>2. prf'[r] = Written(w2[j])
        BY <1>18, <1>22, <4>1 DEF ContentsKnown, Passing
      <4>3. CASE j \in fin
        BY <1>14, <4>2, <4>3 DEF Computed
      <4>4. CASE j \notin fin
        <5>1. ~Pending(w[j])
          <6>1. CASE j \in stalled
            BY <1>5, <6>1 DEF Pending
          <6>2. CASE w[j].at # "ex"
            BY <6>2 DEF Pending
          <6> QED BY <1>16, <4>4, <6>1, <6>2
        <5>2. Written(w2[j]) = Written(w[j])
          BY <1>18, <4>4
        <5>3. Written(w[j]) # "stale"
          BY <1>3, <4>1, <5>1 DEF Written, Computed
        <5> QED BY <4>2, <5>2, <5>3
      <4> QED BY <4>3, <4>4
    <3> QED BY <3>3, <3>4, <3>5
  <2> QED BY <2>1, <2>2, <2>3 DEF InCycle
<1>28. SlotsHeld(w2, n, IQ)
  <2>1. ASSUME NEW i \in 1..n
        PROVE  /\ w2[i].at = "iq" <=> w[i].at = "iq"
               /\ w[i].at = "iq" => w2[i].slot = w[i].slot
    <3>1. CASE w[i].at = "ex"
      BY <1>14, <1>15, <1>16, <3>1
    <3>2. CASE w[i].at # "ex"
      BY <1>17, <3>2 DEF Waking
    <3> QED BY <3>1, <3>2
  <2> QED BY <1>2, <2>1, SlotsKept
<1>29. amt' = amt /\ IQ' = IQ
  BY <1>8 DEF iqVars, IQ
<1> QED BY <1>9, <1>13, <1>19, <1>20, <1>21, <1>22, <1>23, <1>26, <1>27, <1>28, <1>29 DEF Scheduled, Consistent

-----------------------------------------------------------------------------
(* Register read *)

\* An instruction that has read its sources.
ReadBy(x) == [x EXCEPT !.at = "ex", !.read = ReadSources(x), !.srcs = {}]

\* Its fields.
LEMMA ReadByIs ==
  ASSUME NEW x \in Instruction
  PROVE  /\ ReadBy(x) \in Instruction
         /\ ReadBy(x).at = "ex" /\ ReadBy(x).read = ReadSources(x) /\ ReadBy(x).srcs = {}
         /\ ReadBy(x).sub = x.sub /\ ReadBy(x).lane = x.lane
         /\ ReadBy(x).waits = x.waits /\ ReadBy(x).kind = x.kind
         /\ ReadBy(x).prediction = x.prediction /\ ReadBy(x).log = x.log /\ ReadBy(x).dst = x.dst
         /\ ReadBy(x).val_misp = x.val_misp
<1>1. ReadSources(x) \in Content
  BY DEF ReadSources, Content
<1>2. "ex" \in Place
  BY DEF Place
<1> QED BY <1>1, <1>2 DEF ReadBy, Instruction

\* What follows for the invariant: with one execute stage, its consumers are woken up.
LEMMA ReadPasses ==
  ASSUME NEW x \in Instruction, NEW y, NEW tags, y = ReadBy(x), FieldsAgree(x), x.at = "rr"
  PROVE  /\ FieldsAgree(y) /\ Written(y) = Written(x) /\ (Suspect(x) => Suspect(y))
         /\ WakesEarly(x) => ReadyLater(x, y, tags, TRUE)
         /\ ~WakesEarly(x) => ReadyLater(x, y, tags, FALSE)
<1>1. /\ y.at = "ex" /\ y.srcs = {} /\ y.sub = x.sub /\ y.lane = x.lane
      /\ y.waits = x.waits /\ y.kind = x.kind /\ y.prediction = x.prediction
      /\ y.log = x.log /\ y.dst = x.dst /\ y.val_misp = x.val_misp
  BY ReadByIs
<1>2. x.waits = {} /\ x.sub = 0 /\ ~Executed(x) /\ ~Executed(y) /\ ~Pending(x)
  BY <1>1 DEF FieldsAgree, Executed, Pending
<1>3. Pending(y) <=> WakesEarly(x)
  BY <1>1, <1>2 DEF Pending, WakesEarly
<1>4. FieldsAgree(y)
  BY <1>1, <1>2 DEF FieldsAgree, Executed
<1>5. Written(y) = Written(x) /\ (Suspect(x) => Suspect(y))
  BY <1>1, <1>2 DEF Written, Suspect
<1>6. /\ WakesEarly(x) => ReadyLater(x, y, tags, TRUE)
      /\ ~WakesEarly(x) => ReadyLater(x, y, tags, FALSE)
  BY <1>1, <1>2, <1>3 DEF ReadyLater
<1> QED BY <1>4, <1>5, <1>6

\* The lanes read registers.
LEMMA RegisterReadStep ==
  ASSUME Scheduled, RegisterRead
  PROVE  Scheduled'
<1>1. PICK n \in Nat, w \in Seq(Instruction) : w = inflight /\ n = Len(w)
  BY InstructionsIn DEF Scheduled, TypeOK
<1>2. /\ \A i \in 1..n : FieldsAgree(w[i])
      /\ RegistersApart(w, n, amt) /\ SourcesMapped(w, n, amt) /\ ReadyInTime(w, n, amt, ready)
      /\ ContentsKnown(w, n, amt, prf) /\ WrongBehindSuspect(w, n) /\ LanesFlow(w, n)
      /\ InCycle(w, n, prf, stage) /\ SlotsHeld(w, n, IQ)
  BY <1>1 DEF Scheduled, Consistent
<1>3. \A i \in 1..n : /\ w[i] \in Instruction /\ w[i].srcs \in SUBSET Reg
                      /\ w[i].dst \in Reg \cup {NoReg} /\ w[i].lane \in Lanes /\ w[i].sub \in Nat
                      /\ w[i].prediction \in {"none", "right", "wrong"}
                      /\ w[i].read \in {"right", "wrong", "stale"}
  BY <1>1, InstructionsIn DEF Content
<1>4. PICK S \in SUBSET (1..n) :
        /\ S = {i \in Instructions("rr") : WakesEarly(inflight[i])}
        /\ S = {i \in 1..n : w[i].at = "rr" /\ WakesEarly(w[i])}
  BY <1>1 DEF Instructions
<1>5. PICK tags : tags = Tags(S) /\ tags = {w[i].dst : i \in S} \ {NoReg}
  BY <1>1 DEF Tags
<1>6. /\ Running("register_read") /\ UNCHANGED <<iqVars, part_next, amt, prf>>
      /\ ready' = [r \in Reg |-> ready[r] \/ r \in tags]
      /\ stage' = Behind(stage, inflight')
  BY <1>4, <1>5 DEF RegisterRead, SetReady, NextStage
<1>7. PICK w2 \in Seq(Instruction) :
        /\ w2 = inflight' /\ Len(w2) = n
        /\ \A i \in 1..n : w2[i] = IF w[i].at = "rr" THEN ReadBy(w[i]) ELSE WokenUp(w[i], tags)
  <2> DEFINE F(i) == IF w[i].at = "rr" THEN ReadBy(w[i]) ELSE WokenUp(w[i], tags)
  <2>1. \A i \in 1..n : F(i) \in Instruction
    BY <1>3, ReadByIs, WokenUpIs
  <2>2. inflight' = [i \in 1..Len(inflight) |-> F(i)]
    BY <1>1, <1>4, <1>5 DEF RegisterRead, ReadBy
  <2> HIDE DEF F
  <2>3. PICK f : f = inflight'
    OBVIOUS
  <2>4. f \in [1..n -> Instruction] /\ \A i \in 1..n : f[i] = F(i)
    BY <1>1, <2>1, <2>2, <2>3
  <2>5. f \in Seq(Instruction) /\ Len(f) = n
    BY <2>4, FunctionIsSequence
  <2> QED BY <2>3, <2>4, <2>5 DEF F
<1>8. stage = ReadStage /\ stage \in 0..(Len(Order) - 1) /\ stage > ExecuteStage
  <2>1. stage = ReadStage
    BY <1>6, StageIs DEF Scheduled, TypeOK
  <2> QED BY <2>1, OrderIs DEF ReadStage, ExecuteStage
<1>9. StageAfter(stage, stage', w2, n)
  <2>1. stage' = Behind(stage, w2)
    BY <1>6, <1>7
  <2> QED BY <1>7, <1>8, <2>1, BehindIs
<1>10. amt \in [LogReg -> Reg] /\ ready \in [Reg -> BOOLEAN] /\ prf \in [Reg -> Content]
  BY DEF Scheduled, TypeOK
<1>11. TypeOK'
  <2>1. ready' \in [Reg -> BOOLEAN]
    BY <1>6, <1>10
  <2> QED BY <1>1, <1>6, <1>7, <1>9, <1>10, <2>1 DEF Scheduled, TypeOK, StageAfter, iqVars
<1>12. ASSUME NEW i \in 1..n, w[i].at = "rr"
       PROVE  /\ w2[i].at = "ex" /\ w2[i].lane = w[i].lane /\ w2[i].sub = 0
              /\ w2[i].log = w[i].log /\ w2[i].dst = w[i].dst /\ w2[i].srcs = {}
              /\ w2[i].read = ReadSources(w[i])
              /\ FieldsAgree(w2[i]) /\ ReadyLater(w[i], w2[i], tags, i \in S)
              /\ Written(w2[i]) = Written(w[i]) /\ (Suspect(w[i]) => Suspect(w2[i]))
  <2>1. w[i] \in Instruction /\ FieldsAgree(w[i]) /\ w2[i] = ReadBy(w[i])
    BY <1>2, <1>3, <1>7, <1>12
  <2>2. /\ w2[i].at = "ex" /\ w2[i].lane = w[i].lane /\ w2[i].sub = w[i].sub
        /\ w2[i].log = w[i].log /\ w2[i].dst = w[i].dst /\ w2[i].srcs = {}
        /\ w2[i].read = ReadSources(w[i])
    BY <2>1, ReadByIs
  <2>3. w[i].sub = 0
    BY <1>12, <2>1 DEF FieldsAgree
  <2>4. PICK x \in Instruction, y \in Instruction : x = w[i] /\ y = w2[i]
    BY <1>7, <2>1, InstructionsIn
  <2>5. y = ReadBy(x) /\ FieldsAgree(x) /\ x.at = "rr"
    BY <1>12, <2>1, <2>4
  <2>6. /\ FieldsAgree(y) /\ Written(y) = Written(x) /\ (Suspect(x) => Suspect(y))
        /\ WakesEarly(x) => ReadyLater(x, y, tags, TRUE)
        /\ ~WakesEarly(x) => ReadyLater(x, y, tags, FALSE)
    BY <2>5, ReadPasses
  <2>7. ReadyLater(x, y, tags, i \in S)
    <3>1. CASE WakesEarly(x)
      <4>1. (i \in S) = TRUE
        BY <1>4, <1>12, <2>4, <3>1
      <4> QED BY <2>6, <3>1, <4>1
    <3>2. CASE ~WakesEarly(x)
      <4>1. (i \in S) = FALSE
        BY <1>4, <2>4, <3>2
      <4> QED BY <2>6, <3>2, <4>1
    <3> QED BY <3>1, <3>2
  <2> QED BY <2>2, <2>3, <2>4, <2>6, <2>7
<1>13. ASSUME NEW i \in 1..n, w[i].at # "rr"
       PROVE  ReadyLater(w[i], w2[i], tags, i \in S) /\ Waking(w[i], w2[i], tags)
  <2>1. w2[i] = WokenUp(w[i], tags) /\ w[i] \in Instruction /\ FieldsAgree(w[i])
    BY <1>2, <1>3, <1>7, <1>13
  <2>2. Waking(w[i], w2[i], tags)
    BY <2>1, WakingIs
  <2>3. (i \in S) = FALSE
    BY <1>4, <1>13
  <2> QED BY <2>2, <2>3 DEF Waking
<1>14. \A i \in 1..n : /\ FieldsAgree(w2[i]) /\ ReadyLater(w[i], w2[i], tags, i \in S)
                       /\ w2[i].log = w[i].log /\ w2[i].dst = w[i].dst /\ w2[i].srcs \subseteq w[i].srcs
                       /\ Written(w2[i]) = Written(w[i]) /\ (Suspect(w[i]) => Suspect(w2[i]))
  BY <1>12, <1>13 DEF Waking
<1>15. RegistersApart(w2, n, amt) /\ SourcesMapped(w2, n, amt)
  <2>1. \A i \in 1..n : w2[i].log = w[i].log /\ w2[i].dst = w[i].dst /\ w2[i].srcs \subseteq w[i].srcs
    BY <1>14
  <2> QED BY <1>2, <2>1, MapsKept
<1>16. ReadyInTime(w2, n, amt, ready')
  <2>1. PICK rdy2 : rdy2 = ready'
    OBVIOUS
  <2>2. \A r \in Reg : rdy2[r] <=> ready[r] \/ r \in tags
    BY <1>6, <2>1
  <2>3. \A i \in 1..n : ReadyLater(w[i], w2[i], tags, i \in S)
    BY <1>14
  <2>4. Wake(w, w2, n, S, tags, ready, rdy2)
    BY <1>5, <2>2, <2>3 DEF Wake
  <2>5. ReadyInTime(w2, n, amt, rdy2)
    BY <1>1, <1>2, <1>10, <2>4, ReadyUpdated
  <2> QED BY <2>1, <2>5
<1>17. ContentsKnown(w2, n, amt, prf)
  BY <1>2, <1>14 DEF ContentsKnown
<1>18. WrongBehindSuspect(w2, n)
  <2> SUFFICES ASSUME NEW i \in 1..n
               PROVE  /\ w2[i].read # "stale"
                      /\ w2[i].read = "wrong" => \E k \in 1..(i - 1) : Suspect(w2[k])
    BY DEF WrongBehindSuspect
  <2>1. ASSUME NEW k \in 1..(i - 1), Suspect(w[k]) PROVE Suspect(w2[k])
    <3>1. k \in 1..n
      OBVIOUS
    <3> QED BY <1>14, <2>1, <3>1
  <2>2. CASE w[i].at # "rr"
    <3>1. w2[i].read = w[i].read
      BY <1>13, <2>2 DEF Waking
    <3> QED BY <1>2, <2>1, <3>1 DEF WrongBehindSuspect
  <2>3. CASE w[i].at = "rr"
    <3>1. \A r \in w[i].srcs : prf[r] # "stale"
      BY <1>2, <1>8, <2>3 DEF InCycle
    <3>2. w2[i].read = IF \E r \in w[i].srcs : prf[r] = "wrong" THEN "wrong" ELSE "right"
      BY <1>12, <2>3, <3>1 DEF ReadSources
    <3>3. ASSUME NEW r \in w[i].srcs, prf[r] = "wrong" PROVE \E k \in 1..(i - 1) : Suspect(w[k])
      <4>1. PICK l \in LogReg : MappedAt(w, amt, l, i, r)
        BY <1>2 DEF SourcesMapped
      <4>2. amt[l] # r
        BY <1>2, <3>3 DEF ContentsKnown
      <4>3. PICK j \in 1..(i - 1) : w[j].dst = r
        BY <4>1, <4>2 DEF MappedAt
      <4>4. j \in 1..n /\ r # NoReg
        <5>1. r \in Reg
          BY <1>3
        <5> QED BY <4>3, <5>1, SchedulerAssumption
      <4>5. prf[r] = Written(w[j])
        BY <1>2, <4>3, <4>4 DEF ContentsKnown
      <4>6. CASE Executed(w[j])
        <5>1. w[j].read # "right"
          BY <3>3, <4>5, <4>6 DEF Written, Computed
        <5>2. PICK k \in 1..(j - 1) : Suspect(w[k])
          BY <1>2, <1>3, <4>4, <5>1 DEF WrongBehindSuspect
        <5>3. k \in 1..(i - 1)
          BY <4>3, <5>2
        <5> QED BY <5>2, <5>3
      <4>7. CASE ~Executed(w[j])
        <5>1. w[j].prediction = "wrong"
          BY <3>3, <4>5, <4>7 DEF Written
        <5> QED BY <4>3, <5>1 DEF Suspect
      <4> QED BY <4>6, <4>7
    <3> QED BY <2>1, <3>2, <3>3
  <2> QED BY <2>2, <2>3
<1>19. LanesFlow(w2, n)
  <2> SUFFICES ASSUME NEW i \in 1..n, NEW j \in 1..n, w2[i].at \in {"rr", "ex", "wb"}, w2[i].at = w2[j].at,
                      w2[i].lane = w2[j].lane, w2[i].sub = w2[j].sub
               PROVE  i = j
    BY DEF LanesFlow
  <2>1. ASSUME NEW k \in 1..n
        PROVE  /\ w2[k].lane = w[k].lane
               /\ w[k].at = "rr" => w2[k].at = "ex" /\ w2[k].sub = 0 /\ w[k].sub = 0
               /\ w[k].at # "rr" => w2[k].at = w[k].at /\ w2[k].sub = w[k].sub
               /\ w[k].at = "ex" => w[k].sub # 0
    <3>1. CASE w[k].at = "rr"
      BY <1>2, <1>12, <3>1 DEF FieldsAgree
    <3>2. CASE w[k].at # "rr"
      <4>1. ASSUME w[k].at = "ex" PROVE w[k].sub # 0
        <5>1. w[k].sub > 0 /\ w[k].sub \in Nat
          BY <1>2, <1>3, <1>8, <4>1 DEF InCycle
        <5> QED BY <5>1
      <4>2. w2[k].lane = w[k].lane /\ w2[k].at = w[k].at /\ w2[k].sub = w[k].sub
        BY <1>13, <3>2 DEF Waking
      <4> QED BY <3>2, <4>1, <4>2
    <3> QED BY <3>1, <3>2
  <2>2. w[i].at \in {"rr", "ex", "wb"} /\ w[i].at = w[j].at /\ w[i].lane = w[j].lane /\ w[i].sub = w[j].sub
    BY <2>1
  <2> QED BY <1>2, <2>2 DEF LanesFlow
<1>20. InCycle(w2, n, prf, stage')
  <2>1. stage' > ReadStage /\ stage' \in Nat
    BY <1>8, <1>9, OrderIs DEF StageAfter
  <2>2. stage' > ExecuteStage /\ stage' # ReadStage
    BY <2>1, OrderIs DEF ReadStage, ExecuteStage
  <2> QED BY <2>2 DEF InCycle
<1>21. SlotsHeld(w2, n, IQ)
  <2>1. \A i \in 1..n : /\ w2[i].at = "iq" <=> w[i].at = "iq"
                        /\ w[i].at = "iq" => w2[i].slot = w[i].slot
    BY <1>12, <1>13 DEF Waking
  <2> QED BY <1>2, <2>1, SlotsKept
<1>22. amt' = amt /\ IQ' = IQ /\ prf' = prf
  BY <1>6 DEF iqVars, IQ
<1> QED BY <1>7, <1>11, <1>14, <1>15, <1>16, <1>17, <1>18, <1>19, <1>20, <1>21, <1>22 DEF Scheduled, Consistent

-----------------------------------------------------------------------------
(* Retire *)

\* A queue without instructions.
LEMMA EmptyHolds ==
  ASSUME NEW w
  PROVE  SlotsHeld(w, 0, EmptyIQ)
<1>1. IQsize \in Nat \ {0} /\ IQSlot = 0..(IQsize - 1)
  BY SchedulerAssumption DEF IQSlot
<1>2. PICK rank \in [IQSlot -> Nat] : rank = [s \in IQSlot |-> 0]
  OBVIOUS
<1>3. PICK q : q = EmptyIQ
  OBVIOUS
<1>4. /\ q.fl = [s \in IQSlot |-> s] /\ q.head = 0 /\ q.tail = 0 /\ q.length = IQsize /\ q.list = <<>>
  BY <1>3 DEF EmptyIQ
<1>5. \A k \in 1..IQsize : (0 + k - 1) % IQsize = k - 1 /\ k - 1 \in IQSlot
  BY <1>1
<1>6. \A k \in 1..q.length : FreeAt(q, k) = k - 1
  BY <1>4, <1>5 DEF FreeAt
<1>7. Held(w, 0) = {}
  BY DEF Held
<1>8. \A s \in IQSlot : \E k \in 1..q.length : FreeAt(q, k) = s
  <2> SUFFICES ASSUME NEW s \in IQSlot PROVE \E k \in 1..q.length : FreeAt(q, k) = s
    OBVIOUS
  <2>1. PICK k \in 1..q.length : k - 1 = s
    <3>1. PICK k \in Int : k = s + 1
      BY <1>1
    <3>2. k \in 1..q.length /\ k - 1 = s
      BY <1>1, <1>4, <3>1
    <3> QED BY <3>2
  <2> QED BY <1>6, <2>1
<1>9. \A j, k \in 1..q.length : FreeAt(q, j) = FreeAt(q, k) => j = k
  <2> SUFFICES ASSUME NEW j \in 1..q.length, NEW k \in 1..q.length, FreeAt(q, j) = FreeAt(q, k)
               PROVE  j = k
    OBVIOUS
  <2>1. j - 1 = k - 1
    BY <1>6
  <2> QED BY <1>1, <1>4, <2>1
<1>10. /\ q.fl \in [IQSlot -> IQSlot] /\ q.head \in IQSlot /\ q.tail \in IQSlot /\ q.length \in 0..IQsize
       /\ q.tail = (q.head + q.length) % IQsize
  BY <1>1, <1>4
<1>11. q.list \in Seq(IQSlot) /\ Len(q.list) = 0 /\ q.length + Len(q.list) = IQsize
  BY <1>1, <1>4
<1>12. QueueHolds(q, {}, rank)
  BY <1>8, <1>9, <1>10, <1>11 DEF QueueHolds
<1> QED BY <1>2, <1>3, <1>7, <1>12 DEF SlotsHeld, Ranks

\* The order of the ranks is all that matters.
LEMMA RankChanged ==
  ASSUME NEW q, NEW H, NEW rank, NEW rank2, QueueHolds(q, H, rank),
         \A s, t \in H : rank[s] < rank[t] => rank2[s] < rank2[t]
  PROVE  QueueHolds(q, H, rank2)
BY DEF QueueHolds

\* What the oldest instruction has done when it retires.
LEMMA OldestDone ==
  ASSUME Scheduled, Running("retire"), NEW n, NEW w, w = inflight, n = Len(w)
  PROVE  /\ n \in Nat \ {0} /\ Head(inflight) = w[1] /\ stage = 1
         /\ w[1].at = "done" /\ w[1].read = "right" /\ Computed(w[1]) = "right"
         /\ ~(w[1].prediction = "wrong")
         /\ w[1].log = NoReg <=> w[1].dst = NoReg
         /\ w[1].dst # NoReg => /\ w[1].dst \in Reg /\ w[1].log \in LogReg
                                /\ ready[w[1].dst] /\ prf[w[1].dst] = "right"
<1>1. w \in Seq(Instruction) /\ n \in Nat
  BY InstructionsIn DEF Scheduled, TypeOK
<1>2. stage = 1 /\ w # <<>> /\ w[1].at = "done"
  <2>1. stage = 1 /\ HasWork(Order[1], w)
    BY StageIs DEF Scheduled, TypeOK
  <2>2. HasWork(<<"retire", 0>>, w)
    BY <2>1, OrderIs
  <2> QED BY <2>1, <2>2 DEF HasWork
<1>3. n # 0 /\ Head(w) = w[1] /\ 1 \in 1..n
  BY <1>1, <1>2, EmptySeq
<1>4. /\ FieldsAgree(w[1]) /\ WrongBehindSuspect(w, n)
      /\ ContentsKnown(w, n, amt, prf) /\ ReadyInTime(w, n, amt, ready)
  BY <1>3 DEF Scheduled, Consistent
<1>5. Executed(w[1])
  BY <1>2 DEF Executed
<1>6. w[1].read = "right"
  <2>1. w[1].read \in {"right", "wrong", "stale"}
    BY <1>1, <1>3, InstructionsIn DEF Content
  <2>2. ~\E k \in 1..(1 - 1) : Suspect(w[k])
    OBVIOUS
  <2> QED BY <1>3, <1>4, <2>1, <2>2 DEF WrongBehindSuspect
<1>7. Computed(w[1]) = "right"
  BY <1>6 DEF Computed
<1>8. ASSUME w[1].dst # NoReg
      PROVE  w[1].dst \in Reg /\ w[1].log \in LogReg /\ ready[w[1].dst] /\ prf[w[1].dst] = "right"
  <2>1. w[1].dst \in Reg /\ w[1].log \in LogReg
    BY <1>1, <1>3, <1>4, <1>8, InstructionsIn DEF FieldsAgree
  <2>2. ready[w[1].dst] /\ prf[w[1].dst] = Written(w[1])
    BY <1>3, <1>4, <1>5, <1>8 DEF ReadyInTime, ContentsKnown
  <2> QED BY <1>5, <1>7, <2>1, <2>2 DEF Written
<1>9. /\ w[1].log = NoReg <=> w[1].dst = NoReg
      /\ ~(w[1].prediction = "wrong")
  BY <1>4, <1>5 DEF FieldsAgree
<1> QED BY <1>1, <1>2, <1>3, <1>6, <1>7, <1>8, <1>9

\* Register r is committed for logical register l: they still have registers of their own.
Commits(map, map2, l, r) ==
  /\ map2 \in [LogReg -> Reg] /\ \A m, k \in LogReg : map2[m] = map2[k] => m = k
  /\ map2[l] = r /\ \A m \in LogReg : m # l => map2[m] = map[m]
  /\ Range(map) \ Range(map2) = {map[l]}

\* They do if it was none of them.
LEMMA Committed ==
  ASSUME NEW map \in [LogReg -> Reg], NEW l \in LogReg, NEW r \in Reg,
         \A m \in LogReg : map[m] # r, \A m, k \in LogReg : map[m] = map[k] => m = k
  PROVE  Commits(map, [map EXCEPT ![l] = r], l, r)
<1>0. PICK map2 : map2 = [map EXCEPT ![l] = r]
  OBVIOUS
<1>1. map2 \in [LogReg -> Reg] /\ map2[l] = r /\ \A m \in LogReg : m # l => map2[m] = map[m]
  BY <1>0
<1>2. \A m, k \in LogReg : map2[m] = map2[k] => m = k
  BY <1>1
<1>3. Range(map) = {map[m] : m \in LogReg} /\ Range(map2) = {map2[m] : m \in LogReg}
  BY <1>1 DEF Range
<1>4. map[l] \notin Range(map2)
  <2> SUFFICES ASSUME NEW m \in LogReg, map2[m] = map[l] PROVE FALSE
    BY <1>3
  <2> QED BY <1>1
<1>5. \A m \in LogReg : m # l => map[m] \in Range(map2)
  BY <1>1, <1>3
<1>6. Range(map) \ Range(map2) = {map[l]}
  BY <1>3, <1>4, <1>5
<1> QED BY <1>0, <1>1, <1>2, <1>6 DEF Commits

\* A squash of everything at retirement leaves a consistent core behind, if the committed registers
\* are apart and hold right values.
LEMMA SquashedStep ==
  ASSUME Scheduled, Running("retire"), Squashed, NEW map2, map2 = amt',
         map2 \in [LogReg -> Reg],
         \A m, k \in LogReg : map2[m] = map2[k] => m = k,
         \A m \in LogReg : ready[map2[m]] /\ prf[map2[m]] = "right"
  PROVE  Scheduled'
<1>1. /\ stage = 1
      /\ ready \in [Reg -> BOOLEAN] /\ prf \in [Reg -> Content]
      /\ map2 \in [LogReg -> Reg] /\ \A m, k \in LogReg : map2[m] = map2[k] => m = k
  BY OldestDone DEF Scheduled, TypeOK
<1>2. PICK rdy2, regs2 :
        /\ rdy2 = ready' /\ regs2 = prf' /\ map2 = amt'
        /\ rdy2 = [r \in Reg |-> ready[r] \/ r \in Reg \ Range(map2)]
        /\ regs2 = [r \in Reg |-> IF r \in Reg \ Range(map2) THEN "stale" ELSE prf[r]]
  BY DEF Squashed, Free
<1>3. \A m \in LogReg : map2[m] \in Reg /\ map2[m] \in Range(map2) /\ ready[map2[m]] /\ prf[map2[m]] = "right"
  BY <1>1 DEF Range
<1>4. PICK w2 \in Seq(Instruction) : w2 = inflight' /\ Len(w2) = 0
  <2>1. inflight' = <<>>
    BY DEF Squashed
  <2>2. <<>> \in Seq(Instruction) /\ Len(<<>>) = 0
    OBVIOUS
  <2> QED BY <2>1, <2>2
<1>5. PICK q : q = IQ' /\ q = EmptyIQ
  <2>1. /\ fl' = EmptyIQ.fl /\ fl_head' = EmptyIQ.head /\ fl_tail' = EmptyIQ.tail
        /\ fl_length' = EmptyIQ.length /\ age_list' = EmptyIQ.list
    BY DEF Squashed, IQBecomes
  <2> QED BY <2>1 DEF IQ, EmptyIQ
<1>6. PICK st : st = stage' /\ StageAfter(1, st, w2, 0)
  <2>1. stage' = Behind(1, w2)
    BY <1>1, <1>4 DEF Squashed, NextStage
  <2>2. 1 \in 0..(Len(Order) - 1) /\ 0 \in Nat /\ 0 = Len(w2)
    BY <1>4, OrderIs
  <2>3. StageAfter(1, Behind(1, w2), w2, 0)
    BY <2>2, BehindIs
  <2> QED BY <2>1, <2>3
<1>7. RegistersApart(w2, 0, map2) /\ SourcesMapped(w2, 0, map2)
  BY <1>1 DEF RegistersApart, SourcesMapped
<1>8. ReadyInTime(w2, 0, map2, rdy2) /\ ContentsKnown(w2, 0, map2, regs2)
  <2>1. \A m \in LogReg : rdy2[map2[m]] /\ regs2[map2[m]] = "right"
    BY <1>2, <1>3
  <2>2. 1..0 = {}
    OBVIOUS
  <2> QED BY <2>1, <2>2 DEF ReadyInTime, ContentsKnown
<1>9. WrongBehindSuspect(w2, 0) /\ LanesFlow(w2, 0) /\ InCycle(w2, 0, regs2, st)
  BY DEF WrongBehindSuspect, LanesFlow, InCycle
<1>10. SlotsHeld(w2, 0, q)
  BY <1>5, EmptyHolds
<1>11. TypeOK'
  <2>1. rdy2 \in [Reg -> BOOLEAN] /\ regs2 \in [Reg -> Content]
    BY <1>1, <1>2 DEF Content
  <2>2. /\ fl' = [s \in IQSlot |-> s] /\ fl_head' = 0 /\ fl_tail' = 0
        /\ fl_length' = IQsize /\ age_list' = <<>>
    BY DEF Squashed, IQBecomes, EmptyIQ
  <2>3. 0 \in IQSlot /\ IQsize \in 0..IQsize /\ Len(<<>>) <= IQsize /\ Len(w2) <= ActiveListSize
    BY <1>4, SchedulerAssumption DEF IQSlot
  <2>4. part_next' \in {k * part_size : k \in 0..(num_parts - 1)}
    BY DEF Squashed, Scheduled, TypeOK
  <2>5. st \in 1..Len(Order) /\ HasWork(Order[st], w2)
    BY <1>6 DEF StageAfter
  <2>6. amt' \in [LogReg -> Reg] /\ ready' \in [Reg -> BOOLEAN] /\ prf' \in [Reg -> Content]
    BY <1>2, <1>1, <1>2, <2>1
  <2>7. inflight' \in Seq(Instruction) /\ Len(inflight') <= ActiveListSize
    BY <1>4, <2>3
  <2>8. stage' \in 1..Len(Order) /\ HasWork(Order[stage'], inflight')
    BY <1>4, <1>6, <2>5
  <2>9. /\ fl' \in [IQSlot -> IQSlot] /\ fl_head' \in IQSlot /\ fl_tail' \in IQSlot
        /\ fl_length' \in 0..IQsize /\ age_list' \in Seq(IQSlot) /\ Len(age_list') <= IQsize
    BY <2>2, <2>3
  <2> QED BY <2>4, <2>6, <2>7, <2>8, <2>9 DEF TypeOK
<1>12. Consistent(w2, 0, map2, rdy2, regs2, st, q)
  BY <1>7, <1>8, <1>9, <1>10 DEF Consistent
<1> QED BY <1>2, <1>2, <1>4, <1>5, <1>6, <1>11, <1>12 DEF Scheduled

\* The oldest instruction commits and everything after it is squashed.
LEMMA RetireMispredictedStep ==
  ASSUME Scheduled, RetireMispredicted
  PROVE  Scheduled'
<1>1. PICK n, w : w = inflight /\ n = Len(w)
  OBVIOUS
<1>2. /\ Running("retire") /\ w[1].val_misp
      /\ n \in Nat \ {0} /\ Head(inflight) = w[1] /\ stage = 1 /\ w[1].at = "done"
      /\ w[1].dst # NoReg => /\ w[1].dst \in Reg /\ w[1].log \in LogReg
                             /\ ready[w[1].dst] /\ prf[w[1].dst] = "right"
  BY <1>1, OldestDone DEF RetireMispredicted
<1>3. /\ RegistersApart(w, n, amt) /\ ReadyInTime(w, n, amt, ready) /\ ContentsKnown(w, n, amt, prf)
      /\ FieldsAgree(w[1])
      /\ amt \in [LogReg -> Reg] /\ ready \in [Reg -> BOOLEAN] /\ prf \in [Reg -> Content]
  BY <1>1, <1>2 DEF Scheduled, Consistent, TypeOK
<1>4. w[1].dst # NoReg /\ w[1].dst \in Reg /\ w[1].log \in LogReg
  BY <1>2, <1>3 DEF FieldsAgree
<1>5. PICK map2 : map2 = amt' /\ map2 = [amt EXCEPT ![w[1].log] = w[1].dst]
  BY <1>2 DEF RetireMispredicted
<1>6. /\ map2 \in [LogReg -> Reg] /\ \A m, k \in LogReg : map2[m] = map2[k] => m = k
      /\ map2[w[1].log] = w[1].dst /\ \A m \in LogReg : m # w[1].log => map2[m] = amt[m]
  <2>1. /\ \A m \in LogReg : amt[m] # w[1].dst
        /\ \A m, k \in LogReg : amt[m] = amt[k] => m = k
    BY <1>2, <1>3 DEF RegistersApart
  <2>2. Commits(amt, map2, w[1].log, w[1].dst)
    <3>1. PICK g \in LogReg : g = w[1].log
      BY <1>4
    <3>2. PICK r \in Reg : r = w[1].dst
      BY <1>4
    <3>3. map2 = [amt EXCEPT ![g] = r] /\ \A m \in LogReg : amt[m] # r
      BY <1>5, <2>1, <3>1, <3>2
    <3>4. Commits(amt, map2, g, r)
      BY <1>3, <2>1, <3>3, Committed
    <3> QED BY <3>1, <3>2, <3>4
  <2> QED BY <2>2 DEF Commits
<1>7. \A m \in LogReg : ready[map2[m]] /\ prf[map2[m]] = "right"
  <2> SUFFICES ASSUME NEW m \in LogReg
               PROVE  ready[map2[m]] /\ prf[map2[m]] = "right"
    OBVIOUS
  <2>1. ready[amt[m]] /\ prf[amt[m]] = "right"
    BY <1>3 DEF ReadyInTime, ContentsKnown
  <2> QED BY <1>2, <1>4, <1>6, <2>1
<1>8. Squashed
  BY DEF RetireMispredicted
<1> QED BY <1>2, <1>5, <1>6, <1>7, <1>8, SquashedStep

\* The oldest instruction is squashed with everything after it.
LEMMA SquashCompleteStep ==
  ASSUME Scheduled, SquashComplete
  PROVE  Scheduled'
<1>1. PICK n, w : w = inflight /\ n = Len(w)
  OBVIOUS
<1>2. Running("retire") /\ Squashed
  BY DEF SquashComplete
<1>3. /\ RegistersApart(w, n, amt) /\ ReadyInTime(w, n, amt, ready) /\ ContentsKnown(w, n, amt, prf)
      /\ amt \in [LogReg -> Reg]
  BY <1>1 DEF Scheduled, Consistent, TypeOK
<1>4. PICK map2 : map2 = amt' /\ map2 = amt
  BY DEF SquashComplete
<1>5. /\ map2 \in [LogReg -> Reg]
      /\ \A m, k \in LogReg : map2[m] = map2[k] => m = k
  BY <1>3, <1>4 DEF RegistersApart
<1>6. \A m \in LogReg : ready[map2[m]] /\ prf[map2[m]] = "right"
  BY <1>3, <1>4 DEF ReadyInTime, ContentsKnown
<1> QED BY <1>2, <1>4, <1>5, <1>6, SquashedStep

\* What logical registers are mapped to does not change when the oldest instruction commits.
LEMMA MappedOnward ==
  ASSUME NEW n \in Nat, NEW w, NEW w2, NEW map, NEW map2,
         \A j \in 1..(n - 1) : w2[j] = w[j + 1],
         NEW i \in 1..(n - 1), NEW l, NEW r,
         w[1].log = l => map2[l] = w[1].dst, w[1].log # l => map2[l] = map[l],
         MappedAt(w, map, l, i + 1, r)
  PROVE  MappedAt(w2, map2, l, i, r)
<1>1. \A j \in 1..(i - 1) : j \in 1..(n - 1) /\ j + 1 \in 1..(i + 1 - 1) /\ w2[j] = w[j + 1]
  OBVIOUS
<1>2. 1 \in 1..(i + 1 - 1)
  OBVIOUS
<1>3. CASE map[l] = r /\ \A j \in 1..(i + 1 - 1) : w[j].log # l
  BY <1>1, <1>2, <1>3 DEF MappedAt
<1>4. CASE \E j \in 1..(i + 1 - 1) : /\ w[j].log = l /\ w[j].dst = r
                                     /\ \A k \in (j + 1)..(i + 1 - 1) : w[k].log # l
  <2>1. PICK j \in 1..(i + 1 - 1) : /\ w[j].log = l /\ w[j].dst = r
                                    /\ \A k \in (j + 1)..(i + 1 - 1) : w[k].log # l
    BY <1>4
  <2>2. CASE j = 1
    <3>1. map2[l] = r
      BY <2>1, <2>2
    <3>2. \A k \in 1..(i - 1) : w2[k].log # l
      <4> SUFFICES ASSUME NEW k \in 1..(i - 1) PROVE w2[k].log # l
        OBVIOUS
      <4>1. k + 1 \in (j + 1)..(i + 1 - 1)
        BY <2>2
      <4> QED BY <1>1, <2>1, <4>1
    <3> QED BY <3>1, <3>2 DEF MappedAt
  <2>3. CASE j # 1
    <3>1. PICK m \in 1..(i - 1) : j = m + 1
      <4>1. j - 1 \in 1..(i - 1) /\ j = (j - 1) + 1
        BY <2>3
      <4> QED BY <4>1
    <3>2. w2[m].log = l /\ w2[m].dst = r
      BY <1>1, <2>1, <3>1
    <3>3. \A k \in (m + 1)..(i - 1) : w2[k].log # l
      <4> SUFFICES ASSUME NEW k \in (m + 1)..(i - 1) PROVE w2[k].log # l
        OBVIOUS
      <4>1. k + 1 \in (j + 1)..(i + 1 - 1) /\ k \in 1..(i - 1)
        BY <3>1
      <4> QED BY <1>1, <2>1, <4>1
    <3> QED BY <3>2, <3>3 DEF MappedAt
  <2> QED BY <2>2, <2>3
<1> QED BY <1>3, <1>4 DEF MappedAt

\* The oldest instruction commits.
LEMMA RetireStep ==
  ASSUME Scheduled, Retire
  PROVE  Scheduled'
<1>1. PICK n \in Nat, w \in Seq(Instruction) : w = inflight /\ n = Len(w)
  BY InstructionsIn DEF Scheduled, TypeOK
<1>2. /\ \A i \in 1..n : FieldsAgree(w[i])
      /\ RegistersApart(w, n, amt) /\ SourcesMapped(w, n, amt) /\ ReadyInTime(w, n, amt, ready)
      /\ ContentsKnown(w, n, amt, prf) /\ WrongBehindSuspect(w, n) /\ LanesFlow(w, n)
      /\ InCycle(w, n, prf, stage) /\ SlotsHeld(w, n, IQ)
  BY <1>1 DEF Scheduled, Consistent
<1>3. /\ Running("retire") /\ ~w[1].val_misp
      /\ n # 0 /\ Head(inflight) = w[1] /\ stage = 1 /\ w[1].at = "done"
      /\ ~(w[1].prediction = "wrong")
      /\ w[1].log = NoReg <=> w[1].dst = NoReg
      /\ w[1].dst # NoReg => /\ w[1].dst \in Reg /\ w[1].log \in LogReg
                             /\ ready[w[1].dst] /\ prf[w[1].dst] = "right"
  BY <1>1, OldestDone DEF Retire
<1>4. amt \in [LogReg -> Reg] /\ ready \in [Reg -> BOOLEAN] /\ prf \in [Reg -> Content]
  BY DEF Scheduled, TypeOK
<1>5. PICK m \in Nat, w2 \in Seq(Instruction) :
        /\ w2 = inflight' /\ m = n - 1 /\ Len(w2) = m /\ n = m + 1
        /\ \A i \in 1..m : w2[i] = w[i + 1]
  <2>1. inflight' = Tail(w)
    BY <1>1 DEF Retire
  <2>2. w # <<>>
    BY <1>1, <1>3, EmptySeq
  <2>3. /\ Tail(w) \in Seq(Instruction) /\ Len(Tail(w)) = Len(w) - 1
        /\ \A i \in 1..Len(Tail(w)) : Tail(w)[i] = w[i + 1]
    BY <2>2, HeadTailProperties
  <2>4. n - 1 \in Nat /\ n = (n - 1) + 1
    BY <1>3
  <2> QED BY <1>1, <2>1, <2>3, <2>4
<1>6. \A i \in 1..m : i + 1 \in 1..n
  BY <1>5
<1>7. PICK map2 : /\ map2 = amt' /\ map2 \in [LogReg -> Reg]
                  /\ map2 = IF w[1].dst = NoReg THEN amt ELSE [amt EXCEPT ![w[1].log] = w[1].dst]
  BY <1>3, <1>4 DEF Retire
<1>8. /\ \A k, l \in LogReg : map2[k] = map2[l] => k = l
      /\ \A l \in LogReg : /\ w[1].log = l => map2[l] = w[1].dst
                           /\ w[1].log # l => map2[l] = amt[l]
      /\ \A r \in Range(amt) \ Range(map2) : \E l \in LogReg : r = amt[l] /\ l = w[1].log
      /\ \A l \in LogReg : map2[l] \in Range(map2)
  <2>1. \A l \in LogReg : amt[l] # w[1].dst
    BY <1>2, <1>5 DEF RegistersApart
  <2>2. \A k, l \in LogReg : amt[k] = amt[l] => k = l
    BY <1>2 DEF RegistersApart
  <2>3. \A l \in LogReg : map2[l] \in Range(map2)
    BY <1>7 DEF Range
  <2>4. CASE w[1].dst = NoReg
    <3>1. map2 = amt /\ w[1].log \notin LogReg
      BY <1>3, <1>7, <2>4, SchedulerAssumption
    <3> QED BY <2>2, <2>3, <3>1
  <2>5. CASE w[1].dst # NoReg
    <3>1. map2 = [amt EXCEPT ![w[1].log] = w[1].dst] /\ w[1].dst \in Reg /\ w[1].log \in LogReg
      BY <1>3, <1>7, <2>5
    <3>2. PICK g \in LogReg : g = w[1].log
      BY <3>1
    <3>3. PICK r \in Reg : r = w[1].dst
      BY <3>1
    <3>4. map2 = [amt EXCEPT ![g] = r] /\ \A l \in LogReg : amt[l] # r
      BY <2>1, <3>1, <3>2, <3>3
    <3>5. /\ \A k, l \in LogReg : map2[k] = map2[l] => k = l
          /\ map2[g] = r /\ \A l \in LogReg : l # g => map2[l] = amt[l]
          /\ Range(amt) \ Range(map2) = {amt[g]}
      <4>1. Commits(amt, map2, g, r)
        BY <1>4, <2>2, <3>4, Committed
      <4> QED BY <4>1 DEF Commits
    <3> QED BY <2>3, <3>2, <3>3, <3>5
  <2> QED BY <2>4, <2>5
<1>9. \A l \in LogReg : ready[map2[l]] /\ prf[map2[l]] = "right" /\ map2[l] \in Reg
  <2> SUFFICES ASSUME NEW l \in LogReg
               PROVE  ready[map2[l]] /\ prf[map2[l]] = "right" /\ map2[l] \in Reg
    OBVIOUS
  <2>1. ready[amt[l]] /\ prf[amt[l]] = "right"
    BY <1>2 DEF ReadyInTime, ContentsKnown
  <2>2. CASE w[1].log = l
    <3>1. map2[l] = w[1].dst /\ w[1].log # NoReg
      BY <1>8, <2>2, SchedulerAssumption
    <3> QED BY <1>3, <1>7, <3>1
  <2>3. CASE w[1].log # l
    BY <1>7, <1>8, <2>1, <2>3
  <2> QED BY <2>2, <2>3
<1>10. PICK freed : freed = Range(amt) \ Range(map2)
  OBVIOUS
<1>11. PICK rdy2 : rdy2 = ready' /\ rdy2 = [r \in Reg |-> ready[r] \/ r \in freed]
  BY <1>7, <1>10 DEF Retire, Free
<1>12. PICK regs2 : regs2 = prf' /\ regs2 = [r \in Reg |-> IF r \in freed THEN "stale" ELSE prf[r]]
  BY <1>7, <1>10 DEF Retire, Free
<1>13. /\ \A r \in freed : r \in Reg /\ ready[r] /\ \A i \in 1..n : w[i].dst # r
       /\ \A l \in LogReg : map2[l] \notin freed
  <2>1. ASSUME NEW r \in freed PROVE r \in Reg /\ ready[r] /\ \A i \in 1..n : w[i].dst # r
    <3>1. PICK l \in LogReg : r = amt[l]
      BY <1>8, <1>10, <2>1
    <3> QED BY <1>2, <1>4, <3>1 DEF ReadyInTime, RegistersApart
  <2>2. \A l \in LogReg : map2[l] \notin freed
    BY <1>8, <1>10
  <2> QED BY <2>1, <2>2
<1>14. \A r \in Reg : rdy2[r] <=> ready[r]
  BY <1>11, <1>13
<1>15. PICK st : st = stage' /\ (StageAfter(1, st, w2, m) \/ (st = 1 /\ HasWork(Order[1], w2)))
  <2>1. CASE NextStage
    <3>1. stage' = Behind(1, w2)
      BY <1>3, <1>5, <2>1 DEF NextStage
    <3>2. 1 \in 0..(Len(Order) - 1)
      BY OrderIs
    <3>3. StageAfter(1, Behind(1, w2), w2, m)
      BY <1>5, <3>2, BehindIs
    <3> QED BY <3>1, <3>3
  <2>2. CASE HasWork(Order[stage], inflight') /\ stage' = stage
    BY <1>3, <1>5, <2>2
  <2> QED BY <2>1, <2>2 DEF Retire
<1>16. \A i \in 1..m : FieldsAgree(w2[i])
  BY <1>2, <1>5, <1>6
<1>17. RegistersApart(w2, m, map2)
  <2>1. ASSUME NEW i \in 1..m, NEW l \in LogReg PROVE w2[i].dst # map2[l]
    <3>1. w2[i].dst = w[i + 1].dst /\ i + 1 \in 1..n /\ i + 1 # 1 /\ 1 \in 1..n
      BY <1>5, <1>6
    <3>2. map2[l] # NoReg
      BY <1>9, SchedulerAssumption
    <3>3. CASE w[1].log = l
      <4>1. map2[l] = w[1].dst
        BY <1>8, <3>3
      <4>2. \A j, k \in 1..n : w[j].dst # NoReg /\ w[j].dst = w[k].dst => j = k
        BY <1>2 DEF RegistersApart
      <4> QED BY <3>1, <3>2, <4>1, <4>2
    <3>4. CASE w[1].log # l
      BY <1>2, <1>8, <3>1, <3>4 DEF RegistersApart
    <3> QED BY <3>3, <3>4
  <2>2. ASSUME NEW i \in 1..m, NEW j \in 1..m, w2[i].dst # NoReg, w2[i].dst = w2[j].dst PROVE i = j
    <3>1. i + 1 = j + 1
      <4>1. i + 1 \in 1..n /\ j + 1 \in 1..n /\ w2[i] = w[i + 1] /\ w2[j] = w[j + 1]
        BY <1>5, <1>6
      <4> QED BY <1>2, <2>2, <4>1 DEF RegistersApart
    <3> QED BY <3>1
  <2> QED BY <1>8, <2>1, <2>2 DEF RegistersApart
<1>18. SourcesMapped(w2, m, map2)
  <2> SUFFICES ASSUME NEW i \in 1..m, NEW r \in w2[i].srcs PROVE \E l \in LogReg : MappedAt(w2, map2, l, i, r)
    BY DEF SourcesMapped
  <2>1. i + 1 \in 1..n /\ r \in w[i + 1].srcs
    BY <1>5, <1>6
  <2>2. PICK l \in LogReg : MappedAt(w, amt, l, i + 1, r)
    BY <1>2, <2>1 DEF SourcesMapped
  <2>3. i \in 1..(n - 1) /\ \A j \in 1..(n - 1) : w2[j] = w[j + 1]
    BY <1>5
  <2>4. MappedAt(w2, map2, l, i, r)
    BY <1>8, <2>2, <2>3, MappedOnward
  <2> QED BY <2>4
<1>19. ReadyInTime(w2, m, map2, rdy2)
  <2>1. \A l \in LogReg : rdy2[map2[l]]
    BY <1>9, <1>14
  <2>2. ASSUME NEW i \in 1..m, w2[i].dst # NoReg
        PROVE  /\ Executed(w2[i]) \/ Pending(w2[i]) => rdy2[w2[i].dst]
               /\ rdy2[w2[i].dst] => Executed(w2[i]) \/ Pending(w2[i]) \/ w2[i].prediction # "none"
    <3>1. i + 1 \in 1..n /\ w2[i] = w[i + 1]
      BY <1>5, <1>6
    <3>2. w[i + 1].dst \in Reg
      BY <1>1, <2>2, <3>1, InstructionsIn
    <3>3. rdy2[w[i + 1].dst] <=> ready[w[i + 1].dst]
      BY <1>14, <3>2
    <3> QED BY <1>2, <2>2, <3>1, <3>3 DEF ReadyInTime
  <2>3. ASSUME NEW i \in 1..m PROVE w2[i].waits = {r \in w2[i].srcs : ~rdy2[r]}
    <3>1. i + 1 \in 1..n /\ w2[i] = w[i + 1]
      BY <1>5, <1>6
    <3>2. w[i + 1].srcs \in SUBSET Reg
      BY <1>1, <3>1, InstructionsIn
    <3>3. w[i + 1].waits = {r \in w[i + 1].srcs : ~ready[r]}
      BY <1>2, <3>1 DEF ReadyInTime
    <3> QED BY <1>14, <3>1, <3>2, <3>3
  <2> QED BY <2>1, <2>2, <2>3 DEF ReadyInTime
<1>20. ContentsKnown(w2, m, map2, regs2)
  <2>1. \A l \in LogReg : regs2[map2[l]] = "right"
    BY <1>9, <1>12, <1>13
  <2>2. ASSUME NEW i \in 1..m, w2[i].dst # NoReg PROVE regs2[w2[i].dst] = Written(w2[i])
    <3>1. i + 1 \in 1..n /\ w2[i] = w[i + 1]
      BY <1>5, <1>6
    <3>2. w[i + 1].dst \in Reg /\ w[i + 1].dst \notin freed
      BY <1>1, <1>13, <2>2, <3>1, InstructionsIn
    <3>3. regs2[w[i + 1].dst] = prf[w[i + 1].dst]
      BY <1>12, <3>2
    <3> QED BY <1>2, <2>2, <3>1, <3>3 DEF ContentsKnown
  <2> QED BY <2>1, <2>2 DEF ContentsKnown
<1>21. WrongBehindSuspect(w2, m)
  <2> SUFFICES ASSUME NEW i \in 1..m
               PROVE  /\ w2[i].read # "stale"
                      /\ w2[i].read = "wrong" => \E k \in 1..(i - 1) : Suspect(w2[k])
    BY DEF WrongBehindSuspect
  <2>1. i + 1 \in 1..n /\ w2[i] = w[i + 1]
    BY <1>5, <1>6
  <2>2. w[i + 1].read # "stale"
    BY <1>2, <2>1 DEF WrongBehindSuspect
  <2>3. ASSUME w2[i].read = "wrong" PROVE \E k \in 1..(i - 1) : Suspect(w2[k])
    <3>1. PICK k \in 1..((i + 1) - 1) : Suspect(w[k])
      BY <1>2, <2>1, <2>3 DEF WrongBehindSuspect
    <3>2. k # 1
      BY <1>3, <3>1 DEF Suspect
    <3>3. PICK j \in 1..(i - 1) : k = j + 1
      <4>1. k - 1 \in 1..(i - 1) /\ k = (k - 1) + 1
        BY <3>2
      <4> QED BY <4>1
    <3>4. w2[j] = w[j + 1]
      BY <1>5, <3>3
    <3> QED BY <3>1, <3>3, <3>4
  <2> QED BY <2>1, <2>2, <2>3
<1>22. LanesFlow(w2, m)
  <2> SUFFICES ASSUME NEW i \in 1..m, NEW j \in 1..m, w2[i].at \in {"rr", "ex", "wb"}, w2[i].at = w2[j].at,
                      w2[i].lane = w2[j].lane, w2[i].sub = w2[j].sub
               PROVE  i = j
    BY DEF LanesFlow
  <2>1. i + 1 \in 1..n /\ j + 1 \in 1..n /\ w2[i] = w[i + 1] /\ w2[j] = w[j + 1]
    BY <1>5, <1>6
  <2>2. i + 1 = j + 1
    BY <1>2, <2>1 DEF LanesFlow
  <2> QED BY <2>2
<1>23. InCycle(w2, m, regs2, st)
  <2>1. CASE StageAfter(1, st, w2, m)
    <3>1. 1 \in 0..(Len(Order) - 1) /\ 1 < ExecuteStage
      BY OrderIs DEF ExecuteStage
    <3>2. \A i \in 1..m : w2[i].at = "wb" => 1 < WritebackOf(w2[i].lane)
      <4> SUFFICES ASSUME NEW i \in 1..m PROVE 1 < WritebackOf(w2[i].lane)
        OBVIOUS
      <4>1. w2[i].lane \in 1..Len(Depth) /\ Len(Depth) \in Nat
        BY <1>5, InstructionsIn, OrderIs
      <4> QED BY <4>1 DEF WritebackOf
    <3> QED BY <1>5, <1>7, <1>16, <1>18, <1>19, <1>20, <2>1, <3>1, <3>2, InCycleEarly
  <2>2. CASE st = 1
    <3>1. 1 # ReadStage
      BY OrderIs DEF ReadStage
    <3>2. \A i \in 1..m : 1 <= WritebackOf(w2[i].lane)
      <4> SUFFICES ASSUME NEW i \in 1..m PROVE 1 <= WritebackOf(w2[i].lane)
        OBVIOUS
      <4>1. w2[i].lane \in 1..Len(Depth) /\ Len(Depth) \in Nat
        BY <1>5, InstructionsIn, OrderIs
      <4> QED BY <4>1 DEF WritebackOf
    <3> QED BY <2>2, <3>1, <3>2 DEF InCycle
  <2> QED BY <1>15, <2>1, <2>2
<1>24. SlotsHeld(w2, m, IQ)
  <2>1. PICK rank \in [IQSlot -> Nat] : Ranks(w, n, rank) /\ QueueHolds(IQ, Held(w, n), rank)
    BY <1>2 DEF SlotsHeld
  <2>2. PICK rank2 \in [IQSlot -> Nat] : \A s \in IQSlot : rank[s] # 0 => rank2[s] = rank[s] - 1
    <3>1. [s \in IQSlot |-> IF rank[s] = 0 THEN 0 ELSE rank[s] - 1] \in [IQSlot -> Nat]
      OBVIOUS
    <3> QED BY <3>1
  <2>3. ASSUME NEW i \in 1..n, w[i].at = "iq"
        PROVE  i - 1 \in 1..m /\ w2[i - 1] = w[i] /\ w[i].slot \in IQSlot
    <3>1. i # 1
      BY <1>3, <2>3
    <3>2. PICK j \in Nat : j = i - 1 /\ j \in 1..m /\ i = j + 1
      BY <1>5, <3>1
    <3> QED BY <1>1, <1>5, <3>2, InstructionsIn
  <2>4. Held(w2, m) = Held(w, n)
    <3>1. ASSUME NEW s \in Held(w, n) PROVE s \in Held(w2, m)
      <4>1. PICK i \in 1..n : w[i].at = "iq" /\ s = w[i].slot
        BY <3>1 DEF Held
      <4>2. PICK j \in 1..m : w2[j] = w[i]
        BY <2>3, <4>1
      <4> QED BY <4>1, <4>2 DEF Held
    <3>2. ASSUME NEW s \in Held(w2, m) PROVE s \in Held(w, n)
      <4>1. PICK i \in 1..m : w2[i].at = "iq" /\ s = w2[i].slot
        BY <3>2 DEF Held
      <4>2. PICK j \in 1..n : w[j] = w2[i]
        BY <1>5, <1>6
      <4> QED BY <4>1, <4>2 DEF Held
    <3> QED BY <3>1, <3>2
  <2>5. Ranks(w2, m, rank2)
    <3> SUFFICES ASSUME NEW i \in 1..m, w2[i].at = "iq" PROVE rank2[w2[i].slot] = i
      BY DEF Ranks
    <3>1. i + 1 \in 1..n /\ w2[i] = w[i + 1]
      BY <1>5, <1>6
    <3>2. rank[w2[i].slot] = i + 1 /\ w2[i].slot \in IQSlot
      BY <1>5, <2>1, <3>1, InstructionsIn DEF Ranks
    <3>3. i + 1 # 0 /\ (i + 1) - 1 = i
      OBVIOUS
    <3> QED BY <2>2, <3>2, <3>3
  <2>6. \A s \in Held(w, n) : rank[s] \in Nat \ {0} /\ rank2[s] = rank[s] - 1
    <3> SUFFICES ASSUME NEW s \in Held(w, n) PROVE rank[s] \in Nat \ {0} /\ rank2[s] = rank[s] - 1
      OBVIOUS
    <3>1. PICK i \in 1..n : w[i].at = "iq" /\ s = w[i].slot
      BY DEF Held
    <3>2. rank[s] = i /\ s \in IQSlot
      BY <2>1, <2>3, <3>1 DEF Ranks
    <3>3. i \in Nat \ {0}
      OBVIOUS
    <3>4. rank[s] \in Nat \ {0}
      BY <3>2, <3>3
    <3> QED BY <2>2, <3>2, <3>4
  <2>7. \A s, t \in Held(w, n) : rank[s] < rank[t] => rank2[s] < rank2[t]
    <3> SUFFICES ASSUME NEW s \in Held(w, n), NEW t \in Held(w, n), rank[s] < rank[t]
                 PROVE  rank2[s] < rank2[t]
      OBVIOUS
    <3>1. rank[s] - 1 < rank[t] - 1
      BY <2>6
    <3> QED BY <2>6, <3>1
  <2>8. QueueHolds(IQ, Held(w, n), rank2)
    BY <2>1, <2>7, RankChanged
  <2> QED BY <2>4, <2>5, <2>8 DEF SlotsHeld
<1>25. TypeOK'
  <2>1. rdy2 \in [Reg -> BOOLEAN] /\ regs2 \in [Reg -> Content]
    BY <1>4, <1>11, <1>12 DEF Content
  <2>2. st \in 1..Len(Order) /\ HasWork(Order[st], w2)
    <3>1. 1 \in 1..Len(Order)
      BY OrderIs
    <3> QED BY <1>15, <3>1 DEF StageAfter
  <2>3. UNCHANGED <<iqVars, part_next>>
    BY DEF Retire
  <2>4. Len(w2) <= ActiveListSize
    <3>1. n <= ActiveListSize
      BY <1>1 DEF Scheduled, TypeOK
    <3> QED BY <1>5, <3>1, SchedulerAssumption
  <2> QED BY <1>5, <1>7, <1>11, <1>12, <1>15, <2>1, <2>2, <2>3, <2>4 DEF Scheduled, TypeOK, iqVars
<1>26. IQ' = IQ
  BY DEF Retire, iqVars, IQ
<1>27. Consistent(w2, m, map2, rdy2, regs2, st, IQ)
  BY <1>16, <1>17, <1>18, <1>19, <1>20, <1>21, <1>22, <1>23, <1>24 DEF Consistent
<1> QED BY <1>5, <1>7, <1>11, <1>12, <1>15, <1>25, <1>26, <1>27 DEF Scheduled

-----------------------------------------------------------------------------
(* Taking slots off the free list and putting them back *)

\* The issue queue as a record.
Queue == [fl : [IQSlot -> IQSlot], head : IQSlot, tail : IQSlot, length : 0..IQsize, list : Seq(IQSlot)]

\* Positions of the free list behind its head.
LEMMA PositionIs ==
  ASSUME NEW h \in IQSlot, NEW k \in 1..(IQsize + 1)
  PROVE  /\ (h + k - 1) % IQsize \in IQSlot
         /\ (h + k - 1) % IQsize = IF h + k - 1 < IQsize THEN h + k - 1 ELSE h + k - 1 - IQsize
<1>1. PICK N \in Nat \ {0} : N = IQsize
  BY SchedulerAssumption
<1>2. h \in 0..(N - 1) /\ IQSlot = 0..(N - 1)
  BY <1>1 DEF IQSlot
<1>3. PICK x \in 0..(2 * N - 1) : x = h + k - 1
  <2>1. h + k - 1 \in 0..(2 * N - 1)
    BY <1>1, <1>2
  <2> QED BY <2>1
<1>4. x % N = IF x < N THEN x ELSE x - N
  BY ModOnce
<1>5. (IF x < N THEN x ELSE x - N) \in 0..(N - 1)
  BY <1>1
<1> QED BY <1>1, <1>2, <1>3, <1>4, <1>5

\* They are different ones.
LEMMA PositionsDiffer ==
  ASSUME NEW h \in IQSlot, NEW j \in 1..IQsize, NEW k \in 1..IQsize,
         (h + j - 1) % IQsize = (h + k - 1) % IQsize
  PROVE  j = k
<1>1. PICK N \in Nat \ {0} : N = IQsize
  BY SchedulerAssumption
<1>2. h \in 0..(N - 1)
  BY <1>1 DEF IQSlot
<1>3. j \in 1..(IQsize + 1) /\ k \in 1..(IQsize + 1)
  BY <1>1
<1>4. (IF h + j - 1 < N THEN h + j - 1 ELSE h + j - 1 - N) = (IF h + k - 1 < N THEN h + k - 1 ELSE h + k - 1 - N)
  BY <1>1, <1>3, PositionIs
<1>5. j \in 1..N /\ k \in 1..N
  BY <1>1
<1> QED BY <1>2, <1>4, <1>5

\* The head moves on, and each position is one less behind it.
LEMMA PositionMoves ==
  ASSUME NEW h \in IQSlot, NEW k \in 1..IQsize
  PROVE  /\ (h + 1) % IQsize \in IQSlot
         /\ (((h + 1) % IQsize) + k - 1) % IQsize = (h + (k + 1) - 1) % IQsize
<1>1. PICK N \in Nat \ {0} : N = IQsize
  BY SchedulerAssumption
<1>2. h \in 0..(N - 1) /\ IQSlot = 0..(N - 1)
  BY <1>1 DEF IQSlot
<1>3. PICK h2 \in IQSlot : h2 = (h + 1) % N /\ h2 = IF h + 1 < N THEN h + 1 ELSE 0
  <2>1. 2 \in 1..(IQsize + 1) /\ h + 2 - 1 = h + 1
    BY <1>1, <1>2
  <2>2. (h + 1) % N \in IQSlot /\ (h + 1) % N = IF h + 1 < N THEN h + 1 ELSE h + 1 - N
    BY <1>1, <2>1, PositionIs
  <2>3. ~(h + 1 < N) => h + 1 - N = 0
    BY <1>1, <1>2
  <2> QED BY <2>2, <2>3
<1>4. k \in 1..(IQsize + 1) /\ k + 1 \in 1..(IQsize + 1)
  BY <1>1
<1>5. (h2 + k - 1) % N = IF h2 + k - 1 < N THEN h2 + k - 1 ELSE h2 + k - 1 - N
  BY <1>1, <1>4, PositionIs
<1>6. (h + (k + 1) - 1) % N = IF h + (k + 1) - 1 < N THEN h + (k + 1) - 1 ELSE h + (k + 1) - 1 - N
  BY <1>1, <1>4, PositionIs
<1>7. k \in 1..N
  BY <1>1
<1>8. (IF h2 + k - 1 < N THEN h2 + k - 1 ELSE h2 + k - 1 - N)
        = (IF h + (k + 1) - 1 < N THEN h + (k + 1) - 1 ELSE h + (k + 1) - 1 - N)
  BY <1>2, <1>3, <1>7
<1> QED BY <1>1, <1>3, <1>5, <1>6, <1>8

\* A slot is at one position of a list.
OnlyAt(list, s, p) ==
  p \in 1..Len(list) /\ list[p] = s /\ \A k \in 1..Len(list) : list[k] = s => k = p

\* A slot leaves a list.
LEMMA UnlinkedIs ==
  ASSUME NEW list \in Seq(IQSlot), NEW s, NEW p, OnlyAt(list, s, p)
  PROVE  /\ Unlinked(list, s) \in Seq(IQSlot) /\ Len(Unlinked(list, s)) = Len(list) - 1
         /\ \A k \in 1..(Len(list) - 1) : Unlinked(list, s)[k] = IF k < p THEN list[k] ELSE list[k + 1]
<1>1. PICK n \in Nat : n = Len(list) /\ DOMAIN list = 1..n
  BY LenProperties
<1> p \in 1..Len(list) /\ p \in 1..n
  BY <1>1 DEF OnlyAt
<1>2. (CHOOSE k \in DOMAIN list : list[k] = s) = p
  BY <1>1 DEF OnlyAt
<1>3. PICK a \in Seq(IQSlot) : /\ a = SubSeq(list, 1, p - 1) /\ Len(a) = p - 1
                               /\ \A i \in 1..(p - 1) : a[i] = list[i]
  <2>1. 1 \in Int /\ p - 1 \in Int /\ \A i \in 1..(p - 1) : list[i] \in IQSlot
    <3>1. \A i \in 1..(p - 1) : i \in 1..Len(list)
      BY <1>1
    <3> QED BY <1>1, <3>1, ElementOfSeq
  <2>2. /\ SubSeq(list, 1, p - 1) \in Seq(IQSlot)
        /\ Len(SubSeq(list, 1, p - 1)) = IF 1 <= p - 1 THEN p - 1 - 1 + 1 ELSE 0
        /\ \A i \in 1..(p - 1 - 1 + 1) : SubSeq(list, 1, p - 1)[i] = list[1 + i - 1]
    BY <2>1, SubSeqProperties
  <2>3. (IF 1 <= p - 1 THEN p - 1 - 1 + 1 ELSE 0) = p - 1 /\ p - 1 - 1 + 1 = p - 1
    BY <1>1
  <2>4. \A i \in 1..(p - 1) : 1 + i - 1 = i
    OBVIOUS
  <2> QED BY <2>2, <2>3, <2>4
<1>4. PICK b \in Seq(IQSlot) : /\ b = SubSeq(list, p + 1, n) /\ Len(b) = n - p
                               /\ \A i \in 1..(n - p) : b[i] = list[p + i]
  <2>1. p + 1 \in Int /\ n \in Int /\ \A i \in (p + 1)..n : list[i] \in IQSlot
    <3>1. \A i \in (p + 1)..n : i \in 1..Len(list)
      BY <1>1
    <3> QED BY <1>1, <3>1, ElementOfSeq
  <2>2. /\ SubSeq(list, p + 1, n) \in Seq(IQSlot)
        /\ Len(SubSeq(list, p + 1, n)) = IF p + 1 <= n THEN n - (p + 1) + 1 ELSE 0
        /\ \A i \in 1..(n - (p + 1) + 1) : SubSeq(list, p + 1, n)[i] = list[p + 1 + i - 1]
    BY <2>1, SubSeqProperties
  <2>3. (IF p + 1 <= n THEN n - (p + 1) + 1 ELSE 0) = n - p /\ n - (p + 1) + 1 = n - p
    BY <1>1
  <2>4. \A i \in 1..(n - p) : p + 1 + i - 1 = p + i
    BY <1>1
  <2>5. PICK b \in Seq(IQSlot) : b = SubSeq(list, p + 1, n)
    BY <2>2
  <2>6. Len(b) = n - p
    BY <2>2, <2>3, <2>5
  <2>7. \A i \in 1..(n - p) : b[i] = list[p + i]
    <3> SUFFICES ASSUME NEW i \in 1..(n - p) PROVE b[i] = list[p + i]
      OBVIOUS
    <3>1. i \in 1..(n - (p + 1) + 1)
      BY <2>3
    <3>2. b[i] = list[p + 1 + i - 1]
      BY <2>2, <2>5, <3>1
    <3> QED BY <2>4, <3>2
  <2> QED BY <2>5, <2>6, <2>7
<1>5. Unlinked(list, s) = a \o b
  BY <1>1, <1>2, <1>3, <1>4 DEF Unlinked, RemoveAt
<1>6. /\ a \o b \in Seq(IQSlot) /\ Len(a \o b) = Len(a) + Len(b)
      /\ \A i \in 1..(Len(a) + Len(b)) : (a \o b)[i] = IF i <= Len(a) THEN a[i] ELSE b[i - Len(a)]
  BY ConcatProperties
<1>7. Len(a) + Len(b) = n - 1
  <2>1. p \in Int /\ (p - 1) + (n - p) = n - 1
    OBVIOUS
  <2> QED BY <1>3, <1>4, <2>1
<1>8. ASSUME NEW k \in 1..(n - 1) PROVE (a \o b)[k] = IF k < p THEN list[k] ELSE list[k + 1]
  <2>1. CASE k < p
    <3>1. k \in 1..(p - 1) /\ k <= Len(a)
      BY <1>1, <1>3, <2>1
    <3>2. (a \o b)[k] = a[k]
      BY <1>6, <1>7, <3>1
    <3> QED BY <1>3, <2>1, <3>1, <3>2
  <2>2. CASE ~(k < p)
    <3>1. k - (p - 1) \in 1..(n - p) /\ ~(k <= Len(a)) /\ p + (k - (p - 1)) = k + 1
      BY <1>1, <1>3, <2>2
    <3>2. (a \o b)[k] = b[k - (p - 1)]
      BY <1>3, <1>6, <1>7, <3>1
    <3> QED BY <1>4, <2>2, <3>1, <3>2
  <2> QED BY <2>1, <2>2
<1> QED BY <1>1, <1>5, <1>6, <1>7, <1>8

\* A slot that is held is at one position of the list.
LEMMA ListedOnce ==
  ASSUME NEW q \in Queue, NEW H, NEW rank \in [IQSlot -> Nat], QueueHolds(q, H, rank),
         NEW j \in 1..Len(q.list), NEW k \in 1..Len(q.list), q.list[j] = q.list[k]
  PROVE  j = k
<1>1. q.list \in Seq(IQSlot) /\ Len(q.list) \in Nat
  BY LenProperties DEF Queue
<1>2. q.list[j] \in IQSlot
  BY <1>1, ElementOfSeq
<1>3. rank[q.list[j]] \in Nat
  BY <1>2
<1>4. \A i, l \in 1..Len(q.list) : i < l => rank[q.list[i]] < rank[q.list[l]]
  BY DEF QueueHolds
<1>5. ~(j < k) /\ ~(k < j)
  BY <1>3, <1>4
<1> QED BY <1>1, <1>5

\* Dispatch takes the slot at the head of the free list.
Popped(q) ==
  [fl |-> [q.fl EXCEPT ![q.head] = 0], head |-> (q.head + 1) % IQsize, tail |-> q.tail,
   length |-> q.length - 1, list |-> Append(q.list, q.fl[q.head])]

\* It was free, and is held by what is youngest then.
LEMMA PopHolds ==
  ASSUME NEW q \in Queue, NEW H \in SUBSET IQSlot, NEW rank, QueueHolds(q, H, rank), q.length > 0
  PROVE  /\ Popped(q) \in Queue /\ q.fl[q.head] \in IQSlot \ H
         /\ \A rank2 : /\ \A s \in H : rank2[s] = rank[s]
                       /\ \A s \in H : rank2[s] < rank2[q.fl[q.head]]
                       => QueueHolds(Popped(q), H \cup {q.fl[q.head]}, rank2)
<1>1. PICK N \in Nat \ {0} : N = IQsize /\ IQSlot = 0..(N - 1)
  BY SchedulerAssumption DEF IQSlot
<1>2. PICK fr \in [IQSlot -> IQSlot], h \in IQSlot, t \in IQSlot, len \in 1..N, list \in Seq(IQSlot) :
        fr = q.fl /\ h = q.head /\ t = q.tail /\ len = q.length /\ list = q.list
  <2>1. q.length \in 1..N
    BY <1>1 DEF Queue
  <2> QED BY <2>1 DEF Queue
<1>3. PICK slot \in IQSlot : slot = fr[h]
  BY <1>2
<1>4. /\ t = (h + len) % N
      /\ \A k \in 1..len : FreeAt(q, k) \notin H
      /\ \A j, k \in 1..len : FreeAt(q, j) = FreeAt(q, k) => j = k
      /\ \A s \in IQSlot \ H : \E k \in 1..len : FreeAt(q, k) = s
      /\ len + Len(list) = N
      /\ \A k \in 1..Len(list) : list[k] \in H
      /\ \A s \in H : \E k \in 1..Len(list) : list[k] = s
      /\ \A j, k \in 1..Len(list) : j < k => rank[list[j]] < rank[list[k]]
  BY <1>1, <1>2 DEF QueueHolds
<1>5. FreeAt(q, 1) = slot /\ (h + 1 - 1) % N = h /\ 1 \in 1..len
  <2>1. 1 \in 1..(IQsize + 1) /\ h + 1 - 1 = h /\ h < N
    BY <1>1
  <2>2. (h + 1 - 1) % N = IF h + 1 - 1 < N THEN h + 1 - 1 ELSE h + 1 - 1 - N
    BY <1>1, <2>1, PositionIs
  <2>3. (h + 1 - 1) % N = h /\ 1 \in 1..len
    BY <1>2, <2>1, <2>2
  <2> QED BY <1>1, <1>2, <1>3, <2>3 DEF FreeAt
<1>6. slot \in IQSlot \ H
  BY <1>4, <1>5
<1>7. PICK m \in Nat, h2 \in IQSlot, fr2 \in [IQSlot -> IQSlot], l2 \in Seq(IQSlot) :
        /\ m = len - 1 /\ h2 = (h + 1) % N /\ fr2 = [fr EXCEPT ![h] = 0] /\ l2 = Append(list, slot)
  <2>1. 0 \in IQSlot /\ len - 1 \in Nat
    <3>1. 0 \in 0..(N - 1) /\ len - 1 \in Nat
      OBVIOUS
    <3> QED BY <1>1, <3>1
  <2>2. 1 \in 1..IQsize
    BY <1>1
  <2>3. (h + 1) % N \in IQSlot
    BY <1>1, <2>2, PositionMoves
  <2>4. Append(list, slot) \in Seq(IQSlot)
    BY AppendProperties
  <2> QED BY <2>1, <2>3, <2>4
<1>8. /\ m \in 0..N /\ m \in 0..IQsize /\ Len(list) \in Nat /\ Len(l2) = Len(list) + 1 /\ l2[Len(list) + 1] = slot
      /\ \A k \in 1..Len(list) : l2[k] = list[k]
  BY <1>1, <1>7, AppendProperties, LenProperties
<1>9. PICK q2 \in Queue : /\ q2 = Popped(q) /\ q2.fl = fr2 /\ q2.head = h2 /\ q2.tail = t
                          /\ q2.length = m /\ q2.list = l2
  <2>1. Popped(q) = [fl |-> fr2, head |-> h2, tail |-> t, length |-> m, list |-> l2]
    BY <1>1, <1>2, <1>3, <1>7 DEF Popped
  <2>2. PICK q2 : q2 = [fl |-> fr2, head |-> h2, tail |-> t, length |-> m, list |-> l2]
    OBVIOUS
  <2>3. q2 \in Queue
    BY <1>8, <2>2 DEF Queue
  <2> QED BY <2>1, <2>2, <2>3
<1>10. \A k \in 1..m : /\ k + 1 \in 1..len /\ (h2 + k - 1) % N = (h + (k + 1) - 1) % N
                       /\ FreeAt(q2, k) = FreeAt(q, k + 1)
  <2> SUFFICES ASSUME NEW k \in 1..m
               PROVE  /\ k + 1 \in 1..len /\ (h2 + k - 1) % N = (h + (k + 1) - 1) % N
                      /\ FreeAt(q2, k) = FreeAt(q, k + 1)
    OBVIOUS
  <2>1. k + 1 \in 1..len /\ k \in 1..IQsize /\ k + 1 \in 1..IQsize /\ 1 \in 1..IQsize /\ k + 1 # 1
    <3>1. k + 1 \in 1..len /\ k \in 1..N /\ k + 1 \in 1..N /\ 1 \in 1..N /\ k + 1 # 1
      BY <1>7
    <3> QED BY <1>1, <3>1
  <2>2. (h2 + k - 1) % N = (h + (k + 1) - 1) % N
    <3>1. (((h + 1) % IQsize) + k - 1) % IQsize = (h + (k + 1) - 1) % IQsize
      BY <2>1, PositionMoves
    <3> QED BY <1>1, <1>7, <3>1
  <2>3. (h + (k + 1) - 1) % N # h
    BY <1>1, <1>5, <2>1, PositionsDiffer
  <2>4. (h + (k + 1) - 1) % N \in IQSlot
    <3>1. k + 1 \in 1..(IQsize + 1)
      BY <1>1, <2>1
    <3> QED BY <1>1, <3>1, PositionIs
  <2>5. FreeAt(q2, k) = FreeAt(q, k + 1)
    <3>1. FreeAt(q2, k) = fr2[(h + (k + 1) - 1) % N]
      BY <1>1, <1>9, <2>2 DEF FreeAt
    <3>2. FreeAt(q, k + 1) = fr[(h + (k + 1) - 1) % N]
      BY <1>1, <1>2 DEF FreeAt
    <3> QED BY <1>7, <2>3, <2>4, <3>1, <3>2
  <2> QED BY <2>1, <2>2, <2>5
<1>11. t = (h2 + m) % N
  <2>1. len \in 1..IQsize
    BY <1>1
  <2>2. (h2 + len - 1) % N = (h + (len + 1) - 1) % N
    <3>1. (((h + 1) % IQsize) + len - 1) % IQsize = (h + (len + 1) - 1) % IQsize
      BY <2>1, PositionMoves
    <3> QED BY <1>1, <1>7, <3>1
  <2>3. h2 + len - 1 = h2 + m /\ h + (len + 1) - 1 = h + len
    BY <1>1, <1>7
  <2> QED BY <1>4, <2>2, <2>3
<1>12. \A k \in 1..m : FreeAt(q2, k) \notin H \cup {slot}
  <2> SUFFICES ASSUME NEW k \in 1..m PROVE FreeAt(q2, k) \notin H \cup {slot}
    OBVIOUS
  <2>1. FreeAt(q, k + 1) \notin H
    BY <1>4, <1>10
  <2>2. k + 1 # 1
    BY <1>7
  <2>3. FreeAt(q, k + 1) # slot
    BY <1>4, <1>5, <1>10, <2>2
  <2> QED BY <1>10, <2>1, <2>3
<1>13. \A j, k \in 1..m : FreeAt(q2, j) = FreeAt(q2, k) => j = k
  <2> SUFFICES ASSUME NEW j \in 1..m, NEW k \in 1..m, FreeAt(q2, j) = FreeAt(q2, k)
               PROVE  j = k
    OBVIOUS
  <2>1. j + 1 = k + 1
    BY <1>4, <1>10
  <2> QED BY <1>7, <2>1
<1>14. \A s \in IQSlot \ (H \cup {slot}) : \E k \in 1..m : FreeAt(q2, k) = s
  <2> SUFFICES ASSUME NEW s \in IQSlot, s \notin H, s # slot
               PROVE  \E k \in 1..m : FreeAt(q2, k) = s
    OBVIOUS
  <2>1. PICK k \in 1..len : FreeAt(q, k) = s
    BY <1>4
  <2>2. k # 1
    BY <1>5, <2>1
  <2>3. PICK j \in 1..m : k = j + 1
    <3>1. k - 1 \in 1..m /\ k = (k - 1) + 1
      BY <1>7, <2>2
    <3> QED BY <3>1
  <2> QED BY <1>10, <2>1, <2>3
<1>15. m + Len(l2) = N
  <2>1. PICK l \in Nat : l = Len(list) /\ Len(l2) = l + 1 /\ len + l = N
    BY <1>4, <1>8
  <2>2. m = len - 1 /\ (len - 1) + (l + 1) = len + l
    BY <1>7
  <2> QED BY <2>1, <2>2
<1>16. \A k \in 1..Len(l2) : (k \in 1..Len(list) /\ l2[k] = list[k]) \/ (k = Len(list) + 1 /\ l2[k] = slot)
  <2> SUFFICES ASSUME NEW k \in 1..Len(l2)
               PROVE  (k \in 1..Len(list) /\ l2[k] = list[k]) \/ (k = Len(list) + 1 /\ l2[k] = slot)
    OBVIOUS
  <2>1. k \in 1..Len(list) \/ k = Len(list) + 1
    BY <1>8
  <2> QED BY <1>8, <2>1
<1>17. \A k \in 1..Len(l2) : l2[k] \in H \cup {slot}
  BY <1>4, <1>16
<1>18. \A s \in H \cup {slot} : \E k \in 1..Len(l2) : l2[k] = s
  <2>1. \A k \in 1..Len(list) : k \in 1..Len(l2)
    BY <1>8
  <2>2. Len(list) + 1 \in 1..Len(l2)
    BY <1>8
  <2> QED BY <1>4, <1>8, <2>1, <2>2
<1>19. ASSUME NEW rank2, \A s \in H : rank2[s] = rank[s], \A s \in H : rank2[s] < rank2[slot]
       PROVE  QueueHolds(q2, H \cup {slot}, rank2)
  <2>1. \A j, k \in 1..Len(l2) : j < k => rank2[l2[j]] < rank2[l2[k]]
    <3> SUFFICES ASSUME NEW j \in 1..Len(l2), NEW k \in 1..Len(l2), j < k
                 PROVE  rank2[l2[j]] < rank2[l2[k]]
      OBVIOUS
    <3>1. j \in 1..Len(list) /\ l2[j] = list[j]
      <4>1. j # Len(list) + 1
        BY <1>8
      <4> QED BY <1>16, <4>1
    <3>2. list[j] \in H
      BY <1>4, <3>1
    <3>3. CASE k \in 1..Len(list) /\ l2[k] = list[k]
      <4>1. list[k] \in H /\ rank[list[j]] < rank[list[k]]
        BY <1>4, <3>1, <3>3
      <4> QED BY <1>19, <3>1, <3>2, <3>3, <4>1
    <3>4. CASE l2[k] = slot
      BY <1>19, <3>1, <3>2, <3>4
    <3> QED BY <1>16, <3>3, <3>4
  <2>2. q2.fl \in [IQSlot -> IQSlot] /\ q2.head \in IQSlot /\ q2.tail \in IQSlot /\ q2.length \in 0..IQsize
    BY <1>8, <1>9
  <2>3. PICK G : G = H \cup {slot}
    OBVIOUS
  <2>4. /\ q2.tail = (q2.head + q2.length) % IQsize
        /\ q2.list \in Seq(IQSlot) /\ q2.length + Len(q2.list) = IQsize
    BY <1>1, <1>9, <1>11, <1>15
  <2>5. /\ \A k \in 1..q2.length : FreeAt(q2, k) \notin G
        /\ \A j, k \in 1..q2.length : FreeAt(q2, j) = FreeAt(q2, k) => j = k
        /\ \A s \in IQSlot \ G : \E k \in 1..q2.length : FreeAt(q2, k) = s
    BY <1>9, <1>12, <1>13, <1>14, <2>3
  <2>6. /\ \A k \in 1..Len(q2.list) : q2.list[k] \in G
        /\ \A s \in G : \E k \in 1..Len(q2.list) : q2.list[k] = s
        /\ \A j, k \in 1..Len(q2.list) : j < k => rank2[q2.list[j]] < rank2[q2.list[k]]
    BY <1>9, <1>17, <1>18, <2>1, <2>3
  <2>7. QueueHolds(q2, G, rank2)
    BY <2>2, <2>4, <2>5, <2>6 DEF QueueHolds
  <2> QED BY <2>3, <2>7
<1> QED BY <1>2, <1>3, <1>6, <1>9, <1>19

\* A slot that is held leaves the list and is free.
LEMMA RemoveHolds ==
  ASSUME NEW q \in Queue, NEW H \in SUBSET IQSlot, NEW rank \in [IQSlot -> Nat], QueueHolds(q, H, rank),
         NEW s \in H
  PROVE  remove(q, s) \in Queue /\ QueueHolds(remove(q, s), H \ {s}, rank)
<1>1. PICK N \in Nat \ {0} : N = IQsize /\ IQSlot = 0..(N - 1)
  BY SchedulerAssumption DEF IQSlot
<1>2. PICK fr \in [IQSlot -> IQSlot], h \in IQSlot, t \in IQSlot, len \in 0..N, list \in Seq(IQSlot) :
        fr = q.fl /\ h = q.head /\ t = q.tail /\ len = q.length /\ list = q.list
  BY <1>1 DEF Queue
<1>3. /\ t = (h + len) % N
      /\ \A k \in 1..len : FreeAt(q, k) \notin H
      /\ \A j, k \in 1..len : FreeAt(q, j) = FreeAt(q, k) => j = k
      /\ \A r \in IQSlot \ H : \E k \in 1..len : FreeAt(q, k) = r
      /\ len + Len(list) = N
      /\ \A k \in 1..Len(list) : list[k] \in H
      /\ \A r \in H : \E k \in 1..Len(list) : list[k] = r
      /\ \A j, k \in 1..Len(list) : j < k => rank[list[j]] < rank[list[k]]
  BY <1>1, <1>2 DEF QueueHolds
<1>4. PICK p \in 1..Len(list) : list[p] = s
  BY <1>3
<1>5. PICK l \in Nat : l = Len(list)
  BY LenProperties
<1>6. \A j, k \in 1..l : list[j] = list[k] => j = k
  BY <1>2, <1>5, ListedOnce
<1>7. l > 0 /\ len < N /\ p \in 1..l /\ len + l = N
  BY <1>3, <1>4, <1>5
<1>8. PICK t2 \in IQSlot, m \in 1..N, fr2 \in [IQSlot -> IQSlot] :
        t2 = (t + 1) % N /\ m = len + 1 /\ fr2 = [fr EXCEPT ![t] = s]
  <2>1. (t + 1) % N \in IQSlot
    <3>1. 1 \in 1..IQsize
      BY <1>1
    <3> QED BY <1>1, <3>1, PositionMoves
  <2>2. len + 1 \in 1..N
    BY <1>7
  <2> QED BY <2>1, <2>2
<1>9. PICK l2 \in Seq(IQSlot) : /\ l2 = Unlinked(list, s) /\ Len(l2) = l - 1
                                /\ \A k \in 1..(l - 1) : l2[k] = IF k < p THEN list[k] ELSE list[k + 1]
  <2>1. OnlyAt(list, s, p)
    BY <1>4, <1>5, <1>6 DEF OnlyAt
  <2>2. /\ Unlinked(list, s) \in Seq(IQSlot) /\ Len(Unlinked(list, s)) = Len(list) - 1
        /\ \A k \in 1..(Len(list) - 1) : Unlinked(list, s)[k] = IF k < p THEN list[k] ELSE list[k + 1]
    BY <2>1, UnlinkedIs
  <2> QED BY <1>5, <2>2
<1>10. PICK q2 \in Queue : /\ q2 = remove(q, s) /\ q2.fl = fr2 /\ q2.head = h /\ q2.tail = t2
                           /\ q2.length = m /\ q2.list = l2
  <2>1. remove(q, s) = [q EXCEPT !.fl = fr2, !.tail = t2, !.length = m, !.list = l2]
    BY <1>1, <1>2, <1>8, <1>9 DEF remove, Queue
  <2>2. PICK q2 : q2 = [q EXCEPT !.fl = fr2, !.tail = t2, !.length = m, !.list = l2]
    OBVIOUS
  <2>3. m \in 0..IQsize
    BY <1>1
  <2>4. q2 \in Queue
    BY <2>2, <2>3 DEF Queue
  <2>5. q2.fl = fr2 /\ q2.head = h /\ q2.tail = t2 /\ q2.length = m /\ q2.list = l2
    BY <1>2, <2>2 DEF Queue
  <2> QED BY <2>1, <2>2, <2>4, <2>5
<1>11. /\ \A k \in 1..len : /\ (h + k - 1) % N \in IQSlot /\ (h + k - 1) % N # t
                            /\ FreeAt(q2, k) = FreeAt(q, k)
       /\ FreeAt(q2, len + 1) = s /\ s \in IQSlot
  <2>1. t = (h + (len + 1) - 1) % N
    <3>1. h + (len + 1) - 1 = h + len
      BY <1>1
    <3> QED BY <1>3, <3>1
  <2>2. \A k \in 1..len : (h + k - 1) % N \in IQSlot /\ (h + k - 1) % N # t
    <3> SUFFICES ASSUME NEW k \in 1..len PROVE (h + k - 1) % N \in IQSlot /\ (h + k - 1) % N # t
      OBVIOUS
    <3>1. k \in 1..IQsize /\ len + 1 \in 1..IQsize /\ k # len + 1 /\ k \in 1..(IQsize + 1)
      BY <1>1, <1>7
    <3>2. (h + k - 1) % N \in IQSlot
      BY <1>1, <3>1, PositionIs
    <3>3. (h + k - 1) % N # (h + (len + 1) - 1) % N
      BY <1>1, <3>1, PositionsDiffer
    <3> QED BY <2>1, <3>2, <3>3
  <2>3. ASSUME NEW k \in 1..len PROVE FreeAt(q2, k) = FreeAt(q, k)
    <3>1. FreeAt(q2, k) = fr2[(h + k - 1) % N] /\ FreeAt(q, k) = fr[(h + k - 1) % N]
      BY <1>1, <1>2, <1>10 DEF FreeAt
    <3> QED BY <1>8, <2>2, <3>1
  <2>4. FreeAt(q2, len + 1) = s /\ s \in IQSlot
    <3>1. FreeAt(q2, len + 1) = fr2[(h + (len + 1) - 1) % N]
      BY <1>1, <1>10 DEF FreeAt
    <3> QED BY <1>8, <2>1, <3>1
  <2> QED BY <2>2, <2>3, <2>4
<1>12. t2 = (h + m) % N
  <2>1. len \in 1..IQsize \/ len = 0
    BY <1>1
  <2>2. (((h + 1) % N) + m - 1) % N = (h + (m + 1) - 1) % N
    <3>1. m \in 1..IQsize
      BY <1>1
    <3> QED BY <1>1, <3>1, PositionMoves
  <2>3. PICK h3 \in 0..(N - 1) : h3 = h
    BY <1>1
  <2>4. /\ t = IF h3 + len < N THEN h3 + len ELSE h3 + len - N
        /\ t2 = IF t + 1 < N THEN t + 1 ELSE t + 1 - N
        /\ (h + m) % N = IF h3 + m < N THEN h3 + m ELSE h3 + m - N
    <3>1. len + 1 \in 1..(IQsize + 1) /\ 2 \in 1..(IQsize + 1) /\ m + 1 \in 1..(IQsize + 1)
      BY <1>1, <1>7, <1>8
    <3>2. h + (len + 1) - 1 = h + len /\ t + 2 - 1 = t + 1 /\ h + (m + 1) - 1 = h + m
      BY <1>1
    <3>3. (h + (len + 1) - 1) % N = IF h + (len + 1) - 1 < N THEN h + (len + 1) - 1 ELSE h + (len + 1) - 1 - N
      BY <1>1, <3>1, PositionIs
    <3>4. (t + 2 - 1) % N = IF t + 2 - 1 < N THEN t + 2 - 1 ELSE t + 2 - 1 - N
      BY <1>1, <3>1, PositionIs
    <3>5. (h + (m + 1) - 1) % N = IF h + (m + 1) - 1 < N THEN h + (m + 1) - 1 ELSE h + (m + 1) - 1 - N
      BY <1>1, <3>1, PositionIs
    <3> QED BY <1>3, <1>8, <2>3, <3>2, <3>3, <3>4, <3>5
  <2> QED BY <1>7, <1>8, <2>3, <2>4
<1>13. \A k \in 1..m : k \in 1..len \/ k = len + 1
  BY <1>8
<1>14. \A k \in 1..m : FreeAt(q2, k) \notin H \ {s}
  BY <1>3, <1>11, <1>13
<1>15. \A j, k \in 1..m : FreeAt(q2, j) = FreeAt(q2, k) => j = k
  <2> SUFFICES ASSUME NEW j \in 1..m, NEW k \in 1..m, FreeAt(q2, j) = FreeAt(q2, k) PROVE j = k
    OBVIOUS
  <2>1. \A i \in 1..len : FreeAt(q, i) # s /\ FreeAt(q2, i) = FreeAt(q, i)
    BY <1>3, <1>11
  <2>2. CASE j \in 1..len /\ k \in 1..len
    BY <1>3, <2>1, <2>2
  <2>3. CASE j = len + 1 \/ k = len + 1
    BY <1>11, <1>13, <2>1, <2>3
  <2> QED BY <1>13, <2>2, <2>3
<1>16. \A r \in IQSlot \ (H \ {s}) : \E k \in 1..m : FreeAt(q2, k) = r
  <2>1. \A k \in 1..len : k \in 1..m
    BY <1>8
  <2>2. len + 1 \in 1..m
    BY <1>7, <1>8
  <2> QED BY <1>3, <1>11, <2>1, <2>2
<1>17. m + Len(l2) = N
  BY <1>7, <1>8, <1>9
<1>18. \A k \in 1..(l - 1) : k \in 1..l /\ k + 1 \in 1..l
  BY <1>5
<1>19. \A k \in 1..(l - 1) : l2[k] \in H \ {s}
  <2> SUFFICES ASSUME NEW k \in 1..(l - 1) PROVE l2[k] \in H \ {s}
    OBVIOUS
  <2>1. CASE k < p
    <3>1. k # p /\ k \in 1..l
      BY <1>18, <2>1
    <3>2. list[k] \in H /\ list[k] # s
      BY <1>3, <1>4, <1>5, <1>6, <1>7, <3>1
    <3> QED BY <1>9, <2>1, <3>2
  <2>2. CASE ~(k < p)
    <3>1. k + 1 # p /\ k + 1 \in 1..l
      BY <1>7, <1>18, <2>2
    <3>2. list[k + 1] \in H /\ list[k + 1] # s
      BY <1>3, <1>4, <1>5, <1>6, <1>7, <3>1
    <3> QED BY <1>9, <2>2, <3>2
  <2> QED BY <2>1, <2>2
<1>20. \A r \in H \ {s} : \E k \in 1..(l - 1) : l2[k] = r
  <2> SUFFICES ASSUME NEW r \in H, r # s PROVE \E k \in 1..(l - 1) : l2[k] = r
    OBVIOUS
  <2>1. PICK k \in 1..l : list[k] = r
    BY <1>3, <1>5
  <2>2. k # p
    BY <1>4, <2>1
  <2>3. CASE k < p
    <3>1. k \in 1..(l - 1)
      BY <1>7, <2>3
    <3> QED BY <1>9, <2>1, <2>3, <3>1
  <2>4. CASE ~(k < p)
    <3>1. PICK i \in 1..(l - 1) : k = i + 1 /\ ~(i < p)
      <4>1. k - 1 \in 1..(l - 1) /\ k = (k - 1) + 1 /\ ~(k - 1 < p)
        BY <1>7, <2>2, <2>4
      <4> QED BY <4>1
    <3> QED BY <1>9, <2>1, <3>1
  <2> QED BY <2>3, <2>4
<1>21. \A j, k \in 1..(l - 1) : j < k => rank[l2[j]] < rank[l2[k]]
  <2> SUFFICES ASSUME NEW j \in 1..(l - 1), NEW k \in 1..(l - 1), j < k
               PROVE  rank[l2[j]] < rank[l2[k]]
    OBVIOUS
  <2>1. PICK a \in 1..l : l2[j] = list[a] /\ a = IF j < p THEN j ELSE j + 1
    BY <1>9, <1>18
  <2>2. PICK b \in 1..l : l2[k] = list[b] /\ b = IF k < p THEN k ELSE k + 1
    BY <1>9, <1>18
  <2>3. a < b
    <3>1. (IF j < p THEN j ELSE j + 1) < (IF k < p THEN k ELSE k + 1)
      <4>1. p \in Int /\ j \in Int /\ k \in Int
        BY <1>7
      <4> QED BY <4>1
    <3> QED BY <2>1, <2>2, <3>1
  <2> QED BY <1>3, <1>5, <2>1, <2>2, <2>3
<1>22. q2.fl \in [IQSlot -> IQSlot] /\ q2.head \in IQSlot /\ q2.tail \in IQSlot /\ q2.length \in 0..IQsize
  <2>1. m \in 0..N
    OBVIOUS
  <2> QED BY <1>1, <1>10, <2>1
<1>23. /\ \A k \in 1..Len(l2) : l2[k] \in H \ {s}
       /\ \A r \in H \ {s} : \E k \in 1..Len(l2) : l2[k] = r
       /\ \A j, k \in 1..Len(l2) : j < k => rank[l2[j]] < rank[l2[k]]
  <2>1. 1..Len(l2) = 1..(l - 1)
    BY <1>9
  <2> QED BY <1>19, <1>20, <1>21, <2>1
<1>24. QueueHolds(q2, H \ {s}, rank)
  <2>1. PICK G : G = H \ {s}
    OBVIOUS
  <2>2. /\ q2.tail = (q2.head + q2.length) % IQsize
        /\ q2.list \in Seq(IQSlot) /\ q2.length + Len(q2.list) = IQsize
    BY <1>1, <1>10, <1>12, <1>17
  <2>3. /\ \A k \in 1..q2.length : FreeAt(q2, k) \notin G
        /\ \A j, k \in 1..q2.length : FreeAt(q2, j) = FreeAt(q2, k) => j = k
        /\ \A r \in IQSlot \ G : \E k \in 1..q2.length : FreeAt(q2, k) = r
    BY <1>10, <1>14, <1>15, <1>16, <2>1
  <2>4. /\ \A k \in 1..Len(q2.list) : q2.list[k] \in G
        /\ \A r \in G : \E k \in 1..Len(q2.list) : q2.list[k] = r
        /\ \A j, k \in 1..Len(q2.list) : j < k => rank[q2.list[j]] < rank[q2.list[k]]
    BY <1>10, <1>23, <2>1
  <2>5. QueueHolds(q2, G, rank)
    BY <1>22, <2>2, <2>3, <2>4 DEF QueueHolds
  <2> QED BY <2>1, <2>5
<1> QED BY <1>10, <1>24

-----------------------------------------------------------------------------
(* Dispatch *)

\* What a logical register is mapped to depends on the instructions in front only.
LEMMA MappedStill ==
  ASSUME NEW w, NEW w2, NEW map, NEW i \in Nat, NEW l, NEW r,
         \A j \in 1..(i - 1) : w2[j] = w[j], MappedAt(w, map, l, i, r)
  PROVE  MappedAt(w2, map, l, i, r)
<1>1. \A j \in 1..(i - 1) : \A k \in (j + 1)..(i - 1) : k \in 1..(i - 1)
  OBVIOUS
<1> QED BY <1>1 DEF MappedAt

\* A source is a committed register or the destination of an older instruction.
LEMMA SourceNamed ==
  ASSUME NEW n \in Nat, NEW w, NEW map, SourcesMapped(w, n, map),
         NEW i \in 1..n, NEW r \in w[i].srcs
  PROVE  (\E l \in LogReg : map[l] = r) \/ \E j \in 1..n : j < i /\ w[j].dst = r
<1>1. PICK l \in LogReg : MappedAt(w, map, l, i, r)
  BY DEF SourcesMapped
<1>2. \A j \in 1..(i - 1) : j \in 1..n /\ j < i
  OBVIOUS
<1> QED BY <1>1, <1>2 DEF MappedAt

\* The mapping of a logical register behind all instructions in flight.
LEMMA MappingIs ==
  ASSUME Scheduled, NEW n \in Nat, NEW w \in Seq(Instruction), w = inflight, n = Len(w), NEW l \in LogReg
  PROVE  /\ Mapping(l) \in Reg /\ MappedAt(w, amt, l, n + 1, Mapping(l))
         /\ (\E k \in LogReg : amt[k] = Mapping(l)) \/ \E j \in 1..n : w[j].dst = Mapping(l)
<1>1. PICK S : S = {i \in 1..n : w[i].log = l}
  OBVIOUS
<1>2. Mapping(l) = IF S = {} THEN amt[l] ELSE w[Max(S)].dst
  BY <1>1 DEF Mapping
<1>3. \A i \in 1..n : FieldsAgree(w[i]) /\ w[i].dst \in Reg \cup {NoReg}
  BY InstructionsIn DEF Scheduled, Consistent
<1>4. (n + 1) - 1 = n
  OBVIOUS
<1>5. CASE S = {}
  <2>1. Mapping(l) = amt[l] /\ \A j \in 1..n : w[j].log # l
    BY <1>1, <1>2, <1>5
  <2>2. Mapping(l) \in Reg
    BY <2>1 DEF Scheduled, TypeOK
  <2>3. MappedAt(w, amt, l, n + 1, Mapping(l))
    BY <1>4, <2>1 DEF MappedAt
  <2> QED BY <2>1, <2>2, <2>3
<1>6. CASE S # {}
  <2>1. PICK i \in S : i = Max(S) /\ \A j \in S : i >= j
    <3>1. S \in SUBSET (1..n)
      BY <1>1
    <3> QED BY <1>6, <3>1, MaxIs
  <2>2. i \in 1..n /\ w[i].log = l /\ Mapping(l) = w[i].dst
    BY <1>1, <1>2, <1>6, <2>1
  <2>3. l # NoReg
    BY SchedulerAssumption
  <2>4. w[i].dst \in Reg
    BY <1>3, <2>2, <2>3 DEF FieldsAgree
  <2>5. \A k \in (i + 1)..n : w[k].log # l
    <3> SUFFICES ASSUME NEW k \in (i + 1)..n, w[k].log = l PROVE FALSE
      OBVIOUS
    <3>1. k \in 1..n /\ ~(i >= k)
      BY <2>2
    <3> QED BY <1>1, <2>1, <3>1
  <2>6. MappedAt(w, amt, l, n + 1, Mapping(l))
    BY <1>4, <2>2, <2>5 DEF MappedAt
  <2> QED BY <2>2, <2>4, <2>6
<1> QED BY <1>5, <1>6

\* The instruction that enters.
Entry(kind, lanes, srcs, log, dst, slot, waits, prediction) ==
  [kind |-> kind, lanes |-> lanes, srcs |-> srcs, log |-> log, dst |-> dst,
   at |-> "iq", slot |-> slot, lane |-> 1, sub |-> 0, waits |-> waits,
   prediction |-> prediction, read |-> "right", val_misp |-> FALSE]

\* What it is made of.
Enterable(kind, lanes, srcs, log, dst, slot, waits, prediction) ==
  /\ kind \in {"alu", "load", "branch"} /\ lanes \in FULanes[kind] /\ srcs \in SUBSET Reg
  /\ log \in LogReg \cup {NoReg} /\ dst \in Reg \cup {NoReg} /\ slot \in IQSlot
  /\ waits \in SUBSET srcs /\ prediction \in Predictions

\* Its fields.
LEMMA EntryIs ==
  ASSUME NEW kind, NEW lanes, NEW srcs, NEW log, NEW dst, NEW slot, NEW waits, NEW prediction,
         Enterable(kind, lanes, srcs, log, dst, slot, waits, prediction)
  PROVE  LET x == Entry(kind, lanes, srcs, log, dst, slot, waits, prediction)
         IN  /\ x \in Instruction
             /\ x.kind = kind /\ x.srcs = srcs /\ x.log = log /\ x.dst = dst /\ x.at = "iq" /\ x.slot = slot
             /\ x.sub = 0 /\ x.waits = waits /\ x.prediction = prediction
             /\ x.read = "right" /\ ~x.val_misp
<1> DEFINE x == Entry(kind, lanes, srcs, log, dst, slot, waits, prediction)
<1>1. lanes \in (SUBSET Lanes) \ {{}}
  BY SchedulerAssumption DEF Enterable
<1>2. lanes \in SUBSET Lanes /\ 1 \in Lanes
  <2>1. PICK lane \in Lanes : lane \in lanes
    BY <1>1
  <2>2. lane \in 1..Len(Depth) /\ Len(Depth) \in Nat /\ Lanes = 1..Len(Depth)
    BY OrderIs
  <2> QED BY <1>1, <2>2
<1>3. x = [kind |-> kind, lanes |-> lanes, srcs |-> srcs, log |-> log, dst |-> dst,
           at |-> "iq", slot |-> slot, lane |-> 1, sub |-> 0, waits |-> waits,
           prediction |-> prediction, read |-> "right", val_misp |-> FALSE]
  BY DEF Entry
<1>4. waits \in SUBSET Reg /\ "iq" \in Place /\ "right" \in Content
  BY DEF Place, Content, Enterable
<1>5. x \in Instruction
  <2> HIDE DEF x
  <2> QED BY <1>2, <1>3, <1>4 DEF Instruction, Enterable
<1> HIDE DEF x
<1>6. /\ x.kind = kind /\ x.srcs = srcs /\ x.log = log /\ x.dst = dst /\ x.at = "iq" /\ x.slot = slot
      /\ x.sub = 0 /\ x.waits = waits /\ x.prediction = prediction
      /\ x.read = "right" /\ ~x.val_misp
  BY <1>3
<1> QED BY <1>5, <1>6 DEF x

\* The age list has no more slots than there are.
LEMMA ListFits ==
  ASSUME NEW w, NEW n, NEW q \in Queue, SlotsHeld(w, n, q)
  PROVE  Len(q.list) <= IQsize
<1>1. PICK l \in Nat, len \in Nat : l = Len(q.list) /\ len = q.length
  BY LenProperties DEF Queue
<1>2. len + l = IQsize
  BY <1>1 DEF SlotsHeld, QueueHolds
<1> QED BY <1>1, <1>2

\* An instruction is dispatched.
LEMMA DispatchStep ==
  ASSUME Scheduled, NEW kind \in {"alu", "load", "branch"}, NEW lanes \in FULanes[kind],
         NEW logs \in SUBSET LogReg, NEW log \in LogReg \cup {NoReg}, NEW prediction \in Predictions,
         Dispatch(kind, lanes, logs, log, prediction)
  PROVE  Scheduled'
<1>1. PICK n \in Nat, w \in Seq(Instruction) : w = inflight /\ n = Len(w)
  BY InstructionsIn DEF Scheduled, TypeOK
<1>2. /\ \A i \in 1..n : FieldsAgree(w[i])
      /\ RegistersApart(w, n, amt) /\ SourcesMapped(w, n, amt) /\ ReadyInTime(w, n, amt, ready)
      /\ ContentsKnown(w, n, amt, prf) /\ WrongBehindSuspect(w, n) /\ LanesFlow(w, n)
      /\ InCycle(w, n, prf, stage) /\ SlotsHeld(w, n, IQ)
  BY <1>1 DEF Scheduled, Consistent
<1>3. amt \in [LogReg -> Reg] /\ ready \in [Reg -> BOOLEAN] /\ prf \in [Reg -> Content]
  BY DEF Scheduled, TypeOK
<1>4. /\ Running("dispatch") /\ Len(inflight) < ActiveListSize /\ ~stall(1)
      /\ log # NoReg => FreeRegs # {}
      /\ log = NoReg => prediction = "none"
      /\ UNCHANGED <<fl_tail, part_next, amt, stage>>
  BY DEF Dispatch
<1>5. PICK dst \in Reg \cup {NoReg} :
        /\ dst = IF log = NoReg THEN NoReg ELSE Min(FreeRegs)
        /\ dst = NoReg <=> log = NoReg
        /\ dst # NoReg => (\A l \in LogReg : amt[l] # dst) /\ \A i \in 1..n : w[i].dst # dst
  <2>1. CASE log = NoReg
    BY <2>1
  <2>2. CASE log # NoReg
    <3>1. FreeRegs \in SUBSET Nat /\ FreeRegs # {}
      BY <1>4, <2>2, SchedulerAssumption DEF FreeRegs
    <3>2. Min(FreeRegs) \in FreeRegs
      BY <3>1, MinIs
    <3>3. Min(FreeRegs) \in Reg /\ (\A l \in LogReg : amt[l] # Min(FreeRegs))
          /\ \A i \in 1..n : w[i].dst # Min(FreeRegs)
      BY <1>1, <1>3, <3>2 DEF FreeRegs, Range
    <3>4. Min(FreeRegs) # NoReg
      BY <3>3, SchedulerAssumption
    <3> QED BY <2>2, <3>3, <3>4
  <2> QED BY <2>1, <2>2
<1>6. PICK srcs \in SUBSET Reg : srcs = {Mapping(l) : l \in logs}
  <2>1. \A l \in logs : Mapping(l) \in Reg
    BY <1>1, MappingIs
  <2> QED BY <2>1
<1>7. PICK slot \in IQSlot : slot = fl[fl_head]
  BY DEF Scheduled, TypeOK
<1>8. PICK waits \in SUBSET srcs : waits = {r \in srcs : ~ready[r]}
  OBVIOUS
<1>9. PICK x \in Instruction :
        /\ x = Entry(kind, lanes, srcs, log, dst, slot, waits, prediction)
        /\ x.kind = kind /\ x.srcs = srcs /\ x.log = log /\ x.dst = dst /\ x.at = "iq" /\ x.slot = slot
        /\ x.sub = 0 /\ x.waits = waits /\ x.prediction = prediction
        /\ x.read = "right" /\ ~x.val_misp
  <2>1. PICK y : y = Entry(kind, lanes, srcs, log, dst, slot, waits, prediction)
    OBVIOUS
  <2>2. /\ y \in Instruction
        /\ y.kind = kind /\ y.srcs = srcs /\ y.log = log /\ y.dst = dst /\ y.at = "iq" /\ y.slot = slot
        /\ y.sub = 0 /\ y.waits = waits /\ y.prediction = prediction
        /\ y.read = "right" /\ ~y.val_misp
    <3>1. Enterable(kind, lanes, srcs, log, dst, slot, waits, prediction)
      BY DEF Enterable
    <3> QED BY <2>1, <3>1, EntryIs
  <2> QED BY <2>1, <2>2
<1>10. PICK m \in Nat, w2 \in Seq(Instruction) :
         /\ w2 = inflight' /\ m = n + 1 /\ Len(w2) = m /\ w2[m] = x /\ m \in 1..m
         /\ \A i \in 1..n : i \in 1..m /\ w2[i] = w[i]
  <2>1. inflight' = Append(w, x)
    BY <1>1, <1>5, <1>6, <1>7, <1>8, <1>9 DEF Dispatch, Entry
  <2>2. /\ Append(w, x) \in Seq(Instruction) /\ Len(Append(w, x)) = n + 1
        /\ \A i \in 1..n : Append(w, x)[i] = w[i]
        /\ Append(w, x)[n + 1] = x
    BY <1>1, AppendProperties
  <2>3. n + 1 \in Nat /\ n + 1 \in 1..(n + 1) /\ \A i \in 1..n : i \in 1..(n + 1)
    OBVIOUS
  <2> QED BY <2>1, <2>2, <2>3
<1>11. \A i \in 1..m : i \in 1..n \/ i = m
  BY <1>10
<1>12. PICK rdy2 : /\ rdy2 = ready' /\ rdy2 \in [Reg -> BOOLEAN]
                   /\ \A r \in Reg : r # dst => (rdy2[r] <=> ready[r])
                   /\ dst \in Reg => (rdy2[dst] <=> prediction # "none")
  <2>1. ready' = [r \in Reg |-> IF r = dst THEN prediction # "none" ELSE ready[r]]
    BY <1>5 DEF Dispatch
  <2>2. PICK predicted \in BOOLEAN : predicted <=> prediction # "none"
    OBVIOUS
  <2>3. ready' \in [Reg -> BOOLEAN] /\ \A r \in Reg : ready'[r] <=> IF r = dst THEN predicted ELSE ready[r]
    BY <1>3, <2>1, <2>2
  <2> QED BY <2>2, <2>3
<1>13. PICK regs2 : /\ regs2 = prf' /\ regs2 \in [Reg -> Content]
                    /\ \A r \in Reg : r # dst => regs2[r] = prf[r]
                    /\ dst \in Reg => regs2[dst] = IF prediction = "none" THEN "stale" ELSE prediction
  <2>1. prf' = [r \in Reg |-> IF r # dst THEN prf[r]
                              ELSE IF prediction = "none" THEN "stale" ELSE prediction]
    BY <1>5 DEF Dispatch
  <2>2. (IF prediction = "none" THEN "stale" ELSE prediction) \in Content
    BY SchedulerAssumption DEF Content
  <2> QED BY <1>3, <2>1, <2>2
<1>14. \A i \in 1..n : w[i].srcs \in SUBSET Reg /\ w[i].dst \in Reg \cup {NoReg}
  BY <1>1, InstructionsIn
<1>15. \A r \in srcs : r # dst
  <2> SUFFICES ASSUME NEW r \in srcs PROVE r # dst
    OBVIOUS
  <2>1. PICK l \in logs : r = Mapping(l)
    BY <1>6
  <2>2. (\E k \in LogReg : amt[k] = r) \/ \E j \in 1..n : w[j].dst = r
    BY <1>1, <2>1, MappingIs
  <2>3. r # NoReg
    BY SchedulerAssumption
  <2> QED BY <1>5, <2>2, <2>3
<1>16. \A i \in 1..m : FieldsAgree(w2[i])
  <2>1. FieldsAgree(x)
    BY <1>4, <1>5, <1>9 DEF FieldsAgree, Executed
  <2> QED BY <1>2, <1>10, <1>11, <2>1
<1>17. RegistersApart(w2, m, amt)
  <2>1. \A i \in 1..m : \A l \in LogReg : w2[i].dst # amt[l]
    <3>1. \A l \in LogReg : amt[l] # dst
      BY <1>3, <1>5, SchedulerAssumption
    <3> QED BY <1>2, <1>9, <1>10, <1>11, <3>1 DEF RegistersApart
  <2>2. \A i, j \in 1..m : w2[i].dst # NoReg /\ w2[i].dst = w2[j].dst => i = j
    <3>1. \A i, j \in 1..n : w[i].dst # NoReg /\ w[i].dst = w[j].dst => i = j
      BY <1>2 DEF RegistersApart
    <3> QED BY <1>5, <1>9, <1>10, <1>11, <3>1
  <2> QED BY <1>2, <2>1, <2>2 DEF RegistersApart
<1>18. SourcesMapped(w2, m, amt)
  <2> SUFFICES ASSUME NEW i \in 1..m, NEW r \in w2[i].srcs PROVE \E l \in LogReg : MappedAt(w2, amt, l, i, r)
    BY DEF SourcesMapped
  <2>1. \A j \in 1..(i - 1) : w2[j] = w[j]
    <3>1. \A j \in 1..(i - 1) : j \in 1..n
      BY <1>10
    <3> QED BY <1>10, <3>1
  <2>2. \E l \in LogReg : MappedAt(w, amt, l, i, r)
    <3>1. CASE i \in 1..n
      BY <1>2, <1>10, <3>1 DEF SourcesMapped
    <3>2. CASE i = m
      <4>1. PICK l \in logs : r = Mapping(l)
        BY <1>6, <1>9, <1>10, <3>2
      <4>2. MappedAt(w, amt, l, n + 1, r)
        BY <1>1, <4>1, MappingIs
      <4> QED BY <1>10, <3>2, <4>2
    <3> QED BY <1>11, <3>1, <3>2
  <2>3. i \in Nat
    OBVIOUS
  <2> QED BY <2>1, <2>2, <2>3, MappedStill
<1>19. ReadyInTime(w2, m, amt, rdy2)
  <2>1. \A l \in LogReg : rdy2[amt[l]]
    <3> SUFFICES ASSUME NEW l \in LogReg PROVE rdy2[amt[l]]
      OBVIOUS
    <3>1. amt[l] \in Reg /\ amt[l] # dst
      BY <1>3, <1>5, SchedulerAssumption
    <3> QED BY <1>2, <1>12, <3>1 DEF ReadyInTime
  <2>2. ASSUME NEW i \in 1..m, w2[i].dst # NoReg
        PROVE  /\ Executed(w2[i]) \/ Pending(w2[i]) => rdy2[w2[i].dst]
               /\ rdy2[w2[i].dst] => Executed(w2[i]) \/ Pending(w2[i]) \/ w2[i].prediction # "none"
    <3>1. CASE i \in 1..n
      <4>1. w2[i] = w[i] /\ w[i].dst \in Reg /\ w[i].dst # dst
        BY <1>5, <1>10, <1>14, <2>2, <3>1
      <4>2. rdy2[w[i].dst] <=> ready[w[i].dst]
        BY <1>12, <4>1
      <4> QED BY <1>2, <2>2, <3>1, <4>1, <4>2 DEF ReadyInTime
    <3>2. CASE i = m
      <4>1. w2[i] = x
        BY <1>10, <3>2
      <4>2. ~Executed(x) /\ ~Pending(x)
        BY <1>9 DEF Executed, Pending
      <4>3. rdy2[dst] => prediction # "none"
        BY <1>9, <1>12, <2>2, <4>1
      <4> QED BY <1>9, <4>1, <4>2, <4>3
    <3> QED BY <1>11, <3>1, <3>2
  <2>3. ASSUME NEW i \in 1..m PROVE w2[i].waits = {r \in w2[i].srcs : ~rdy2[r]}
    <3>1. CASE i \in 1..n
      <4>1. w2[i] = w[i] /\ w[i].srcs \in SUBSET Reg
        BY <1>10, <1>14, <3>1
      <4>2. \A r \in w[i].srcs : r # dst
        <5> SUFFICES ASSUME NEW r \in w[i].srcs PROVE r # dst
          OBVIOUS
        <5>1. (\E l \in LogReg : amt[l] = r) \/ \E j \in 1..n : w[j].dst = r
          BY <1>2, <3>1, SourceNamed
        <5>2. r # NoReg
          BY <4>1, SchedulerAssumption
        <5> QED BY <1>5, <5>1, <5>2
      <4>3. w[i].waits = {r \in w[i].srcs : ~ready[r]}
        BY <1>2, <3>1 DEF ReadyInTime
      <4>4. \A r \in w[i].srcs : rdy2[r] <=> ready[r]
        BY <1>12, <4>1, <4>2
      <4> QED BY <4>1, <4>3, <4>4
    <3>2. CASE i = m
      <4>1. w2[i] = x /\ x.waits = waits /\ x.srcs = srcs
        BY <1>9, <1>10, <3>2
      <4>2. \A r \in srcs : rdy2[r] <=> ready[r]
        BY <1>12, <1>15
      <4> QED BY <1>8, <4>1, <4>2
    <3> QED BY <1>11, <3>1, <3>2
  <2> QED BY <2>1, <2>2, <2>3 DEF ReadyInTime
<1>20. ContentsKnown(w2, m, amt, regs2)
  <2>1. \A l \in LogReg : regs2[amt[l]] = "right"
    <3> SUFFICES ASSUME NEW l \in LogReg PROVE regs2[amt[l]] = "right"
      OBVIOUS
    <3>1. amt[l] \in Reg /\ amt[l] # dst
      BY <1>3, <1>5, SchedulerAssumption
    <3> QED BY <1>2, <1>13, <3>1 DEF ContentsKnown
  <2>2. ASSUME NEW i \in 1..m, w2[i].dst # NoReg PROVE regs2[w2[i].dst] = Written(w2[i])
    <3>1. CASE i \in 1..n
      <4>1. w2[i] = w[i] /\ w[i].dst \in Reg /\ w[i].dst # dst
        BY <1>5, <1>10, <1>14, <2>2, <3>1
      <4>2. regs2[w[i].dst] = prf[w[i].dst]
        BY <1>13, <4>1
      <4> QED BY <1>2, <2>2, <3>1, <4>1, <4>2 DEF ContentsKnown
    <3>2. CASE i = m
      <4>1. w2[i] = x /\ x.dst = dst /\ dst \in Reg
        BY <1>9, <1>10, <2>2, <3>2
      <4>2. Written(x) = IF prediction = "none" THEN "stale" ELSE prediction
        BY <1>9 DEF Written, Executed
      <4> QED BY <1>13, <4>1, <4>2
    <3> QED BY <1>11, <3>1, <3>2
  <2> QED BY <2>1, <2>2 DEF ContentsKnown
<1>21. WrongBehindSuspect(w2, m)
  <2> SUFFICES ASSUME NEW i \in 1..m
               PROVE  /\ w2[i].read # "stale"
                      /\ w2[i].read = "wrong" => \E k \in 1..(i - 1) : Suspect(w2[k])
    BY DEF WrongBehindSuspect
  <2>1. CASE i \in 1..n
    <3>1. w2[i] = w[i] /\ \A k \in 1..(i - 1) : w2[k] = w[k]
      <4>1. \A k \in 1..(i - 1) : k \in 1..n
        BY <2>1
      <4> QED BY <1>10, <2>1, <4>1
    <3> QED BY <1>2, <2>1, <3>1 DEF WrongBehindSuspect
  <2>2. CASE i = m
    BY <1>9, <1>10, <2>2
  <2> QED BY <1>11, <2>1, <2>2
<1>22. LanesFlow(w2, m)
  <2> SUFFICES ASSUME NEW i \in 1..m, NEW j \in 1..m, w2[i].at \in {"rr", "ex", "wb"}, w2[i].at = w2[j].at,
                      w2[i].lane = w2[j].lane, w2[i].sub = w2[j].sub
               PROVE  i = j
    BY DEF LanesFlow
  <2>1. i \in 1..n /\ j \in 1..n
    BY <1>9, <1>10, <1>11
  <2> QED BY <1>2, <1>10, <2>1 DEF LanesFlow
<1>23. stage = Len(Depth) + 6 /\ stage > ExecuteStage /\ stage # ReadStage /\ Order[stage] = <<"dispatch", 0>>
  <2>1. stage = Len(Depth) + 6
    BY <1>4, StageIs DEF Scheduled, TypeOK
  <2> QED BY <2>1, OrderIs DEF ExecuteStage, ReadStage
<1>24. InCycle(w2, m, regs2, stage)
  BY <1>23 DEF InCycle
<1>25. /\ IQ \in Queue /\ IQ.length > 0 /\ IQ' = Popped(IQ) /\ IQ.fl[IQ.head] = slot
  <2>1. fl_length > 0
    BY <1>4 DEF stall, Scheduled, TypeOK
  <2>2. IQ \in Queue
    BY DEF Scheduled, TypeOK, IQ, Queue
  <2>3. IQ' = Popped(IQ)
    BY <1>4 DEF Dispatch, IQ, Popped
  <2> QED BY <1>7, <2>1, <2>2, <2>3 DEF IQ
<1>26. IQ' \in Queue /\ SlotsHeld(w2, m, IQ')
  <2>1. PICK q \in Queue : q = IQ
    BY <1>25
  <2>2. PICK rank \in [IQSlot -> Nat] : Ranks(w, n, rank) /\ QueueHolds(q, Held(w, n), rank)
    BY <1>2, <2>1 DEF SlotsHeld
  <2>3. PICK H \in SUBSET IQSlot : H = Held(w, n)
    <3>1. \A i \in 1..n : w[i].slot \in IQSlot
      BY <1>1, InstructionsIn
    <3> QED BY <3>1 DEF Held
  <2>4. /\ Popped(q) \in Queue /\ slot \notin H
        /\ \A rank2 : /\ \A s \in H : rank2[s] = rank[s]
                      /\ \A s \in H : rank2[s] < rank2[slot]
                      => QueueHolds(Popped(q), H \cup {slot}, rank2)
    BY <1>25, <2>1, <2>2, <2>3, PopHolds
  <2>5. PICK rank2 \in [IQSlot -> Nat] : rank2 = [rank EXCEPT ![slot] = m]
    OBVIOUS
  <2>6. rank2[slot] = m /\ \A s \in H : rank2[s] = rank[s]
    BY <2>4, <2>5
  <2>7. \A s \in H : rank2[s] < m
    <3> SUFFICES ASSUME NEW s \in H PROVE rank2[s] < m
      OBVIOUS
    <3>1. PICK i \in 1..n : w[i].at = "iq" /\ s = w[i].slot
      BY <2>3 DEF Held
    <3>2. rank2[s] = i
      BY <2>2, <2>6, <3>1 DEF Ranks
    <3> QED BY <1>10, <3>2
  <2>8. QueueHolds(Popped(q), H \cup {slot}, rank2)
    BY <2>4, <2>6, <2>7
  <2>9. Held(w2, m) = H \cup {slot}
    <3>1. \A s \in Held(w2, m) : s \in H \cup {slot}
      BY <1>9, <1>10, <1>11, <2>3 DEF Held
    <3>2. \A s \in H : s \in Held(w2, m)
      BY <1>10, <2>3 DEF Held
    <3>3. slot \in Held(w2, m)
      BY <1>9, <1>10 DEF Held
    <3> QED BY <3>1, <3>2, <3>3
  <2>10. Ranks(w2, m, rank2)
    <3> SUFFICES ASSUME NEW i \in 1..m, w2[i].at = "iq" PROVE rank2[w2[i].slot] = i
      BY DEF Ranks
    <3>1. CASE i \in 1..n
      <4>1. w2[i] = w[i] /\ w[i].slot \in H
        BY <1>10, <2>3, <3>1 DEF Held
      <4> QED BY <2>2, <2>6, <3>1, <4>1 DEF Ranks
    <3>2. CASE i = m
      BY <1>9, <1>10, <2>6, <3>2
    <3> QED BY <1>11, <3>1, <3>2
  <2>11. SlotsHeld(w2, m, Popped(q))
    BY <2>8, <2>9, <2>10 DEF SlotsHeld
  <2> QED BY <1>25, <2>1, <2>4, <2>11
<1>27. TypeOK'
  <2>1. /\ fl' \in [IQSlot -> IQSlot] /\ fl_head' \in IQSlot /\ fl_tail' \in IQSlot
        /\ fl_length' \in 0..IQsize /\ age_list' \in Seq(IQSlot)
    BY <1>26 DEF IQ, Queue
  <2>2. Len(age_list') <= IQsize
    <3>1. PICK q \in Queue : q = IQ' /\ q.list = age_list'
      BY <1>26 DEF IQ
    <3>2. SlotsHeld(w2, m, q)
      BY <1>26, <3>1
    <3> QED BY <3>1, <3>2, ListFits
  <2>3. Len(w2) <= ActiveListSize
    BY <1>1, <1>4, <1>10, SchedulerAssumption
  <2>4. HasWork(Order[stage], w2)
    BY <1>23 DEF HasWork
  <2> QED BY <1>4, <1>10, <1>12, <1>13, <2>1, <2>2, <2>3, <2>4 DEF Scheduled, TypeOK
<1>28. Consistent(w2, m, amt, rdy2, regs2, stage, IQ')
  BY <1>16, <1>17, <1>18, <1>19, <1>20, <1>21, <1>22, <1>24, <1>26 DEF Consistent
<1> QED BY <1>4, <1>10, <1>12, <1>13, <1>27, <1>28 DEF Scheduled

-----------------------------------------------------------------------------
(* Several slots leave in one step *)

\* The issue queue behind each slot of the loop.
Removal(slots, S, f) ==
  f = [k \in 0..Len(slots) |->
         IF k = 0 THEN IQ ELSE IF slots[k] \in S THEN remove(f[k - 1], slots[k]) ELSE f[k - 1]]

\* The same for the first n.
RemovalTo(n, slots, S, f) ==
  f = [k \in 0..n |->
         IF k = 0 THEN IQ ELSE IF slots[k] \in S THEN remove(f[k - 1], slots[k]) ELSE f[k - 1]]

\* The loop has a result.
LEMMA RemovalExists ==
  ASSUME NEW slots, NEW m \in Nat, m = Len(slots), NEW S
  PROVE  \E f : Removal(slots, S, f)
<1> DEFINE T == {n \in 0..m : ~\E f : RemovalTo(n, slots, S, f)}
<1>1. ASSUME T # {} PROVE FALSE
  <2>1. PICK n \in T : \A j \in T : n <= j
    <3>1. T \subseteq Nat
      OBVIOUS
    <3> HIDE DEF T
    <3> QED BY <1>1, <3>1, LeastNat
  <2>2. n \in 0..m /\ ~\E f : RemovalTo(n, slots, S, f)
    BY <2>1
  <2>3. CASE n = 0
    <3>1. PICK f : f = [k \in 0..0 |-> IQ]
      OBVIOUS
    <3>2. RemovalTo(0, slots, S, f)
      <4>1. \A k \in 0..0 : k = 0
        OBVIOUS
      <4> QED BY <3>1, <4>1 DEF RemovalTo
    <3> QED BY <2>2, <2>3, <3>2
  <2>4. CASE n # 0
    <3>1. PICK l \in 0..m : n = l + 1
      <4>1. n - 1 \in 0..m /\ n = (n - 1) + 1
        BY <2>2, <2>4
      <4> QED BY <4>1
    <3>2. l \notin T
      BY <2>1, <3>1
    <3>3. PICK f : RemovalTo(l, slots, S, f)
      BY <3>2
    <3>4. PICK g : g = [k \in 0..n |-> IF k <= l THEN f[k]
                                       ELSE IF slots[n] \in S THEN remove(f[l], slots[n]) ELSE f[l]]
      OBVIOUS
    <3>5. \A k \in 0..l : g[k] = f[k]
      BY <3>1, <3>4
    <3>6. ASSUME NEW k \in 0..n
          PROVE  g[k] = IF k = 0 THEN IQ
                        ELSE IF slots[k] \in S THEN remove(g[k - 1], slots[k]) ELSE g[k - 1]
      <4>1. CASE k <= l
        <5>1. k \in 0..l /\ (k # 0 => k - 1 \in 0..l)
          BY <3>1, <4>1
        <5>2. f[k] = IF k = 0 THEN IQ
                     ELSE IF slots[k] \in S THEN remove(f[k - 1], slots[k]) ELSE f[k - 1]
          BY <3>3, <5>1 DEF RemovalTo
        <5> QED BY <3>5, <5>1, <5>2
      <4>2. CASE ~(k <= l)
        <5>1. k = n /\ k # 0 /\ k - 1 = l /\ l \in 0..l
          BY <3>1, <4>2
        <5>2. g[k] = IF slots[n] \in S THEN remove(f[l], slots[n]) ELSE f[l]
          BY <3>4, <4>2
        <5> QED BY <3>5, <5>1, <5>2
      <4> QED BY <4>1, <4>2
    <3>7. PICK h : h = [k \in 0..n |-> IF k = 0 THEN IQ
                          ELSE IF slots[k] \in S THEN remove(g[k - 1], slots[k]) ELSE g[k - 1]]
      OBVIOUS
    <3>8. g = h
      <4>1. \A k \in 0..n : h[k] = g[k]
        BY <3>6, <3>7
      <4>2. DOMAIN g = 0..n /\ DOMAIN h = 0..n /\ g = [k \in 0..n |-> g[k]] /\ h = [k \in 0..n |-> h[k]]
        BY <3>4, <3>7
      <4> QED BY <4>1, <4>2
    <3>9. RemovalTo(n, slots, S, g)
      BY <3>7, <3>8 DEF RemovalTo
    <3> QED BY <2>2, <3>9
  <2> QED BY <2>3, <2>4
<1>2. m \notin T
  BY <1>1
<1>3. PICK f : RemovalTo(m, slots, S, f)
  BY <1>2
<1>4. Removal(slots, S, f)
  BY <1>3 DEF Removal, RemovalTo
<1> QED BY <1>4

\* It is removeEach's.
LEMMA RemovalIs ==
  ASSUME NEW slots, NEW m \in Nat, m = Len(slots), NEW S
  PROVE  \E f : /\ f[0] = IQ /\ removeEach(slots, S) = f[m]
                /\ \A k \in 1..m :
                     f[k] = IF slots[k] \in S THEN remove(f[k - 1], slots[k]) ELSE f[k - 1]
<1>1. PICK g : g = CHOOSE f : Removal(slots, S, f)
  OBVIOUS
<1>2. Removal(slots, S, g)
  BY <1>1, RemovalExists
<1>3. removeEach(slots, S) = g[m]
  BY <1>1 DEF removeEach, Removal
<1>4. g[0] = IQ
  BY <1>2 DEF Removal
<1>5. \A k \in 1..m : g[k] = IF slots[k] \in S THEN remove(g[k - 1], slots[k]) ELSE g[k - 1]
  BY <1>2 DEF Removal
<1> QED BY <1>3, <1>4, <1>5

\* The slots that have left behind the k-th.
Left(slots, S, k) == {slots[j] : j \in {i \in 1..k : slots[i] \in S}}

\* If they were held and are looked at once, then they are free.
LEMMA EachRemoved ==
  ASSUME NEW slots, NEW m \in Nat, m = Len(slots), NEW H \in SUBSET IQSlot, NEW S \in SUBSET H,
         NEW rank \in [IQSlot -> Nat], IQ \in Queue, QueueHolds(IQ, H, rank),
         \A s \in S : \E k \in 1..m : slots[k] = s,
         \A j, k \in 1..m : slots[j] = slots[k] => j = k
  PROVE  removeEach(slots, S) \in Queue /\ QueueHolds(removeEach(slots, S), H \ S, rank)
<1>1. PICK f : /\ f[0] = IQ /\ removeEach(slots, S) = f[m]
               /\ \A k \in 1..m :
                    f[k] = IF slots[k] \in S THEN remove(f[k - 1], slots[k]) ELSE f[k - 1]
  BY RemovalIs
<1> DEFINE T == {k \in 0..m : ~(f[k] \in Queue /\ QueueHolds(f[k], H \ Left(slots, S, k), rank))}
<1>2. ASSUME T # {} PROVE FALSE
  <2>1. PICK n \in T : \A j \in T : n <= j
    <3>1. T \subseteq Nat
      OBVIOUS
    <3> HIDE DEF T
    <3> QED BY <1>2, <3>1, LeastNat
  <2>2. n \in 0..m /\ ~(f[n] \in Queue /\ QueueHolds(f[n], H \ Left(slots, S, n), rank))
    BY <2>1
  <2>3. CASE n = 0
    <3>1. Left(slots, S, 0) = {} /\ H \ {} = H
      BY DEF Left
    <3> QED BY <1>1, <2>2, <2>3, <3>1
  <2>4. CASE n # 0
    <3>1. PICK l \in 0..m : n = l + 1 /\ l = n - 1 /\ n \in 1..m
      <4>1. n - 1 \in 0..m /\ n = (n - 1) + 1 /\ n \in 1..m
        BY <2>2, <2>4
      <4> QED BY <4>1
    <3>2. PICK H2 \in SUBSET IQSlot : H2 = H \ Left(slots, S, l)
      OBVIOUS
    <3>3. f[l] \in Queue /\ QueueHolds(f[l], H2, rank)
      <4>1. l \notin T
        <5>1. ~(n <= l)
          BY <3>1
        <5> HIDE DEF T
        <5> QED BY <2>1, <5>1
      <4> QED BY <3>2, <4>1
    <3>4. f[n] = IF slots[n] \in S THEN remove(f[l], slots[n]) ELSE f[l]
      BY <1>1, <3>1
    <3>5. \A i \in 1..n : i \in 1..l \/ i = n
      BY <3>1
    <3>6. \A i \in 1..l : i \in 1..n /\ i # n /\ i \in 1..m
      BY <3>1
    <3>7. CASE slots[n] \in S
      <4>1. Left(slots, S, n) = Left(slots, S, l) \cup {slots[n]}
        <5>1. \A s \in Left(slots, S, n) : s \in Left(slots, S, l) \cup {slots[n]}
          BY <3>5 DEF Left
        <5>2. \A s \in Left(slots, S, l) : s \in Left(slots, S, n)
          BY <3>6 DEF Left
        <5>3. slots[n] \in Left(slots, S, n)
          <6>1. n \in 1..n
            BY <3>1
          <6> QED BY <3>7, <6>1 DEF Left
        <5> QED BY <5>1, <5>2, <5>3
      <4>2. slots[n] \notin Left(slots, S, l)
        BY <3>1, <3>6 DEF Left
      <4>3. PICK s \in H2 : s = slots[n]
        BY <3>2, <3>7, <4>2
      <4>4. H \ Left(slots, S, n) = H2 \ {s}
        BY <3>2, <4>1, <4>3
      <4>5. PICK q \in Queue : q = f[l]
        BY <3>3
      <4>6. remove(q, s) \in Queue /\ QueueHolds(remove(q, s), H2 \ {s}, rank)
        BY <3>3, <4>5, RemoveHolds
      <4> QED BY <2>2, <3>4, <3>7, <4>3, <4>4, <4>5, <4>6
    <3>8. CASE slots[n] \notin S
      <4>1. Left(slots, S, n) = Left(slots, S, l)
        <5>1. \A s \in Left(slots, S, n) : s \in Left(slots, S, l)
          BY <3>5, <3>8 DEF Left
        <5>2. \A s \in Left(slots, S, l) : s \in Left(slots, S, n)
          BY <3>6 DEF Left
        <5> QED BY <5>1, <5>2
      <4> QED BY <2>2, <3>2, <3>3, <3>4, <3>8, <4>1
    <3> QED BY <3>7, <3>8
  <2> QED BY <2>3, <2>4
<1>3. m \notin T
  BY <1>2
<1>4. f[m] \in Queue /\ QueueHolds(f[m], H \ Left(slots, S, m), rank)
  BY <1>3
<1>5. Left(slots, S, m) = S
  BY DEF Left
<1> QED BY <1>1, <1>4, <1>5

\* The registers that are freed are nobody's afterwards.
LEMMA FreedIs ==
  ASSUME NEW freed, Free(freed), ready \in [Reg -> BOOLEAN], prf \in [Reg -> Content]
  PROVE  /\ ready' \in [Reg -> BOOLEAN] /\ prf' \in [Reg -> Content]
         /\ \A r \in Reg : r \notin freed => (ready'[r] <=> ready[r]) /\ prf'[r] = prf[r]
BY DEF Free, Content

\* squash() looks at each slot once.
LEMMA InSlotOrderIs ==
  /\ Len(InSlotOrder) = IQsize /\ \A s \in IQSlot : \E k \in 1..IQsize : InSlotOrder[k] = s
  /\ \A j, k \in 1..IQsize : InSlotOrder[j] = InSlotOrder[k] => j = k
<1>1. IQsize \in Nat /\ IQSlot = 0..(IQsize - 1)
  BY SchedulerAssumption DEF IQSlot
<1>2. InSlotOrder \in [1..IQsize -> Int] /\ \A k \in 1..IQsize : InSlotOrder[k] = k - 1
  BY <1>1 DEF InSlotOrder
<1>3. Len(InSlotOrder) = IQsize
  BY <1>1, <1>2, FunctionIsSequence
<1>4. \A s \in IQSlot : \E k \in 1..IQsize : InSlotOrder[k] = s
  <2> SUFFICES ASSUME NEW s \in IQSlot PROVE \E k \in 1..IQsize : InSlotOrder[k] = s
    OBVIOUS
  <2>1. s + 1 \in 1..IQsize /\ (s + 1) - 1 = s
    BY <1>1
  <2> QED BY <1>2, <2>1
<1>5. ASSUME NEW j \in 1..IQsize, NEW k \in 1..IQsize, InSlotOrder[j] = InSlotOrder[k] PROVE j = k
  <2>1. j - 1 = k - 1
    BY <1>2, <1>5
  <2> QED BY <1>1, <2>1
<1> QED BY <1>3, <1>4, <1>5

\* A mispredicted branch squashes what is younger.
LEMMA WritebackMispredictStep ==
  ASSUME Scheduled, NEW lane \in Lanes, WritebackMispredict(lane)
  PROVE  Scheduled'
<1>1. PICK n \in Nat, w \in Seq(Instruction) : w = inflight /\ n = Len(w)
  BY InstructionsIn DEF Scheduled, TypeOK
<1>2. /\ \A i \in 1..n : FieldsAgree(w[i])
      /\ RegistersApart(w, n, amt) /\ SourcesMapped(w, n, amt) /\ ReadyInTime(w, n, amt, ready)
      /\ ContentsKnown(w, n, amt, prf) /\ WrongBehindSuspect(w, n) /\ LanesFlow(w, n)
      /\ InCycle(w, n, prf, stage) /\ SlotsHeld(w, n, IQ)
  BY <1>1 DEF Scheduled, Consistent
<1>3. \A i \in 1..n : /\ w[i] \in Instruction /\ w[i].srcs \in SUBSET Reg
                      /\ w[i].dst \in Reg \cup {NoReg} /\ w[i].lane \in Lanes /\ w[i].slot \in IQSlot
  BY <1>1, InstructionsIn
<1>4. PICK b \in 1..n :
        /\ Order[stage] = <<"writeback", lane>> /\ w[b].at = "wb" /\ w[b].lane = lane
        /\ inflight' = [SubSeq(w, 1, b) EXCEPT ![b] = Completed(@)]
        /\ IQBecomes(removeEach(InSlotOrder, {w[i].slot : i \in {j \in Instructions("iq") : j > b}}))
        /\ Free({w[i].dst : i \in (b + 1)..n} \ {NoReg})
        /\ NextStage
        /\ UNCHANGED <<part_next, amt>>
  <2>1. PICK b \in Instructions("wb") :
          /\ Order[stage] = <<"writeback", lane>> /\ inflight[b].lane = lane
          /\ inflight' = [SubSeq(inflight, 1, b) EXCEPT ![b] = Completed(@)]
          /\ IQBecomes(removeEach(InSlotOrder, {inflight[i].slot : i \in {j \in Instructions("iq") : j > b}}))
          /\ Free({inflight[i].dst : i \in (b + 1)..Len(inflight)} \ {NoReg})
          /\ NextStage
          /\ UNCHANGED <<part_next, amt>>
    BY DEF WritebackMispredict
  <2>2. b \in 1..n /\ w[b].at = "wb"
    BY <1>1 DEF Instructions
  <2> QED BY <1>1, <2>1, <2>2
<1>5. \A i \in 1..b : i \in 1..n /\ i <= b
  OBVIOUS
<1>6. PICK w2 \in Seq(Instruction) :
        /\ w2 = inflight' /\ Len(w2) = b
        /\ \A i \in 1..b : i # b => w2[i] = w[i]
        /\ w2[b] = Completed(w[b])
  <2>1. PICK v \in Seq(Instruction) : v = SubSeq(w, 1, b) /\ Len(v) = b /\ \A i \in 1..b : v[i] = w[i]
    <3>1. 1 \in Int /\ b \in Int /\ \A i \in 1..b : w[i] \in Instruction
      BY <1>3, <1>5
    <3>2. /\ SubSeq(w, 1, b) \in Seq(Instruction)
          /\ Len(SubSeq(w, 1, b)) = IF 1 <= b THEN b - 1 + 1 ELSE 0
          /\ \A i \in 1..(b - 1 + 1) : SubSeq(w, 1, b)[i] = w[1 + i - 1]
      BY <3>1, SubSeqProperties
    <3>3. (IF 1 <= b THEN b - 1 + 1 ELSE 0) = b /\ b - 1 + 1 = b /\ \A i \in 1..b : 1 + i - 1 = i
      OBVIOUS
    <3> QED BY <3>2, <3>3
  <2>2. b \in 1..Len(v) /\ Completed(v[b]) \in Instruction /\ v[b] = w[b]
    BY <1>3, <2>1, CompletedIs
  <2>3. PICK x \in Instruction : x = Completed(w[b])
    BY <2>2
  <2>4. inflight' = [v EXCEPT ![b] = x]
    BY <1>4, <2>1, <2>2, <2>3
  <2>5. [v EXCEPT ![b] = x] \in Seq(Instruction) /\ Len([v EXCEPT ![b] = x]) = Len(v)
    BY <2>2, ExceptSeq
  <2>6. v \in [1..b -> Instruction]
    BY <2>1, LenProperties
  <2>7. \A i \in 1..b : [v EXCEPT ![b] = x][i] = IF i = b THEN x ELSE v[i]
    BY <2>6
  <2> QED BY <2>1, <2>2, <2>3, <2>4, <2>5, <2>7
<1>7. /\ w2[b].at = "done" /\ w2[b].srcs = {} /\ w2[b].sub = 0
      /\ w2[b].log = w[b].log /\ w2[b].dst = w[b].dst /\ w2[b].waits = w[b].waits
      /\ w2[b].prediction = w[b].prediction /\ w2[b].read = w[b].read
      /\ w2[b].val_misp = w[b].val_misp
  BY <1>3, <1>6, CompletedIs
<1>8. PICK freed : freed = {w[i].dst : i \in (b + 1)..n} \ {NoReg}
  OBVIOUS
<1>9. \A i \in 1..b : w[i].dst \notin freed
  <2> SUFFICES ASSUME NEW i \in 1..b, w[i].dst \in freed PROVE FALSE
    OBVIOUS
  <2>1. PICK j \in (b + 1)..n : w[i].dst = w[j].dst /\ w[i].dst # NoReg
    BY <1>8
  <2>2. i \in 1..n /\ j \in 1..n /\ i # j
    OBVIOUS
  <2>3. \A k, l \in 1..n : w[k].dst # NoReg /\ w[k].dst = w[l].dst => k = l
    BY <1>2 DEF RegistersApart
  <2> QED BY <2>1, <2>2, <2>3
<1>10. \A l \in LogReg : amt[l] \notin freed
  <2> SUFFICES ASSUME NEW l \in LogReg, amt[l] \in freed PROVE FALSE
    OBVIOUS
  <2>1. PICK j \in (b + 1)..n : amt[l] = w[j].dst
    BY <1>8
  <2>2. j \in 1..n
    OBVIOUS
  <2> QED BY <1>2, <2>1, <2>2 DEF RegistersApart
<1>11. PICK rdy2, regs2 :
         /\ rdy2 = ready' /\ regs2 = prf'
         /\ rdy2 \in [Reg -> BOOLEAN] /\ regs2 \in [Reg -> Content]
         /\ \A r \in Reg : r \notin freed => (rdy2[r] <=> ready[r]) /\ regs2[r] = prf[r]
  <2>1. Free(freed) /\ ready \in [Reg -> BOOLEAN] /\ prf \in [Reg -> Content]
    BY <1>4, <1>8 DEF Scheduled, TypeOK
  <2>2. /\ ready' \in [Reg -> BOOLEAN] /\ prf' \in [Reg -> Content]
        /\ \A r \in Reg : r \notin freed => (ready'[r] <=> ready[r]) /\ prf'[r] = prf[r]
    BY <2>1, FreedIs
  <2> QED BY <2>2
<1>12. amt \in [LogReg -> Reg]
  BY DEF Scheduled, TypeOK
<1>13. \A i \in 1..b : FieldsAgree(w2[i])
  <2>1. FieldsAgree(w2[b])
    BY <1>2, <1>4, <1>7 DEF FieldsAgree, Executed
  <2> QED BY <1>2, <1>5, <1>6, <2>1
<1>14. RegistersApart(w2, b, amt) /\ SourcesMapped(w2, b, amt)
  <2>1. \A i \in 1..b : w2[i].log = w[i].log /\ w2[i].dst = w[i].dst /\ w2[i].srcs \subseteq w[i].srcs
    BY <1>6, <1>7
  <2>2. RegistersApart(w, b, amt) /\ SourcesMapped(w, b, amt)
    BY <1>2, <1>5 DEF RegistersApart, SourcesMapped
  <2> QED BY <2>1, <2>2, MapsKept
<1>15. ReadyInTime(w2, b, amt, rdy2)
  <2>1. \A l \in LogReg : rdy2[amt[l]]
    BY <1>2, <1>10, <1>11, <1>12 DEF ReadyInTime
  <2>2. ASSUME NEW i \in 1..b, w2[i].dst # NoReg
        PROVE  /\ Executed(w2[i]) \/ Pending(w2[i]) => rdy2[w2[i].dst]
               /\ rdy2[w2[i].dst] => Executed(w2[i]) \/ Pending(w2[i]) \/ w2[i].prediction # "none"
    <3>1. w2[i].dst = w[i].dst /\ w[i].dst \in Reg /\ i \in 1..n
      BY <1>3, <1>5, <1>6, <1>7, <2>2
    <3>2. rdy2[w[i].dst] <=> ready[w[i].dst]
      BY <1>9, <1>11, <3>1
    <3>3. /\ Executed(w[i]) \/ Pending(w[i]) => ready[w[i].dst]
          /\ ready[w[i].dst] => Executed(w[i]) \/ Pending(w[i]) \/ w[i].prediction # "none"
      BY <1>2, <2>2, <3>1 DEF ReadyInTime
    <3>4. CASE i = b
      <4>1. Executed(w[b]) /\ Executed(w2[b])
        BY <1>4, <1>7 DEF Executed
      <4> QED BY <3>1, <3>2, <3>3, <3>4, <4>1
    <3>5. CASE i # b
      BY <1>6, <3>1, <3>2, <3>3, <3>5
    <3> QED BY <3>4, <3>5
  <2>3. ASSUME NEW i \in 1..b PROVE w2[i].waits = {r \in w2[i].srcs : ~rdy2[r]}
    <3>1. CASE i = b
      <4>1. w[b].waits = {}
        BY <1>2, <1>4 DEF FieldsAgree
      <4> QED BY <1>7, <3>1, <4>1
    <3>2. CASE i # b
      <4>1. w2[i] = w[i] /\ i \in 1..n
        BY <1>5, <1>6, <3>2
      <4>2. w[i].waits = {r \in w[i].srcs : ~ready[r]} /\ w[i].srcs \in SUBSET Reg
        BY <1>2, <1>3, <4>1 DEF ReadyInTime
      <4>3. \A r \in w[i].srcs : r \notin freed
        <5> SUFFICES ASSUME NEW r \in w[i].srcs PROVE r \notin freed
          OBVIOUS
        <5>1. (\E l \in LogReg : amt[l] = r) \/ \E j \in 1..n : j < i /\ w[j].dst = r
          <6>1. i \in 1..n /\ SourcesMapped(w, n, amt)
            BY <1>2, <4>1
          <6> QED BY <6>1, SourceNamed
        <5>2. \A j \in 1..n : j < i => j \in 1..b
          OBVIOUS
        <5> QED BY <1>9, <1>10, <5>1, <5>2
      <4>4. \A r \in w[i].srcs : rdy2[r] <=> ready[r]
        BY <1>11, <4>2, <4>3
      <4> QED BY <4>1, <4>2, <4>4
    <3> QED BY <3>1, <3>2
  <2> QED BY <2>1, <2>2, <2>3 DEF ReadyInTime
<1>16. ContentsKnown(w2, b, amt, regs2)
  <2>1. \A l \in LogReg : regs2[amt[l]] = "right"
    BY <1>2, <1>10, <1>11, <1>12 DEF ContentsKnown
  <2>2. ASSUME NEW i \in 1..b, w2[i].dst # NoReg PROVE regs2[w2[i].dst] = Written(w2[i])
    <3>1. w2[i].dst = w[i].dst /\ w[i].dst \in Reg /\ i \in 1..n
      BY <1>3, <1>5, <1>6, <1>7, <2>2
    <3>2. regs2[w[i].dst] = prf[w[i].dst] /\ prf[w[i].dst] = Written(w[i])
      BY <1>2, <1>9, <1>11, <2>2, <3>1 DEF ContentsKnown
    <3>3. Written(w2[i]) = Written(w[i])
      <4>1. Written(w2[b]) = Written(w[b])
        BY <1>4, <1>7 DEF Written, Executed, Computed
      <4> QED BY <1>6, <4>1
    <3> QED BY <3>1, <3>2, <3>3
  <2> QED BY <2>1, <2>2 DEF ContentsKnown
<1>17. WrongBehindSuspect(w2, b)
  <2>1. WrongBehindSuspect(w, b)
    BY <1>2, <1>5 DEF WrongBehindSuspect
  <2>2. \A i \in 1..b : w2[i].read = w[i].read /\ (Suspect(w[i]) => Suspect(w2[i]))
    BY <1>6, <1>7 DEF Suspect
  <2> QED BY <2>1, <2>2, SuspectsStay
<1>18. LanesFlow(w2, b)
  <2>1. LanesFlow(w, b)
    BY <1>2, <1>5 DEF LanesFlow
  <2>2. \A i \in 1..b : w2[i].at \in {"rr", "ex", "wb"} => w2[i] = w[i]
    BY <1>6, <1>7
  <2> QED BY <2>1, <2>2, LanesEmptied
<1>19. stage = WritebackOf(lane) /\ stage \in 1..(Len(Order) - 1) /\ stage < ExecuteStage
  <2>1. stage = WritebackOf(lane)
    BY <1>4, StageIs DEF Scheduled, TypeOK
  <2> QED BY <2>1, OrderIs DEF WritebackOf, ExecuteStage
<1>20. StageAfter(stage, stage', w2, b)
  <2>1. stage' = Behind(stage, w2)
    BY <1>4, <1>6 DEF NextStage
  <2>2. stage \in 0..(Len(Order) - 1)
    BY <1>19, OrderIs
  <2>3. b \in Nat
    OBVIOUS
  <2> QED BY <1>6, <2>1, <2>2, <2>3, BehindIs
<1>21. InCycle(w2, b, regs2, stage')
  <2>1. ASSUME NEW i \in 1..b, w2[i].at = "wb" PROVE stage < WritebackOf(w2[i].lane)
    <3>1. i # b
      BY <1>7, <2>1
    <3>2. w2[i] = w[i] /\ w[i].at = "wb" /\ i \in 1..n
      BY <1>5, <1>6, <2>1, <3>1
    <3>3. stage <= WritebackOf(w[i].lane)
      BY <1>2, <1>19, <3>2, OrderIs DEF InCycle, ExecuteStage
    <3>4. w[i].lane # lane
      <4>1. w[i].sub = 0 /\ w[b].sub = 0
        BY <1>2, <1>4, <3>2 DEF FieldsAgree
      <4>2. w[i].at \in {"rr", "ex", "wb"} /\ w[i].at = w[b].at /\ w[i].sub = w[b].sub
        BY <1>4, <3>2, <4>1
      <4> QED BY <1>2, <1>4, <3>1, <3>2, <4>2 DEF LanesFlow
    <3>5. w[i].lane \in 1..Len(Depth) /\ lane \in 1..Len(Depth) /\ Len(Depth) \in Nat
      BY <1>3, <3>2, OrderIs
    <3>6. stage = 1 + lane /\ stage <= 1 + w[i].lane
      BY <1>19, <3>3 DEF WritebackOf
    <3>7. stage < 1 + w[i].lane
      BY <3>4, <3>5, <3>6
    <3> QED BY <3>2, <3>7 DEF WritebackOf
  <2>2. stage \in 0..(Len(Order) - 1)
    BY <1>19, OrderIs
  <2>3. b \in Nat
    OBVIOUS
  <2> QED BY <1>6, <1>12, <1>13, <1>14, <1>15, <1>16, <1>19, <1>20, <2>1, <2>2, <2>3, InCycleEarly
<1>22. IQ' \in Queue /\ SlotsHeld(w2, b, IQ')
  <2>1. PICK rank \in [IQSlot -> Nat] : Ranks(w, n, rank) /\ QueueHolds(IQ, Held(w, n), rank)
    BY <1>2 DEF SlotsHeld
  <2>2. PICK H \in SUBSET IQSlot : H = Held(w, n)
    BY <1>3 DEF Held
  <2>3. PICK S \in SUBSET H : S = {w[i].slot : i \in {j \in Instructions("iq") : j > b}}
    <3>1. \A i \in Instructions("iq") : w[i].slot \in H
      BY <1>1, <2>2 DEF Instructions, Held
    <3> QED BY <3>1
  <2>4. IQ \in Queue
    BY DEF Scheduled, TypeOK, IQ, Queue
  <2>5. PICK q \in Queue : q = removeEach(InSlotOrder, S) /\ QueueHolds(q, H \ S, rank)
    <3>1. PICK m \in Nat : m = IQsize /\ m = Len(InSlotOrder)
      BY InSlotOrderIs, SchedulerAssumption
    <3>2. \A s \in S : \E k \in 1..m : InSlotOrder[k] = s
      BY <3>1, InSlotOrderIs
    <3>3. \A j, k \in 1..m : InSlotOrder[j] = InSlotOrder[k] => j = k
      BY <3>1, InSlotOrderIs
    <3>4. removeEach(InSlotOrder, S) \in Queue /\ QueueHolds(removeEach(InSlotOrder, S), H \ S, rank)
      BY <2>1, <2>2, <2>4, <3>1, <3>2, <3>3, EachRemoved
    <3> QED BY <3>4
  <2>6. IQ' = q
    <3>1. IQBecomes(q)
      BY <1>4, <2>3, <2>5
    <3>2. q = [fl |-> q.fl, head |-> q.head, tail |-> q.tail, length |-> q.length, list |-> q.list]
      BY DEF Queue
    <3> QED BY <3>1, <3>2 DEF IQBecomes, IQ
  <2>7. Held(w2, b) = H \ S
    <3>1. ASSUME NEW s \in Held(w2, b) PROVE s \in H \ S
      <4>1. PICK i \in 1..b : w2[i].at = "iq" /\ s = w2[i].slot
        BY <3>1 DEF Held
      <4>2. i # b
        BY <1>7, <4>1
      <4>3. w2[i] = w[i] /\ i \in 1..n /\ w[i].at = "iq" /\ s = w[i].slot
        BY <1>5, <1>6, <4>1, <4>2
      <4>4. s \in H /\ rank[s] = i
        BY <2>1, <2>2, <4>3 DEF Held, Ranks
      <4>5. ASSUME s \in S PROVE FALSE
        <5>1. PICK j \in Instructions("iq") : j > b /\ s = w[j].slot
          BY <2>3, <4>5
        <5>2. rank[s] = j /\ j \in 1..n
          BY <1>1, <2>1, <5>1 DEF Instructions, Ranks
        <5>3. i <= b
          OBVIOUS
        <5> QED BY <4>4, <5>1, <5>2, <5>3
      <4> QED BY <4>4, <4>5
    <3>2. ASSUME NEW s \in H, s \notin S PROVE s \in Held(w2, b)
      <4>1. PICK i \in 1..n : w[i].at = "iq" /\ s = w[i].slot
        BY <2>2 DEF Held
      <4>2. ~(i > b) /\ i # b
        BY <1>1, <1>4, <2>3, <3>2, <4>1 DEF Instructions
      <4>3. i \in 1..b
        BY <4>2
      <4> QED BY <1>6, <4>1, <4>2, <4>3 DEF Held
    <3> QED BY <3>1, <3>2
  <2>8. Ranks(w2, b, rank)
    <3>1. \A i \in 1..b : w2[i].at = "iq" => w2[i] = w[i] /\ i \in 1..n
      BY <1>5, <1>6, <1>7
    <3> QED BY <2>1, <3>1 DEF Ranks
  <2> QED BY <2>5, <2>6, <2>7, <2>8 DEF SlotsHeld
<1>23. TypeOK'
  <2>1. /\ fl' \in [IQSlot -> IQSlot] /\ fl_head' \in IQSlot /\ fl_tail' \in IQSlot
        /\ fl_length' \in 0..IQsize /\ age_list' \in Seq(IQSlot)
    BY <1>22 DEF IQ, Queue
  <2>2. Len(age_list') <= IQsize
    <3>1. PICK q \in Queue : q = IQ' /\ q.list = age_list'
      BY <1>22 DEF IQ
    <3>2. SlotsHeld(w2, b, q)
      BY <1>22, <3>1
    <3> QED BY <3>1, <3>2, ListFits
  <2>3. Len(w2) <= ActiveListSize
    <3>1. n <= ActiveListSize
      BY <1>1 DEF Scheduled, TypeOK
    <3> QED BY <1>6, <3>1, SchedulerAssumption
  <2>4. stage' \in 1..Len(Order) /\ HasWork(Order[stage'], w2)
    BY <1>20 DEF StageAfter
  <2> QED BY <1>4, <1>6, <1>11, <2>1, <2>2, <2>3, <2>4 DEF Scheduled, TypeOK
<1>24. Consistent(w2, b, amt, rdy2, regs2, stage', IQ')
  BY <1>13, <1>14, <1>15, <1>16, <1>17, <1>18, <1>21, <1>22 DEF Consistent
<1> QED BY <1>4, <1>6, <1>11, <1>23, <1>24 DEF Scheduled

-----------------------------------------------------------------------------
(* Schedule *)

\* The partitions are of one size.
LEMMA PartitionsAre ==
  /\ part_size \in Nat \ {0}
  /\ \A k \in 0..(num_parts - 1) :
       /\ k * part_size \in IQSlot
       /\ (k * part_size + part_size) % IQsize \in {j * part_size : j \in 0..(num_parts - 1)}
<1>1. PICK N \in Nat \ {0}, P \in Nat \ {0} : N = IQsize /\ P = num_parts /\ N % P = 0 /\ IQSlot = 0..(N - 1)
  BY SchedulerAssumption DEF IQSlot
<1>2. PICK s \in Nat : s = part_size /\ N = P * s
  <2>1. N \div P \in Nat /\ N = P * (N \div P) + (N % P)
    BY <1>1
  <2> QED BY <1>1, <2>1 DEF part_size
<1>3. s > 0
  <2>1. CASE s = 0
    <3>1. P * 0 = 0
      OBVIOUS
    <3> QED BY <1>2, <2>1, <3>1
  <2> QED BY <2>1
<1>4. ASSUME NEW k \in 0..(P - 1)
      PROVE  k * s \in 0..(N - 1) /\ (k * s + s) % N \in {j * s : j \in 0..(P - 1)}
  <2>1. PICK d \in Nat : P = k + 1 + d /\ d = P - 1 - k
    <3>1. P - 1 - k \in Nat /\ P = k + 1 + (P - 1 - k)
      OBVIOUS
    <3> QED BY <3>1
  <2>2. k \in Nat /\ k * s \in Nat /\ d * s \in Nat
    OBVIOUS
  <2>3. N = k * s + s + d * s
    <3>1. (k + 1 + d) * s = k * s + s + d * s
      BY <2>2
    <3>2. P * s = (k + 1 + d) * s
      BY <2>1
    <3> QED BY <1>2, <3>1, <3>2
  <2>4. k * s \in 0..(N - 1)
    BY <1>3, <2>2, <2>3
  <2>5. CASE d = 0
    <3>1. d * s = 0
      BY <2>5
    <3>2. k * s + s = N
      BY <2>2, <2>3, <3>1
    <3>3. N % N = 0
      <4>1. N \in 0..(2 * N - 1)
        OBVIOUS
      <4>2. N % N = IF N < N THEN N ELSE N - N
        BY <4>1, ModOnce
      <4> QED BY <4>2
    <3>4. 0 \in 0..(P - 1) /\ 0 = 0 * s
      OBVIOUS
    <3> QED BY <2>4, <3>2, <3>3, <3>4
  <2>6. CASE d # 0
    <3>1. d * s > 0
      BY <1>3, <2>6
    <3>2. k * s + s \in 0..(2 * N - 1) /\ k * s + s < N
      BY <1>3, <2>2, <2>3, <3>1
    <3>3. (k * s + s) % N = k * s + s
      BY <3>2, ModOnce
    <3>4. k + 1 \in 0..(P - 1)
      BY <2>1, <2>6
    <3>5. (k + 1) * s = k * s + s
      BY <2>2
    <3> QED BY <2>4, <3>3, <3>4, <3>5
  <2> QED BY <2>5, <2>6
<1> QED BY <1>1, <1>2, <1>3, <1>4

\* The scan looks at each slot that is held, and at none twice.
LEMMA ScanIs ==
  ASSUME Scheduled, NEW H \in SUBSET IQSlot, NEW rank \in [IQSlot -> Nat], QueueHolds(IQ, H, rank)
  PROVE  /\ Len(Scan) \in Nat
         /\ \A s \in H : \E k \in 1..Len(Scan) : Scan[k] = s
         /\ \A j, k \in 1..Len(Scan) : Scan[j] = Scan[k] => j = k
<1>1. CASE IDEAL_AGE_BASED
  <2>1. Scan = age_list
    BY <1>1 DEF Scan
  <2>2. PICK q \in Queue : q = IQ /\ q.list = age_list
    <3>1. IQ \in Queue
      BY DEF Scheduled, TypeOK, Queue, IQ
    <3>2. IQ.list = age_list
      BY DEF IQ
    <3> QED BY <3>1, <3>2
  <2>3. Len(age_list) \in Nat
    BY <2>2, LenProperties DEF Queue
  <2>4. \A s \in H : \E k \in 1..Len(age_list) : age_list[k] = s
    BY <2>2 DEF QueueHolds
  <2>5. \A j, k \in 1..Len(age_list) : age_list[j] = age_list[k] => j = k
    BY <2>2, ListedOnce
  <2> QED BY <2>1, <2>3, <2>4, <2>5
<1>2. CASE ~IDEAL_AGE_BASED
  <2>1. PICK N \in Nat \ {0} : N = IQsize /\ IQSlot = 0..(N - 1)
    BY SchedulerAssumption DEF IQSlot
  <2>2. PICK h \in IQSlot : h = part_next
    BY PartitionsAre DEF Scheduled, TypeOK
  <2>3. Scan \in [1..N -> IQSlot] /\ \A k \in 1..N : Scan[k] = (h + k - 1) % IQsize
    <3>1. \A k \in 1..N : (h + k - 1) % IQsize \in IQSlot
      <4>1. \A k \in 1..N : k \in 1..(IQsize + 1)
        BY <2>1
      <4> QED BY <4>1, PositionIs
    <3>2. Scan = [k \in 1..N |-> (h + k - 1) % IQsize]
      BY <1>2, <2>1, <2>2 DEF Scan
    <3> QED BY <3>1, <3>2
  <2>4. Len(Scan) = N
    BY <2>3, FunctionIsSequence
  <2>5. ASSUME NEW j \in 1..N, NEW k \in 1..N, Scan[j] = Scan[k] PROVE j = k
    <3>1. j \in 1..IQsize /\ k \in 1..IQsize
      BY <2>1
    <3>2. (h + j - 1) % IQsize = (h + k - 1) % IQsize
      BY <2>3, <2>5
    <3> QED BY <3>1, <3>2, PositionsDiffer
  <2>6. ASSUME NEW s \in IQSlot PROVE \E k \in 1..N : Scan[k] = s
    <3>1. PICK k \in 1..N : s = IF h + k - 1 < N THEN h + k - 1 ELSE h + k - 1 - N
      <4>1. h \in 0..(N - 1) /\ s \in 0..(N - 1)
        BY <2>1
      <4>2. CASE s >= h
        <5>1. s - h + 1 \in 1..N /\ h + (s - h + 1) - 1 = s /\ s < N
          BY <4>1, <4>2
        <5> QED BY <5>1
      <4>3. CASE ~(s >= h)
        <5>1. PICK k \in Int : k = s - h + 1 + N
          BY <4>1
        <5>2. k \in 1..N /\ ~(h + k - 1 < N) /\ s = h + k - 1 - N
          BY <4>1, <4>3, <5>1
        <5> QED BY <5>2
      <4> QED BY <4>2, <4>3
    <3>2. k \in 1..(IQsize + 1)
      BY <2>1
    <3>3. (h + k - 1) % IQsize = IF h + k - 1 < N THEN h + k - 1 ELSE h + k - 1 - N
      BY <2>1, <3>2, PositionIs
    <3> QED BY <2>3, <3>1, <3>3
  <2> QED BY <2>4, <2>5, <2>6
<1> QED BY <1>1, <1>2

\* What has been selected behind each slot of the scan, and behind the first n.
Selection(f) ==
  f = [k \in 0..Len(Scan) |-> IF k = 0 THEN {} ELSE Select(f[k - 1], Scan[k])]
SelectionTo(n, f) ==
  f = [k \in 0..n |-> IF k = 0 THEN {} ELSE Select(f[k - 1], Scan[k])]

\* The scan has a result.
LEMMA SelectionExists ==
  ASSUME NEW m \in Nat, m = Len(Scan)
  PROVE  \E f : Selection(f)
<1> DEFINE T == {n \in 0..m : ~\E f : SelectionTo(n, f)}
<1>1. ASSUME T # {} PROVE FALSE
  <2>1. PICK n \in T : \A j \in T : n <= j
    <3>1. T \subseteq Nat
      OBVIOUS
    <3> HIDE DEF T
    <3> QED BY <1>1, <3>1, LeastNat
  <2>2. n \in 0..m /\ ~\E f : SelectionTo(n, f)
    BY <2>1
  <2>3. CASE n = 0
    <3>1. PICK f : f = [k \in 0..0 |-> {}]
      OBVIOUS
    <3>2. SelectionTo(0, f)
      <4>1. \A k \in 0..0 : k = 0
        OBVIOUS
      <4> QED BY <3>1, <4>1 DEF SelectionTo
    <3> QED BY <2>2, <2>3, <3>2
  <2>4. CASE n # 0
    <3>1. PICK l \in 0..m : n = l + 1
      <4>1. n - 1 \in 0..m /\ n = (n - 1) + 1
        BY <2>2, <2>4
      <4> QED BY <4>1
    <3>2. l \notin T
      BY <2>1, <3>1
    <3>3. PICK f : SelectionTo(l, f)
      BY <3>2
    <3>4. PICK g : g = [k \in 0..n |-> IF k <= l THEN f[k] ELSE Select(f[l], Scan[n])]
      OBVIOUS
    <3>5. \A k \in 0..l : g[k] = f[k]
      BY <3>1, <3>4
    <3>6. ASSUME NEW k \in 0..n
          PROVE  g[k] = IF k = 0 THEN {} ELSE Select(g[k - 1], Scan[k])
      <4>1. CASE k <= l
        <5>1. k \in 0..l /\ (k # 0 => k - 1 \in 0..l)
          BY <3>1, <4>1
        <5>2. f[k] = IF k = 0 THEN {} ELSE Select(f[k - 1], Scan[k])
          BY <3>3, <5>1 DEF SelectionTo
        <5> QED BY <3>5, <5>1, <5>2
      <4>2. CASE ~(k <= l)
        <5>1. k = n /\ k # 0 /\ k - 1 = l /\ l \in 0..l
          BY <3>1, <4>2
        <5>2. g[k] = Select(f[l], Scan[n])
          BY <3>4, <4>2
        <5> QED BY <3>5, <5>1, <5>2
      <4> QED BY <4>1, <4>2
    <3>7. PICK h : h = [k \in 0..n |-> IF k = 0 THEN {} ELSE Select(g[k - 1], Scan[k])]
      OBVIOUS
    <3>8. g = h
      <4>1. \A k \in 0..n : h[k] = g[k]
        BY <3>6, <3>7
      <4>2. DOMAIN g = 0..n /\ DOMAIN h = 0..n /\ g = [k \in 0..n |-> g[k]] /\ h = [k \in 0..n |-> h[k]]
        BY <3>4, <3>7
      <4> QED BY <4>1, <4>2
    <3>9. SelectionTo(n, g)
      BY <3>7, <3>8 DEF SelectionTo
    <3> QED BY <2>2, <3>9
  <2> QED BY <2>3, <2>4
<1>2. m \notin T
  BY <1>1
<1>3. PICK f : SelectionTo(m, f)
  BY <1>2
<1>4. Selection(f)
  BY <1>3 DEF Selection, SelectionTo
<1> QED BY <1>4

\* It is Issued.
LEMMA SelectionIs ==
  ASSUME NEW m \in Nat, m = Len(Scan)
  PROVE  \E f : f[0] = {} /\ Issued = f[m] /\ \A k \in 1..m : f[k] = Select(f[k - 1], Scan[k])
<1>1. PICK g : g = CHOOSE f : Selection(f)
  OBVIOUS
<1>2. Selection(g)
  BY <1>1, SelectionExists
<1>3. Issued = g[m]
  BY <1>1 DEF Issued, Selection
<1>4. g[0] = {}
  BY <1>2 DEF Selection
<1>5. ASSUME NEW k \in 1..m PROVE g[k] = Select(g[k - 1], Scan[k])
  <2>1. k \in 0..Len(Scan) /\ k # 0
    OBVIOUS
  <2>2. g[k] = IF k = 0 THEN {} ELSE Select(g[k - 1], Scan[k])
    BY <1>2, <2>1 DEF Selection
  <2> QED BY <2>1, <2>2
<1> QED BY <1>3, <1>4, <1>5

\* The owner of a slot that is held.
LEMMA OwnerIs ==
  ASSUME NEW n \in Nat, NEW w, w = inflight, n = Len(w), NEW rank, Ranks(w, n, rank),
         NEW i \in 1..n, w[i].at = "iq"
  PROVE  Owner(w[i].slot) = i
<1>1. i \in Instructions("iq") /\ inflight[i].slot = w[i].slot
  BY DEF Instructions
<1>2. \A j \in Instructions("iq") : inflight[j].slot = w[i].slot => j = i
  BY DEF Instructions, Ranks
<1> QED BY <1>1, <1>2 DEF Owner

\* What I is after k slots of the scan: slots among these, of instructions that wait for nothing
\* more, with lanes of their own that nothing in register read is in.
Picks(I, k, w, n) ==
  /\ \A p \in I : /\ \E j \in 1..k : Scan[j] = p[1]
                  /\ \E i \in 1..n : w[i].at = "iq" /\ w[i].slot = p[1] /\ w[i].waits = {}
                  /\ p[2] \in Lanes /\ \A i \in 1..n : w[i].at = "rr" => w[i].lane # p[2]
  /\ \A p, o \in I : p[1] = o[1] \/ p[2] = o[2] => p = o

\* One more slot.
LEMMA SelectPicks ==
  ASSUME Scheduled, NEW n \in Nat, NEW w \in Seq(Instruction), w = inflight, n = Len(w),
         NEW rank, Ranks(w, n, rank), QueueHolds(IQ, Held(w, n), rank),
         NEW k \in Nat, NEW I, Picks(I, k, w, n), \A j \in 1..k : Scan[j] # Scan[k + 1]
  PROVE  Picks(Select(I, Scan[k + 1]), k + 1, w, n)
<1>1. \A j \in 1..k : j \in 1..(k + 1)
  OBVIOUS
<1>2. k + 1 \in 1..(k + 1)
  OBVIOUS
<1>3. PICK s : s = Scan[k + 1]
  OBVIOUS
<1>4. PICK x : x = inflight[Owner(s)]
  OBVIOUS
<1>5. CASE Select(I, s) = I
  BY <1>1, <1>3, <1>5 DEF Picks
<1>6. CASE Select(I, s) # I
  <2>1. /\ s \in ToSet(age_list) /\ x.waits = {} /\ FreeLanes(x.lanes, I) # {}
        /\ Select(I, s) = I \cup {<<s, Min(FreeLanes(x.lanes, I))>>}
    BY <1>4, <1>6 DEF Select
  <2>2. s \in Held(w, n)
    <3>1. PICK j \in DOMAIN age_list : s = age_list[j]
      BY <2>1 DEF ToSet
    <3>2. j \in 1..Len(age_list)
      BY LenProperties DEF Scheduled, TypeOK
    <3>3. IQ.list = age_list
      BY DEF IQ
    <3> QED BY <3>1, <3>2, <3>3 DEF QueueHolds
  <2>3. PICK i \in 1..n : w[i].at = "iq" /\ s = w[i].slot
    BY <2>2 DEF Held
  <2>4. x = w[i]
    BY <1>4, <2>3, OwnerIs
  <2>5. w[i].lanes \in SUBSET Lanes
    <3>1. PICK y \in Instruction : y = w[i]
      BY InstructionsIn
    <3> QED BY <3>1 DEF Instruction
  <2>6. PICK lane \in Lanes : lane = Min(FreeLanes(x.lanes, I)) /\ lane \in FreeLanes(x.lanes, I)
    <3>1. FreeLanes(x.lanes, I) \in SUBSET Lanes
      BY <2>4, <2>5 DEF FreeLanes
    <3>2. FreeLanes(x.lanes, I) \in SUBSET Nat
      BY <3>1, OrderIs
    <3>3. Min(FreeLanes(x.lanes, I)) \in FreeLanes(x.lanes, I)
      BY <2>1, <3>2, MinIs
    <3> QED BY <3>1, <3>3
  <2>7. (\A p \in I : p[2] # lane) /\ \A j \in 1..n : w[j].at = "rr" => w[j].lane # lane
    BY <2>6 DEF FreeLanes, Instructions
  <2>8. \A p \in I : p[1] # s
    BY <1>3 DEF Picks
  <2>9. PICK new : new = <<s, lane>> /\ new[1] = s /\ new[2] = lane
    <3>1. <<s, lane>>[1] = s /\ <<s, lane>>[2] = lane
      OBVIOUS
    <3> QED BY <3>1
  <2>10. Select(I, s) = I \cup {new}
    BY <2>1, <2>6, <2>9
  <2>11. ASSUME NEW p \in I \cup {new}
         PROVE  /\ \E j \in 1..(k + 1) : Scan[j] = p[1]
                /\ \E j \in 1..n : w[j].at = "iq" /\ w[j].slot = p[1] /\ w[j].waits = {}
                /\ p[2] \in Lanes /\ \A j \in 1..n : w[j].at = "rr" => w[j].lane # p[2]
    <3>1. CASE p \in I
      BY <1>1, <3>1 DEF Picks
    <3>2. CASE p = new
      BY <1>2, <1>3, <2>1, <2>3, <2>4, <2>7, <2>9, <3>2
    <3> QED BY <3>1, <3>2
  <2>12. \A p, o \in I \cup {new} : p[1] = o[1] \/ p[2] = o[2] => p = o
    BY <2>7, <2>8, <2>9 DEF Picks
  <2> QED BY <1>3, <2>10, <2>11, <2>12 DEF Picks
<1> QED BY <1>3, <1>5, <1>6

\* What is issued.
LEMMA IssuedIs ==
  ASSUME Scheduled, NEW n \in Nat, NEW w \in Seq(Instruction), w = inflight, n = Len(w),
         NEW rank \in [IQSlot -> Nat], Ranks(w, n, rank), QueueHolds(IQ, Held(w, n), rank)
  PROVE  Picks(Issued, Len(Scan), w, n)
<1>1. PICK m \in Nat : m = Len(Scan) /\ \A j, k \in 1..m : Scan[j] = Scan[k] => j = k
  <2>1. Held(w, n) \in SUBSET IQSlot
    BY InstructionsIn DEF Held
  <2> QED BY <2>1, ScanIs
<1>2. PICK f : f[0] = {} /\ Issued = f[m] /\ \A k \in 1..m : f[k] = Select(f[k - 1], Scan[k])
  BY <1>1, SelectionIs
<1> DEFINE T == {k \in 0..m : ~Picks(f[k], k, w, n)}
<1>3. ASSUME T # {} PROVE FALSE
  <2>1. PICK k \in T : \A j \in T : k <= j
    <3>1. T \subseteq Nat
      OBVIOUS
    <3> HIDE DEF T
    <3> QED BY <1>3, <3>1, LeastNat
  <2>2. k \in 0..m /\ ~Picks(f[k], k, w, n)
    BY <2>1
  <2>3. CASE k = 0
    <3>1. Picks({}, 0, w, n)
      BY DEF Picks
    <3> QED BY <1>2, <2>2, <2>3, <3>1
  <2>4. CASE k # 0
    <3>1. PICK l \in 0..m : k = l + 1 /\ l = k - 1 /\ k \in 1..m
      <4>1. k - 1 \in 0..m /\ k = (k - 1) + 1 /\ k \in 1..m
        BY <2>2, <2>4
      <4> QED BY <4>1
    <3>2. Picks(f[l], l, w, n)
      <4>1. l \notin T
        <5>1. ~(k <= l)
          BY <3>1
        <5> HIDE DEF T
        <5> QED BY <2>1, <5>1
      <4> QED BY <4>1
    <3>3. \A j \in 1..l : Scan[j] # Scan[l + 1]
      <4>1. \A j \in 1..l : j \in 1..m /\ j # l + 1
        BY <3>1
      <4> QED BY <1>1, <3>1, <4>1
    <3>4. Picks(Select(f[l], Scan[l + 1]), l + 1, w, n)
      BY <3>2, <3>3, SelectPicks
    <3>5. f[k] = Select(f[l], Scan[l + 1])
      BY <1>2, <3>1
    <3> QED BY <2>2, <3>1, <3>4, <3>5
  <2> QED BY <2>3, <2>4
<1>4. m \notin T
  BY <1>3
<1> QED BY <1>1, <1>2, <1>4

\* An instruction goes to a lane.
Gone(x, lane) == [x EXCEPT !.at = "rr", !.slot = 0, !.lanes = {}, !.lane = lane]

\* Its fields.
LEMMA GoneIs ==
  ASSUME NEW x \in Instruction, NEW lane \in Lanes
  PROVE  /\ Gone(x, lane) \in Instruction
         /\ Gone(x, lane).at = "rr" /\ Gone(x, lane).lane = lane
         /\ Gone(x, lane).kind = x.kind /\ Gone(x, lane).log = x.log /\ Gone(x, lane).dst = x.dst
         /\ Gone(x, lane).srcs = x.srcs /\ Gone(x, lane).waits = x.waits
         /\ Gone(x, lane).prediction = x.prediction /\ Gone(x, lane).read = x.read
         /\ Gone(x, lane).sub = x.sub /\ Gone(x, lane).val_misp = x.val_misp
<1>1. 0 \in IQSlot
  BY SchedulerAssumption DEF IQSlot
<1> QED BY <1>1 DEF Gone, Instruction, Place

\* Instructions are selected and issued.
LEMMA ScheduleStep ==
  ASSUME Scheduled, Schedule
  PROVE  Scheduled'
<1>1. PICK n \in Nat, w \in Seq(Instruction) : w = inflight /\ n = Len(w)
  BY InstructionsIn DEF Scheduled, TypeOK
<1>2. /\ \A i \in 1..n : FieldsAgree(w[i])
      /\ RegistersApart(w, n, amt) /\ SourcesMapped(w, n, amt) /\ ReadyInTime(w, n, amt, ready)
      /\ ContentsKnown(w, n, amt, prf) /\ WrongBehindSuspect(w, n) /\ LanesFlow(w, n)
      /\ InCycle(w, n, prf, stage) /\ SlotsHeld(w, n, IQ)
  BY <1>1 DEF Scheduled, Consistent
<1>3. \A i \in 1..n : w[i] \in Instruction /\ w[i].slot \in IQSlot
  BY <1>1, InstructionsIn
<1>4. PICK rank \in [IQSlot -> Nat] : Ranks(w, n, rank) /\ QueueHolds(IQ, Held(w, n), rank)
  BY <1>2 DEF SlotsHeld
<1>5. PICK I : I = Issued /\ Picks(I, Len(Scan), w, n)
  BY <1>1, <1>4, IssuedIs
<1>6. /\ Running("schedule")
      /\ IQBecomes(removeEach(Scan, {p[1] : p \in I}))
      /\ part_next' = IF IDEAL_AGE_BASED /\ age_list = <<>> THEN part_next
                      ELSE (part_next + part_size) % IQsize
      /\ stage' = Behind(stage, inflight')
      /\ UNCHANGED <<amt, regVars>>
  BY <1>5 DEF Schedule, NextStage
<1>7. PICK w2 \in Seq(Instruction) :
        /\ w2 = inflight' /\ Len(w2) = n
        /\ \A i \in 1..n :
             \/ w2[i] = w[i] /\ ~\E p \in I : w[i].at = "iq" /\ w[i].slot = p[1]
             \/ \E p \in I : w[i].at = "iq" /\ w[i].slot = p[1] /\ w2[i] = Gone(w[i], p[2])
  <2> DEFINE F(i) == IF \E p \in I : w[i].at = "iq" /\ w[i].slot = p[1]
                     THEN Gone(w[i], (CHOOSE p \in I : w[i].slot = p[1])[2]) ELSE w[i]
  <2>1. ASSUME NEW i \in 1..n
        PROVE  \/ F(i) = w[i] /\ ~\E p \in I : w[i].at = "iq" /\ w[i].slot = p[1]
               \/ \E p \in I : w[i].at = "iq" /\ w[i].slot = p[1] /\ F(i) = Gone(w[i], p[2])
    <3>1. CASE ~\E p \in I : w[i].at = "iq" /\ w[i].slot = p[1]
      BY <3>1
    <3>2. CASE \E p \in I : w[i].at = "iq" /\ w[i].slot = p[1]
      <4>1. PICK p \in I : w[i].at = "iq" /\ w[i].slot = p[1]
        BY <3>2
      <4>2. PICK o \in I : o = CHOOSE c \in I : w[i].slot = c[1]
        BY <4>1
      <4>3. w[i].slot = o[1]
        BY <4>1, <4>2
      <4>4. F(i) = Gone(w[i], o[2])
        BY <3>2, <4>2
      <4> QED BY <4>1, <4>3, <4>4
    <3> QED BY <3>1, <3>2
  <2>2. inflight' = [i \in 1..Len(inflight) |-> F(i)]
    BY <1>1, <1>5 DEF Schedule, Gone
  <2> HIDE DEF F
  <2>3. \A i \in 1..n : F(i) \in Instruction
    <3> SUFFICES ASSUME NEW i \in 1..n PROVE F(i) \in Instruction
      OBVIOUS
    <3>1. \A p \in I : p[2] \in Lanes
      BY <1>5 DEF Picks
    <3> QED BY <1>3, <2>1, <3>1, GoneIs
  <2>4. PICK f : f = inflight'
    OBVIOUS
  <2>5. f \in [1..n -> Instruction] /\ \A i \in 1..n : f[i] = F(i)
    BY <1>1, <2>2, <2>3, <2>4
  <2>6. f \in Seq(Instruction) /\ Len(f) = n
    BY <2>5, FunctionIsSequence
  <2> QED BY <2>1, <2>4, <2>5, <2>6
<1>8. stage = Len(Depth) + 5 /\ stage \in 0..(Len(Order) - 1) /\ stage > ExecuteStage /\ stage > ReadStage
  <2>1. stage = Len(Depth) + 5
    BY <1>6, StageIs DEF Scheduled, TypeOK
  <2> QED BY <2>1, OrderIs DEF ReadStage, ExecuteStage
<1>9. StageAfter(stage, stage', w2, n)
  <2>1. stage' = Behind(stage, w2)
    BY <1>6, <1>7
  <2> QED BY <1>7, <1>8, <2>1, BehindIs
<1>10. amt \in [LogReg -> Reg] /\ ready \in [Reg -> BOOLEAN] /\ prf \in [Reg -> Content]
  BY DEF Scheduled, TypeOK
<1>11. ASSUME NEW i \in 1..n, w2[i] # w[i]
       PROVE  \E p \in I : /\ w[i].at = "iq" /\ w[i].slot = p[1] /\ w[i].waits = {} /\ w2[i].at = "rr"
                           /\ w2[i].lane = p[2]
                           /\ \A j \in 1..n : w[j].at = "rr" => w[j].lane # p[2]
                           /\ w2[i].kind = w[i].kind /\ w2[i].log = w[i].log /\ w2[i].dst = w[i].dst
                           /\ w2[i].srcs = w[i].srcs /\ w2[i].waits = w[i].waits
                           /\ w2[i].prediction = w[i].prediction /\ w2[i].read = w[i].read
                           /\ w2[i].sub = w[i].sub /\ w2[i].val_misp = w[i].val_misp
  <2>1. PICK p \in I : w[i].at = "iq" /\ w[i].slot = p[1] /\ w2[i] = Gone(w[i], p[2])
    BY <1>7, <1>11
  <2>2. PICK j \in 1..n : w[j].at = "iq" /\ w[j].slot = p[1] /\ w[j].waits = {}
    BY <1>5 DEF Picks
  <2>3. i = j
    BY <1>4, <2>1, <2>2 DEF Ranks
  <2>4. p[2] \in Lanes /\ \A k \in 1..n : w[k].at = "rr" => w[k].lane # p[2]
    BY <1>5 DEF Picks
  <2>5. PICK x \in Instruction, lane \in Lanes : x = w[i] /\ lane = p[2] /\ w2[i] = Gone(x, lane)
    BY <1>3, <2>1, <2>4
  <2>6. /\ w2[i].at = "rr" /\ w2[i].lane = lane
        /\ w2[i].kind = x.kind /\ w2[i].log = x.log /\ w2[i].dst = x.dst
        /\ w2[i].srcs = x.srcs /\ w2[i].waits = x.waits
        /\ w2[i].prediction = x.prediction /\ w2[i].read = x.read
        /\ w2[i].sub = x.sub /\ w2[i].val_misp = x.val_misp
    BY <2>5, GoneIs
  <2> QED BY <2>1, <2>2, <2>3, <2>4, <2>5, <2>6
<1>12. ASSUME NEW i \in 1..n
       PROVE  \/ w2[i] = w[i]
              \/ /\ w[i].at = "iq" /\ w2[i].at = "rr" /\ w[i].waits = {}
                 /\ w2[i].log = w[i].log /\ w2[i].dst = w[i].dst
                 /\ w2[i].srcs = w[i].srcs /\ w2[i].waits = w[i].waits
                 /\ w2[i].prediction = w[i].prediction /\ w2[i].read = w[i].read
                 /\ w2[i].sub = w[i].sub /\ w2[i].val_misp = w[i].val_misp
  BY <1>11
<1>13. ASSUME NEW i \in 1..n PROVE FieldsAgree(w2[i])
  BY <1>2, <1>12 DEF FieldsAgree, Executed
<1>14. RegistersApart(w2, n, amt) /\ SourcesMapped(w2, n, amt)
  <2>1. \A i \in 1..n : w2[i].log = w[i].log /\ w2[i].dst = w[i].dst /\ w2[i].srcs \subseteq w[i].srcs
    BY <1>12
  <2> QED BY <1>2, <2>1, MapsKept
<1>15. ReadyInTime(w2, n, amt, ready)
  <2>1. PICK S \in SUBSET (1..n) : S = {}
    OBVIOUS
  <2>2. PICK tags : tags = {w[i].dst : i \in S} \ {NoReg}
    OBVIOUS
  <2>3. tags = {} /\ \A r \in Reg : ready[r] <=> ready[r] \/ r \in tags
    BY <2>1, <2>2
  <2>4. \A i \in 1..n : ReadyLater(w[i], w2[i], tags, i \in S)
    BY <1>12, <2>1, <2>3 DEF ReadyLater, Executed, Pending
  <2>5. Wake(w, w2, n, S, tags, ready, ready)
    BY <2>2, <2>3, <2>4 DEF Wake
  <2> QED BY <1>1, <1>2, <1>10, <2>5, ReadyUpdated
<1>16. ContentsKnown(w2, n, amt, prf)
  <2>1. \A i \in 1..n : w2[i].dst = w[i].dst /\ Written(w2[i]) = Written(w[i])
    BY <1>12 DEF Written, Executed, Computed
  <2> QED BY <1>2, <2>1 DEF ContentsKnown
<1>17. WrongBehindSuspect(w2, n)
  <2>1. \A i \in 1..n : w2[i].read = w[i].read /\ (Suspect(w[i]) => Suspect(w2[i]))
    BY <1>12 DEF Suspect
  <2> QED BY <1>2, <2>1, SuspectsStay
<1>18. LanesFlow(w2, n)
  <2> SUFFICES ASSUME NEW i \in 1..n, NEW j \in 1..n, w2[i].at \in {"rr", "ex", "wb"}, w2[i].at = w2[j].at,
                      w2[i].lane = w2[j].lane, w2[i].sub = w2[j].sub
               PROVE  i = j
    BY DEF LanesFlow
  <2>1. CASE w2[i] = w[i] /\ w2[j] = w[j]
    BY <1>2, <2>1 DEF LanesFlow
  <2>2. CASE w2[i] # w[i] /\ w2[j] = w[j]
    <3>1. w2[i].at = "rr" /\ \A k \in 1..n : w[k].at = "rr" => w[k].lane # w2[i].lane
      BY <1>11, <2>2
    <3> QED BY <2>2, <3>1
  <2>3. CASE w2[i] = w[i] /\ w2[j] # w[j]
    <3>1. w2[j].at = "rr" /\ \A k \in 1..n : w[k].at = "rr" => w[k].lane # w2[j].lane
      BY <1>11, <2>3
    <3> QED BY <2>3, <3>1
  <2>4. CASE w2[i] # w[i] /\ w2[j] # w[j]
    <3>1. PICK p \in I : w[i].at = "iq" /\ w[i].slot = p[1] /\ w2[i].lane = p[2]
      BY <1>11, <2>4
    <3>2. PICK o \in I : w[j].at = "iq" /\ w[j].slot = o[1] /\ w2[j].lane = o[2]
      BY <1>11, <2>4
    <3>3. \A a, b \in I : a[1] = b[1] \/ a[2] = b[2] => a = b
      BY <1>5 DEF Picks
    <3>4. p[2] = o[2]
      BY <3>1, <3>2
    <3>5. p = o
      BY <3>3, <3>4
    <3> QED BY <1>4, <3>1, <3>2, <3>5 DEF Ranks
  <2> QED BY <2>1, <2>2, <2>3, <2>4
<1>19. InCycle(w2, n, prf, stage')
  <2>1. stage' \in Nat /\ stage' > stage
    BY <1>9 DEF StageAfter
  <2>2. stage' > ExecuteStage /\ stage' # ReadStage
    BY <1>8, <2>1, OrderIs DEF ExecuteStage, ReadStage
  <2> QED BY <2>2 DEF InCycle
<1>20. IQ' \in Queue /\ SlotsHeld(w2, n, IQ')
  <2>1. PICK H \in SUBSET IQSlot : H = Held(w, n)
    BY <1>3 DEF Held
  <2>2. PICK S \in SUBSET H : S = {p[1] : p \in I} /\ \A s \in S : \E k \in 1..Len(Scan) : Scan[k] = s
    <3>1. \A p \in I : p[1] \in H /\ \E k \in 1..Len(Scan) : Scan[k] = p[1]
      BY <1>5, <2>1 DEF Picks, Held
    <3>2. PICK T : T = {p[1] : p \in I}
      OBVIOUS
    <3>3. \A s \in T : \E p \in I : s = p[1]
      BY <3>2
    <3>4. T \in SUBSET H
      BY <3>1, <3>3
    <3>5. \A s \in T : \E k \in 1..Len(Scan) : Scan[k] = s
      BY <3>1, <3>3
    <3> QED BY <3>2, <3>4, <3>5
  <2>3. IQ \in Queue
    BY DEF Scheduled, TypeOK, IQ, Queue
  <2>4. PICK q \in Queue : q = removeEach(Scan, S) /\ QueueHolds(q, H \ S, rank)
    <3>1. PICK m \in Nat : m = Len(Scan) /\ \A j, k \in 1..m : Scan[j] = Scan[k] => j = k
      BY <1>4, <2>1, ScanIs
    <3>2. removeEach(Scan, S) \in Queue /\ QueueHolds(removeEach(Scan, S), H \ S, rank)
      BY <1>4, <2>1, <2>2, <2>3, <3>1, EachRemoved
    <3> QED BY <3>2
  <2>5. IQ' = q
    <3>1. IQBecomes(q)
      BY <1>6, <2>2, <2>4
    <3>2. q = [fl |-> q.fl, head |-> q.head, tail |-> q.tail, length |-> q.length, list |-> q.list]
      BY DEF Queue
    <3> QED BY <3>1, <3>2 DEF IQBecomes, IQ
  <2>6. \A i \in 1..n : w2[i].at = "iq" <=> w[i].at = "iq" /\ w[i].slot \notin S
    <3> SUFFICES ASSUME NEW i \in 1..n PROVE w2[i].at = "iq" <=> w[i].at = "iq" /\ w[i].slot \notin S
      OBVIOUS
    <3>1. CASE w2[i] = w[i] /\ ~\E p \in I : w[i].at = "iq" /\ w[i].slot = p[1]
      BY <2>2, <3>1
    <3>2. CASE \E p \in I : w[i].at = "iq" /\ w[i].slot = p[1] /\ w2[i] = Gone(w[i], p[2])
      <4>1. w[i].slot \in S
        BY <2>2, <3>2
      <4>2. w2[i].at = "rr"
        <5>1. PICK p \in I : w2[i] = Gone(w[i], p[2])
          BY <3>2
        <5>2. p[2] \in Lanes
          BY <1>5 DEF Picks
        <5> QED BY <1>3, <5>1, <5>2, GoneIs
      <4> QED BY <4>1, <4>2
    <3> QED BY <1>7, <3>1, <3>2
  <2>7. \A i \in 1..n : w2[i].at = "iq" => w2[i] = w[i]
    BY <1>12
  <2>8. Held(w2, n) = H \ S
    BY <2>1, <2>6, <2>7 DEF Held
  <2>9. Ranks(w2, n, rank)
    BY <1>4, <2>6, <2>7 DEF Ranks
  <2> QED BY <2>4, <2>5, <2>8, <2>9 DEF SlotsHeld
<1>21. TypeOK'
  <2>1. /\ fl' \in [IQSlot -> IQSlot] /\ fl_head' \in IQSlot /\ fl_tail' \in IQSlot
        /\ fl_length' \in 0..IQsize /\ age_list' \in Seq(IQSlot)
    BY <1>20 DEF IQ, Queue
  <2>2. Len(age_list') <= IQsize
    <3>1. PICK q \in Queue : q = IQ' /\ q.list = age_list'
      BY <1>20 DEF IQ
    <3>2. SlotsHeld(w2, n, q)
      BY <1>20, <3>1
    <3> QED BY <3>1, <3>2, ListFits
  <2>3. part_next' \in {k * part_size : k \in 0..(num_parts - 1)}
    <3>1. PICK k \in 0..(num_parts - 1) : part_next = k * part_size
      BY DEF Scheduled, TypeOK
    <3>2. (part_next + part_size) % IQsize \in {j * part_size : j \in 0..(num_parts - 1)}
      BY <3>1, PartitionsAre
    <3> QED BY <1>6, <3>1, <3>2
  <2>4. Len(w2) <= ActiveListSize
    BY <1>1, <1>7 DEF Scheduled, TypeOK
  <2>5. stage' \in 1..Len(Order) /\ HasWork(Order[stage'], w2)
    BY <1>9 DEF StageAfter
  <2> QED BY <1>6, <1>7, <1>10, <2>1, <2>2, <2>3, <2>4, <2>5 DEF Scheduled, TypeOK, regVars
<1>22. Consistent(w2, n, amt, ready, prf, stage', IQ')
  BY <1>13, <1>14, <1>15, <1>16, <1>17, <1>18, <1>19, <1>20 DEF Consistent
<1> QED BY <1>6, <1>7, <1>21, <1>22 DEF Scheduled, regVars

-----------------------------------------------------------------------------
(* The invariant *)

\* Nothing is in flight, and the registers of the initial map are committed.
LEMMA InitiallyScheduled ==
  ASSUME Init
  PROVE  Scheduled
<1>1. /\ fl = EmptyIQ.fl /\ fl_head = 0 /\ fl_tail = 0 /\ fl_length = IQsize /\ age_list = <<>>
      /\ part_next = 0 /\ inflight = <<>> /\ amt = [l \in LogReg |-> l]
      /\ ready = [r \in Reg |-> TRUE]
      /\ prf = [r \in Reg |-> IF r \in Range(amt) THEN "right" ELSE "stale"]
      /\ stage = Len(Order)
  BY DEF Init, InitialMap
<1>2. IQsize \in Nat \ {0} /\ num_parts \in Nat \ {0} /\ 0 \in IQSlot /\ LogReg \subseteq Reg
      /\ ActiveListSize \in Nat
  BY SchedulerAssumption DEF IQSlot
<1>3. amt \in [LogReg -> Reg] /\ \A l \in LogReg : amt[l] = l
  BY <1>1, <1>2
<1>4. \A l \in LogReg : prf[amt[l]] = "right"
  BY <1>1, <1>2, <1>3 DEF Range
<1>5. ready \in [Reg -> BOOLEAN] /\ prf \in [Reg -> Content] /\ \A l \in LogReg : ready[amt[l]]
  BY <1>1, <1>3 DEF Content
<1>6. inflight \in Seq(Instruction) /\ Len(inflight) = 0
  BY <1>1
<1>7. stage = Len(Depth) + 6 /\ stage \in 1..Len(Order) /\ HasWork(Order[stage], inflight)
  <2>1. PICK d \in Nat : d = Len(Depth) /\ Len(Order) = d + 6 /\ Order[d + 6] = <<"dispatch", 0>>
    BY OrderIs
  <2>2. HasWork(<<"dispatch", 0>>, inflight)
    BY DEF HasWork
  <2> QED BY <1>1, <2>1, <2>2
<1>8. IQ = EmptyIQ
  <2>1. EmptyIQ = [fl |-> EmptyIQ.fl, head |-> 0, tail |-> 0, length |-> IQsize, list |-> <<>>]
    BY DEF EmptyIQ
  <2> QED BY <1>1, <2>1 DEF IQ
<1>9. part_next \in {k * part_size : k \in 0..(num_parts - 1)}
  <2>1. part_size \in Nat /\ 0 \in 0..(num_parts - 1)
    BY <1>2, PartitionsAre
  <2>2. 0 * part_size = 0
    BY <2>1
  <2> QED BY <1>1, <2>1, <2>2
<1>10. TypeOK
  <2>1. fl \in [IQSlot -> IQSlot]
    BY <1>1 DEF EmptyIQ
  <2>2. age_list \in Seq(IQSlot) /\ Len(age_list) <= IQsize
    BY <1>1, <1>2
  <2>3. fl_length \in 0..IQsize
    BY <1>1, <1>2
  <2> QED BY <1>1, <1>2, <1>3, <1>5, <1>6, <1>7, <1>9, <2>1, <2>2, <2>3 DEF TypeOK
<1>11. /\ \A i \in 1..0 : FieldsAgree(inflight[i])
       /\ RegistersApart(inflight, 0, amt) /\ SourcesMapped(inflight, 0, amt)
       /\ ReadyInTime(inflight, 0, amt, ready) /\ ContentsKnown(inflight, 0, amt, prf)
       /\ WrongBehindSuspect(inflight, 0) /\ LanesFlow(inflight, 0)
       /\ InCycle(inflight, 0, prf, stage)
  <2>1. 1..0 = {}
    OBVIOUS
  <2> QED BY <1>3, <1>4, <1>5, <2>1
          DEF RegistersApart, SourcesMapped, ReadyInTime, ContentsKnown, WrongBehindSuspect, LanesFlow,
              InCycle
<1>12. SlotsHeld(inflight, 0, IQ)
  BY <1>8, EmptyHolds
<1> QED BY <1>6, <1>10, <1>11, <1>12 DEF Scheduled, Consistent

\* Every step keeps it.
LEMMA StaysScheduled ==
  ASSUME Scheduled, [Next]_vars
  PROVE  Scheduled'
<1>1. CASE Retire
  BY <1>1, RetireStep
<1>2. CASE RetireMispredicted
  BY <1>2, RetireMispredictedStep
<1>3. CASE SquashComplete
  BY <1>3, SquashCompleteStep
<1>4. CASE \E lane \in Lanes : Writeback(lane)
  BY <1>4, WritebackStep
<1>5. CASE \E lane \in Lanes : WritebackMispredict(lane)
  BY <1>5, WritebackMispredictStep
<1>6. CASE \E i \in 1..Len(inflight), differ \in BOOLEAN : Replay(i, differ)
  BY <1>6, ReplayStep
<1>7. CASE ReplayNothing \/ EndOfCycle
  BY <1>7, StageStep
<1>8. CASE \E stalled \in SUBSET {i \in Ahead(0) : inflight[i].kind = "load"}, differ \in BOOLEAN :
             Execute(stalled, differ)
  BY <1>8, ExecuteStep
<1>9. CASE RegisterRead
  BY <1>9, RegisterReadStep
<1>10. CASE Schedule
  BY <1>10, ScheduleStep
<1>11. CASE \E kind \in {"alu", "load", "branch"} : \E lanes \in FULanes[kind], logs \in SUBSET LogReg,
              log \in LogReg \cup {NoReg}, prediction \in Predictions :
              Dispatch(kind, lanes, logs, log, prediction)
  BY <1>11, DispatchStep
<1>12. CASE UNCHANGED vars
  BY <1>12, StutterStep
<1> QED BY <1>1, <1>2, <1>3, <1>4, <1>5, <1>6, <1>7, <1>8, <1>9, <1>10, <1>11, <1>12 DEF Next

\* The inductive invariant holds in every state.
LEMMA ScheduledInvariant == Spec => []Scheduled
<1>1. Init => Scheduled
  BY InitiallyScheduled
<1>2. Scheduled /\ [Next]_vars => Scheduled'
  BY StaysScheduled
<1> QED BY <1>1, <1>2, PTL DEF Spec

-----------------------------------------------------------------------------
(* What it says *)

\* The free list has as many slots as its length says, and they are those nobody holds; the age
\* list has the others, by age.
LEMMA SlotsAreShared ==
  ASSUME Scheduled
  PROVE  SlotsSharedOut
<1>1. PICK n \in Nat, w \in Seq(Instruction) : w = inflight /\ n = Len(w)
  BY InstructionsIn DEF Scheduled, TypeOK
<1>2. PICK rank \in [IQSlot -> Nat] : Ranks(w, n, rank) /\ QueueHolds(IQ, Held(w, n), rank)
  BY <1>1 DEF Scheduled, Consistent, SlotsHeld
<1>3. PICK l \in Nat : l = fl_length
  BY SchedulerAssumption DEF Scheduled, TypeOK
<1>4. PICK H \in SUBSET IQSlot : H = Held(w, n)
  <2>1. \A i \in 1..n : w[i].slot \in IQSlot
    BY <1>1, InstructionsIn
  <2> QED BY <2>1 DEF Held
<1>5. /\ IQ.fl = fl /\ IQ.head = fl_head /\ IQ.length = l /\ IQ.list = age_list
  BY <1>3 DEF IQ
<1> DEFINE F(k) == fl[(fl_head + k - 1) % IQsize]
           free == [k \in 1..l |-> F(k)]
<1>6. /\ \A k \in 1..l : F(k) \notin H
      /\ \A j, k \in 1..l : F(j) = F(k) => j = k
      /\ \A s \in IQSlot \ H : \E k \in 1..l : F(k) = s
  <2>1. \A k : FreeAt(IQ, k) = F(k)
    BY <1>5 DEF FreeAt
  <2> HIDE DEF F
  <2> QED BY <1>2, <1>4, <1>5, <2>1 DEF QueueHolds
<1>7. \A k \in 1..l : F(k) \in IQSlot
  <2> SUFFICES ASSUME NEW k \in 1..l PROVE F(k) \in IQSlot
    OBVIOUS
  <2>1. fl_head \in IQSlot /\ fl \in [IQSlot -> IQSlot]
    BY DEF Scheduled, TypeOK
  <2>2. PICK N \in Nat \ {0} : N = IQsize /\ IQSlot = 0..(N - 1)
    BY SchedulerAssumption DEF IQSlot
  <2>3. PICK x \in Nat : x = fl_head + k - 1
    BY <2>1, <2>2
  <2>4. x % N \in 0..(N - 1)
    OBVIOUS
  <2> QED BY <2>1, <2>2, <2>3, <2>4
<1>8. H = {inflight[i].slot : i \in Instructions("iq")}
  BY <1>1, <1>4 DEF Held, Instructions
<1>9. ToSet(free) = IQSlot \ H
  <2> HIDE DEF F
  <2>1. ToSet(free) = {F(k) : k \in 1..l}
    BY DEF ToSet
  <2> QED BY <1>6, <1>7, <2>1
<1>10. Cardinality(ToSet(free)) = l
  <2> HIDE DEF F
  <2>1. PICK T : T = ToSet(free) /\ T = {F(k) : k \in 1..l}
    BY DEF ToSet
  <2>2. free \in Bijection(1..l, T)
    BY <1>6, <2>1 DEF Bijection, Injection, Surjection, IsInjective
  <2>3. ExistsBijection(1..l, T)
    BY <2>2 DEF ExistsBijection
  <2> QED BY <2>1, <2>3, FS_CountingElements
<1>11. \A s \in H : \E k \in 1..Len(age_list) : age_list[k] = s
  BY <1>2, <1>4, <1>5 DEF QueueHolds
<1>12. ToSet(age_list) = H
  <2>1. DOMAIN age_list = 1..Len(age_list)
    BY DEF Scheduled, TypeOK
  <2>2. \A k \in 1..Len(age_list) : age_list[k] \in H
    BY <1>2, <1>4, <1>5 DEF QueueHolds
  <2> QED BY <1>11, <2>1, <2>2 DEF ToSet
<1>13. \A i, j \in Instructions("iq") : inflight[i].slot = inflight[j].slot => i = j
  BY <1>1, <1>2 DEF Ranks, Instructions
<1>14. fl_length + Len(age_list) = IQsize
  BY <1>2, <1>3, <1>5 DEF QueueHolds
<1>15. \A s \in H : Owner(s) = rank[s]
  <2> SUFFICES ASSUME NEW s \in H PROVE Owner(s) = rank[s]
    OBVIOUS
  <2>1. PICK i \in 1..n : w[i].at = "iq" /\ w[i].slot = s
    BY <1>4 DEF Held
  <2>2. Owner(w[i].slot) = i
    BY <1>1, <1>2, <2>1, OwnerIs
  <2>3. rank[s] = i
    BY <1>2, <2>1 DEF Ranks
  <2> QED BY <2>1, <2>2, <2>3
<1>16. \A j, k \in 1..Len(age_list) : j < k => Owner(age_list[j]) < Owner(age_list[k])
  <2>1. \A k \in 1..Len(age_list) : age_list[k] \in H
    BY <1>2, <1>4, <1>5 DEF QueueHolds
  <2>2. \A j, k \in 1..Len(age_list) : j < k => rank[age_list[j]] < rank[age_list[k]]
    BY <1>2, <1>5 DEF QueueHolds
  <2> QED BY <1>15, <2>1, <2>2
<1> QED BY <1>3, <1>8, <1>9, <1>10, <1>12, <1>13, <1>14, <1>16 DEF SlotsSharedOut

\* A source that is not ready is the destination of an older instruction, which has not executed.
LEMMA WaitsAreForProducers ==
  ASSUME Scheduled
  PROVE  WaitsForAProducer
<1>1. PICK n \in Nat, w \in Seq(Instruction) : w = inflight /\ n = Len(w)
  BY InstructionsIn DEF Scheduled, TypeOK
<1>2. /\ \A i \in 1..n : FieldsAgree(w[i])
      /\ SourcesMapped(w, n, amt) /\ ReadyInTime(w, n, amt, ready)
  BY <1>1 DEF Scheduled, Consistent
<1> SUFFICES ASSUME NEW i \in Instructions("iq"), NEW r \in inflight[i].waits
             PROVE  /\ ~ready[r]
                    /\ \E j \in Producers(i, r) : inflight[j].at \in {"iq", "rr", "ex", "lsu"}
  BY DEF WaitsForAProducer
<1>3. i \in 1..n /\ r \in w[i].waits
  BY <1>1 DEF Instructions
<1>4. r \in w[i].srcs /\ ~ready[r]
  BY <1>2, <1>3 DEF ReadyInTime
<1>5. r \in Reg /\ NoReg \notin Reg
  <2>1. w[i] \in Instruction
    BY <1>1, <1>3, InstructionsIn
  <2>2. w[i].srcs \subseteq Reg
    BY <2>1 DEF Instruction
  <2> QED BY <1>4, <2>2, SchedulerAssumption
<1>6. \A l \in LogReg : amt[l] # r
  BY <1>2, <1>4 DEF ReadyInTime
<1>7. PICK j \in 1..n : j < i /\ w[j].dst = r
  BY <1>2, <1>3, <1>4, <1>6, SourceNamed
<1>8. ~Executed(w[j])
  BY <1>2, <1>4, <1>5, <1>7 DEF ReadyInTime
<1>9. w[j].at \in Place
  <2>1. w[j] \in Instruction
    BY <1>1, InstructionsIn
  <2> QED BY <2>1 DEF Instruction
<1>10. w[j].at \in {"iq", "rr", "ex", "lsu"}
  BY <1>8, <1>9 DEF Executed, Place
<1>11. j \in Producers(i, r)
  <2>1. j \in 1..(i - 1)
    BY <1>3, <1>7
  <2> QED BY <1>1, <1>7, <2>1 DEF Producers
<1> QED BY <1>1, <1>4, <1>10, <1>11

\* Nothing stale has been read, and the lanes are free-flowing.
LEMMA NothingStaleIsRead ==
  ASSUME Scheduled
  PROVE  NoStaleRead
<1>1. PICK n \in Nat, w \in Seq(Instruction) : w = inflight /\ n = Len(w)
  BY InstructionsIn DEF Scheduled, TypeOK
<1>2. WrongBehindSuspect(w, n) /\ LanesFlow(w, n)
  BY <1>1 DEF Scheduled, Consistent
<1>3. \A i \in 1..n : w[i].read # "stale"
  BY <1>2 DEF WrongBehindSuspect
<1>4. \A i \in Instructions("rr") \cup Instructions("ex") \cup Instructions("wb") :
        i \in 1..n /\ w[i].at \in {"rr", "ex", "wb"}
  BY <1>1 DEF Instructions
<1> QED BY <1>1, <1>2, <1>3, <1>4 DEF NoStaleRead, LanesFlow

\* The oldest instruction has nothing in front of it that could have misled it.
LEMMA OldestIsRight ==
  ASSUME Scheduled
  PROVE  OnlyRightValuesRetire
<1> SUFFICES ASSUME inflight # <<>>, Head(inflight).at = "done"
             PROVE  /\ Head(inflight).read = "right"
                    /\ Head(inflight).dst # NoReg => prf[Head(inflight).dst] = "right"
  BY DEF OnlyRightValuesRetire
<1>1. PICK n \in Nat, w \in Seq(Instruction) : w = inflight /\ n = Len(w)
  BY InstructionsIn DEF Scheduled, TypeOK
<1>2. 1 \in 1..n /\ Head(inflight) = w[1]
  BY <1>1
<1>3. WrongBehindSuspect(w, n) /\ ContentsKnown(w, n, amt, prf)
  BY <1>1 DEF Scheduled, Consistent
<1>4. w[1].read = "right"
  <2>1. w[1].read \in Content
    <3>1. w[1] \in Instruction
      BY <1>1, <1>2, InstructionsIn
    <3> QED BY <3>1 DEF Instruction
  <2>2. 1..(1 - 1) = {}
    OBVIOUS
  <2>3. w[1].read # "stale" /\ w[1].read # "wrong"
    BY <1>2, <1>3, <2>2 DEF WrongBehindSuspect
  <2> QED BY <2>1, <2>3 DEF Content
<1>5. Written(w[1]) = "right"
  BY <1>2, <1>4 DEF Written, Executed, Computed
<1>6. w[1].dst # NoReg => prf[w[1].dst] = "right"
  BY <1>2, <1>3, <1>5 DEF ContentsKnown
<1> QED BY <1>2, <1>4, <1>6

-----------------------------------------------------------------------------
(* The theorems *)

\* For every number of registers, slots, partitions and lanes, and every depth of the lanes, the
\* issue queue's pointers and counters stay in range, and the stage that runs has work to do.
THEOREM TypeCorrect == Spec => []TypeOK
<1>1. Scheduled => TypeOK
  BY DEF Scheduled
<1> QED BY <1>1, ScheduledInvariant, PTL

\* For an issue queue of every size the free list and the age list share out its slots, and the
\* age list stays in program order, whatever is issued and squashed.
THEOREM SlotsStayShared == Spec => []SlotsSharedOut
<1>1. Scheduled => SlotsSharedOut
  BY SlotsAreShared
<1> QED BY <1>1, ScheduledInvariant, PTL

\* In lanes of every number and depth no wakeup is lost: an instruction waits only for what an
\* older one in flight has still to produce.
THEOREM WaitsHaveProducers == Spec => []WaitsForAProducer
<1>1. Scheduled => WaitsForAProducer
  BY WaitsAreForProducers
<1> QED BY <1>1, ScheduledInvariant, PTL

\* In lanes of every number and depth no wakeup is early: no instruction reads a register before
\* its producer has written it, and no two are in one stage of a lane.
THEOREM ReadsAreFresh == Spec => []NoStaleRead
<1>1. Scheduled => NoStaleRead
  BY NothingStaleIsRead
<1> QED BY <1>1, ScheduledInvariant, PTL

\* Whatever values are predicted, and right or wrong, the oldest instruction has read and
\* written right values once it has completed.
THEOREM RightValuesRetire == Spec => []OnlyRightValuesRetire
<1>1. Scheduled => OnlyRightValuesRetire
  BY OldestIsRight
<1> QED BY <1>1, ScheduledInvariant, PTL
=============================================================================
