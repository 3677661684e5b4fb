--------------------------- MODULE LoadStoreUnit ---------------------------
(***************************************************************************)
(* The load/store unit: the load queue LQ and the store queue SQ, two      *)
(* circular buffers addressed by an index and a phase bit.  Loads execute  *)
(* out of order, ahead of older stores whose addresses are not known yet   *)
(* (speculative disambiguation); a store address that arrives late flags   *)
(* the younger load it should have fed.  Stores write memory when they     *)
(* commit.  A mispredicted branch restores the queue tails it recorded, a  *)
(* complete squash empties both queues.                                    *)
(*                                                                         *)
(* Addresses are chosen when an instruction executes, so a wrong path is   *)
(* as free as a right one.  The memory dependence predictor is free to     *)
(* stall a load or not.  Whether a line the data cache missed is still on  *)
(* its way is a choice.                                                    *)
(***************************************************************************)
EXTENDS PhaseQueue, Sequences, FiniteSets

CONSTANTS
  LQsize, SQsize,      \* entries of the two queues
  ActiveListSize,      \* most instructions in flight
  Accesses,            \* <<address, size>> pairs, aligned
  Faults,              \* the accesses whose address translation may raise an exception
  Value,               \* store values; also the bytes of memory
  SPEC_DISAMBIG,       \* loads may go ahead of unknown store addresses
  NoAccess, NoValue    \* an address, or a value, that is not available

BytesOf(a) == a[1]..(a[1] + a[2] - 1)

Byte == UNION {BytesOf(a) : a \in Accesses}

\* What a load of an access may return: a value for each of its bytes.
LoadedValue == UNION {[BytesOf(a) -> Value] : a \in Accesses}

ASSUME LoadStoreUnitAssumption ==
  /\ LQsize \in Nat \ {0}
  /\ SQsize \in Nat \ {0}
  /\ ActiveListSize \in Nat \ {0}
  /\ Accesses \subseteq Nat \X {1, 2, 4, 8}
  /\ \A a \in Accesses : a[1] % a[2] = 0
  /\ Faults \subseteq Accesses
  /\ SPEC_DISAMBIG \in BOOLEAN
  /\ NoAccess \notin Accesses
  /\ NoValue \notin Value \cup LoadedValue

VARIABLES
  LQ, lq_head, lq_tail, lq_length,
  SQ, sq_head, sq_tail, sq_length,
  memory,             \* the bytes committed stores have written
  inflight            \* dispatched, unretired loads, stores and branches, oldest first

lqVars == <<LQ, lq_head, lq_tail, lq_length>>
sqVars == <<SQ, sq_head, sq_tail, sq_length>>
vars == <<lqVars, sqVars, memory, inflight>>

-----------------------------------------------------------------------------

LoadEntry == [valid : BOOLEAN, access : Accesses \cup {NoAccess},
              value : LoadedValue \cup {NoValue},
              mdp_stall : BOOLEAN, sq : Pointer(SQsize)]

StoreEntry == [valid : BOOLEAN, access : Accesses \cup {NoAccess},
               value : Value \cup {NoValue}]

\* What the payload buffer and the active list keep of an instruction.  A branch records the
\* queue tails it must restore in the fields a load or store records its own entry in.
Payload == [kind : {"load", "store", "branch"}, lq : Pointer(LQsize), sq : Pointer(SQsize),
            resolved : BOOLEAN, exception : BOOLEAN, load_viol : BOOLEAN]

\* The contents of an invalid entry are never read.
NoLoad == [valid |-> FALSE, access |-> NoAccess, value |-> NoValue,
           mdp_stall |-> FALSE, sq |-> Origin]

NoStore == [valid |-> FALSE, access |-> NoAccess, value |-> NoValue]

TypeOK ==
  /\ LQ \in [0..(LQsize - 1) -> LoadEntry]
  /\ lq_head \in Pointer(LQsize) /\ lq_tail \in Pointer(LQsize)
  /\ lq_length \in 0..LQsize
  /\ SQ \in [0..(SQsize - 1) -> StoreEntry]
  /\ sq_head \in Pointer(SQsize) /\ sq_tail \in Pointer(SQsize)
  /\ sq_length \in 0..SQsize
  /\ memory \in [Byte -> Value]
  /\ inflight \in Seq(Payload)
  /\ Len(inflight) <= ActiveListSize

Init ==
  /\ LQ = [i \in 0..(LQsize - 1) |-> NoLoad]
  /\ lq_head = Origin /\ lq_tail = Origin /\ lq_length = 0
  /\ SQ = [i \in 0..(SQsize - 1) |-> NoStore]
  /\ sq_head = Origin /\ sq_tail = Origin /\ sq_length = 0
  /\ memory \in [Byte -> Value]
  /\ inflight = <<>>

-----------------------------------------------------------------------------
(* The two associative searches *)

\* Mutant of Conflict: addresses are compared without the mask of the larger size.
ConflictExact(a, b) == a[1] = b[1]

\* Two accesses fall into the same block of the larger one's size.
Conflict(a, b) ==
  LET max_size == IF a[2] >= b[2] THEN a[2] ELSE b[2]
  IN  a[1] \div max_size = b[1] \div max_size

\* How far an SQ slot is from the head.
StoreAge(s) == (s + SQsize - sq_head.idx) % SQsize

Youngest(S) == CHOOSE s \in S : \A t \in S : StoreAge(t) <= StoreAge(s)

\* The older stores a load of an access stops at, walking from the SQ tail it recorded back
\* to the head: those in conflict with it and, if the predictor says so, those unknown.
Deciding(load) ==
  {s \in Slots(sq_head, load.sq, SQsize) :
     IF SQ[s].access = NoAccess THEN load.mdp_stall ELSE Conflict(SQ[s].access, load.access)}

\* disambiguate(): a load reads memory if no older store stops it, takes the value of the
\* first one that does if the sizes match and the value is there, and stalls otherwise.
Outcome(load) ==
  IF Deciding(load) = {} THEN "memory"
  ELSE LET s == SQ[Youngest(Deciding(load))]
       IN  IF s.access = NoAccess \/ s.value = NoValue THEN "stall"
           ELSE IF s.access[2] # load.access[2] THEN "stall" ELSE "forward"

\* ld_violation(): the first load, from the LQ tail a store recorded to the LQ's tail, that
\* conflicts with the store's address and already has a value.
LoadAge(from, l) == (l + LQsize - from.idx) % LQsize

Violated(from, access) ==
  LET hits == {l \in Slots(from, lq_tail, LQsize) :
                 LQ[l].access # NoAccess /\ LQ[l].value # NoValue
                 /\ Conflict(access, LQ[l].access)}
  IN  {l \in hits : \A m \in hits : LoadAge(from, l) <= LoadAge(from, m)}

-----------------------------------------------------------------------------
(* Dispatch *)

Dispatched(kind) ==
  Append(inflight, [kind |-> kind, lq |-> lq_tail, sq |-> sq_tail, resolved |-> FALSE,
                    exception |-> FALSE, load_viol |-> FALSE])

\* Mutant of stall: a full queue takes one more.
stallLate(bundle_load, bundle_store) ==
  lq_length + bundle_load > LQsize + 1 \/ sq_length + bundle_store > SQsize + 1

\* The dispatch stage asks for the loads and stores of a bundle; here bundles are of one.
stall(bundle_load, bundle_store) ==
  lq_length + bundle_load > LQsize \/ sq_length + bundle_store > SQsize

\* One call of dispatch() for a load.  mdp_stall is the memory dependence predictor's answer.
DispatchLoad(mdp_stall) ==
  /\ Len(inflight) < ActiveListSize
  /\ ~stall(1, 0)
  /\ LQ' = [LQ EXCEPT ![lq_tail.idx] =
              [valid |-> TRUE, access |-> NoAccess, value |-> NoValue,
               mdp_stall |-> ~SPEC_DISAMBIG \/ mdp_stall, sq |-> sq_tail]]
  /\ lq_tail' = Advance(lq_tail, LQsize)
  /\ lq_length' = lq_length + 1
  /\ inflight' = Dispatched("load")
  /\ UNCHANGED <<lq_head, sqVars, memory>>

DispatchStore ==
  /\ Len(inflight) < ActiveListSize
  /\ ~stall(0, 1)
  /\ SQ' = [SQ EXCEPT ![sq_tail.idx] =
              [valid |-> TRUE, access |-> NoAccess, value |-> NoValue]]
  /\ sq_tail' = Advance(sq_tail, SQsize)
  /\ sq_length' = sq_length + 1
  /\ inflight' = Dispatched("store")
  /\ UNCHANGED <<sq_head, lqVars, memory>>

\* A branch with a checkpoint records the tails of both queues.
DispatchBranch ==
  /\ Len(inflight) < ActiveListSize
  /\ inflight' = Dispatched("branch")
  /\ UNCHANGED <<lqVars, sqVars, memory>>

-----------------------------------------------------------------------------
(* Execution *)

\* The upper half of a store: its address, known once, and unless the translation fails the
\* violation it reveals.
StoreAddr(i, access, fault) ==
  /\ inflight[i].kind = "store"
  /\ LET s    == inflight[i].sq.idx
         viol == IF SPEC_DISAMBIG THEN Violated(inflight[i].lq, access) ELSE {}
     IN  /\ SQ[s].access = NoAccess
         /\ fault => access \in Faults
         /\ SQ' = [SQ EXCEPT ![s].access = access]
         /\ inflight' =
              IF fault
              THEN [inflight EXCEPT ![i].exception = TRUE]
              ELSE [j \in 1..Len(inflight) |->
                      IF inflight[j].kind = "load" /\ inflight[j].lq.idx \in viol
                      THEN [inflight[j] EXCEPT !.load_viol = TRUE] ELSE inflight[j]]
  /\ UNCHANGED <<lqVars, sq_head, sq_tail, sq_length, memory>>

\* The lower half of a store: its value.
StoreValue(i, value) ==
  /\ inflight[i].kind = "store"
  /\ LET s == inflight[i].sq.idx
     IN  /\ SQ[s].value = NoValue
         /\ SQ' = [SQ EXCEPT ![s].value = value]
  /\ UNCHANGED <<lqVars, sq_head, sq_tail, sq_length, memory, inflight>>

\* What execute_load() makes of a load that does not stall: the forwarded value, or memory's.
\* The predictor's answer is not read again once the value has come.
WithValue(load) ==
  [load EXCEPT !.mdp_stall = FALSE,
     !.value = [b \in BytesOf(load.access) |->
                  IF Outcome(load) = "forward" THEN SQ[Youngest(Deciding(load))].value ELSE memory[b]]]

\* Reading memory, and not forwarding, is what translates a load's address.
MayFault(load) == Outcome(load) = "memory" /\ load.access \in Faults

\* A load's address is known: it executes at once, or stalls in the LQ until load_unstall.
\* loading: its line is still on its way.
LoadAddr(i, access, loading, fault) ==
  LET l    == inflight[i].lq.idx
      load == [LQ[l] EXCEPT !.access = access]
      runs == Outcome(load) = "forward" \/ (Outcome(load) = "memory" /\ ~loading)
  IN  /\ inflight[i].kind = "load"
      /\ LQ[l].access = NoAccess
      /\ fault => runs /\ MayFault(load)
      /\ LQ' = [LQ EXCEPT ![l] = IF runs THEN WithValue(load) ELSE load]
      /\ inflight' = [inflight EXCEPT ![i].exception = fault]
      /\ UNCHANGED <<lq_head, lq_tail, lq_length, sqVars, memory>>

\* Loads with an address and no value yet.
Waiting == {i \in 1..Len(inflight) : /\ inflight[i].kind = "load"
                                     /\ LQ[inflight[i].lq.idx].access # NoAccess
                                     /\ LQ[inflight[i].lq.idx].value = NoValue}

\* Once a cycle the waiting loads run again, oldest first, until one gets its value: the ones
\* before it stall still, or wait for their lines.
LoadUnstall(i, fault) ==
  LET l == inflight[i].lq.idx
  IN  /\ i \in Waiting
      /\ Outcome(LQ[l]) # "stall"
      /\ \A j \in Waiting : j < i => Outcome(LQ[inflight[j].lq.idx]) # "forward"
      /\ fault => MayFault(LQ[l])
      /\ LQ' = [LQ EXCEPT ![l] = WithValue(@)]
      /\ inflight' = [inflight EXCEPT ![i].exception = fault]
      /\ UNCHANGED <<lq_head, lq_tail, lq_length, sqVars, memory>>

ResolveCorrect(i) ==
  /\ inflight[i].kind = "branch"
  /\ ~inflight[i].resolved
  /\ inflight' = [inflight EXCEPT ![i].resolved = TRUE]
  /\ UNCHANGED <<lqVars, sqVars, memory>>

\* Mutant of Length: a full queue is taken for an empty one.
LengthIgnoresPhase(h, t, N) == (N + t.idx - h.idx) % N

\* The length restore() recomputes from the pointers.
Length(h, t, N) ==
  IF (N + t.idx - h.idx) % N = 0 /\ t.phase # h.phase THEN N ELSE (N + t.idx - h.idx) % N

\* The slots restore() marks valid: the recomputed length of them, from the head on.
Survivors(h, t, N) == {(h.idx + k) % N : k \in 0..(Length(h, t, N) - 1)}

\* A mispredicted branch restores the tails it recorded, and with them lengths and valid bits.
Restore(i) ==
  LET b == inflight[i]
  IN  /\ b.kind = "branch"
      /\ ~b.resolved
      /\ lq_tail' = b.lq
      /\ lq_length' = Length(lq_head, b.lq, LQsize)
      /\ LQ' = [l \in DOMAIN LQ |-> IF l \in Survivors(lq_head, b.lq, LQsize) THEN LQ[l] ELSE NoLoad]
      /\ sq_tail' = b.sq
      /\ sq_length' = Length(sq_head, b.sq, SQsize)
      /\ SQ' = [s \in DOMAIN SQ |-> IF s \in Survivors(sq_head, b.sq, SQsize) THEN SQ[s] ELSE NoStore]
      /\ inflight' = [SubSeq(inflight, 1, i) EXCEPT ![i].resolved = TRUE]
      /\ UNCHANGED <<lq_head, sq_head, memory>>

-----------------------------------------------------------------------------
(* Retirement *)

\* The oldest instruction may retire: it is complete, and neither flagged nor excepting.
Retires(kind) ==
  /\ inflight # <<>>
  /\ Head(inflight).kind = kind
  /\ ~Head(inflight).exception
  /\ ~Head(inflight).load_viol

CommitLoad ==
  /\ Retires("load")
  /\ LQ[inflight[1].lq.idx].value # NoValue
  /\ LQ' = [LQ EXCEPT ![lq_head.idx] = NoLoad]
  /\ lq_head' = Advance(lq_head, LQsize)
  /\ lq_length' = lq_length - 1
  /\ inflight' = Tail(inflight)
  /\ UNCHANGED <<lq_tail, sqVars, memory>>

\* A store writes memory.
CommitStore ==
  LET store == SQ[sq_head.idx]
  IN  /\ Retires("store")
      /\ SQ[inflight[1].sq.idx].access # NoAccess
      /\ SQ[inflight[1].sq.idx].value # NoValue
      /\ memory' = [b \in Byte |-> IF b \in BytesOf(store.access) THEN store.value ELSE memory[b]]
      /\ SQ' = [SQ EXCEPT ![sq_head.idx] = NoStore]
      /\ sq_head' = Advance(sq_head, SQsize)
      /\ sq_length' = sq_length - 1
      /\ inflight' = Tail(inflight)
      /\ UNCHANGED <<sq_tail, lqVars>>

RetireBranch ==
  /\ Retires("branch")
  /\ Head(inflight).resolved
  /\ inflight' = Tail(inflight)
  /\ UNCHANGED <<lqVars, sqVars, memory>>

EmptyQueues ==
  /\ LQ' = [l \in DOMAIN LQ |-> NoLoad]
  /\ lq_head' = Origin /\ lq_tail' = Origin /\ lq_length' = 0
  /\ SQ' = [s \in DOMAIN SQ |-> NoStore]
  /\ sq_head' = Origin /\ sq_tail' = Origin /\ sq_length' = 0
  /\ inflight' = <<>>

\* A complete squash empties the queues: the oldest instruction is a flagged load or raised an
\* exception, or an older one that has no entry here was mispredicted in value, which can be
\* at any time.
SquashComplete ==
  /\ inflight # <<>>
  /\ EmptyQueues
  /\ UNCHANGED memory

-----------------------------------------------------------------------------

Next ==
  \/ \E mdp_stall \in BOOLEAN : DispatchLoad(mdp_stall)
  \/ DispatchStore
  \/ DispatchBranch
  \/ \E i \in 1..Len(inflight), access \in Accesses, fault \in BOOLEAN : StoreAddr(i, access, fault)
  \/ \E i \in 1..Len(inflight), value \in Value : StoreValue(i, value)
  \/ \E i \in 1..Len(inflight), access \in Accesses, loading, fault \in BOOLEAN :
       LoadAddr(i, access, loading, fault)
  \/ \E i \in Waiting, fault \in BOOLEAN : LoadUnstall(i, fault)
  \/ \E i \in 1..Len(inflight) : ResolveCorrect(i)
  \/ \E i \in 1..Len(inflight) : Restore(i)
  \/ CommitLoad
  \/ CommitStore
  \/ RetireBranch
  \/ SquashComplete

Spec == Init /\ [][Next]_vars

-----------------------------------------------------------------------------
(* Properties *)

Loads  == {i \in 1..Len(inflight) : inflight[i].kind = "load"}
Stores == {i \in 1..Len(inflight) : inflight[i].kind = "store"}

OlderOf(S, i) == {j \in S : j < i}

\* The LQ and the SQ hold exactly the loads and the stores in flight, in program order,
\* whatever was restored or squashed in between: the pointer an instruction recorded at
\* dispatch is the head plus the number of older entries, for a branch the place where its
\* successors begin; the lengths restore() recomputes and the valid bits agree with the
\* pointers; and the pointer to the SQ a load carries still separates its older stores.
QueuesHoldSurvivors ==
  /\ lq_length = Cardinality(Loads) /\ sq_length = Cardinality(Stores)
  /\ lq_tail = AdvanceBy(lq_head, lq_length, LQsize)
  /\ sq_tail = AdvanceBy(sq_head, sq_length, SQsize)
  /\ \A i \in 1..Len(inflight) :
       /\ inflight[i].lq = AdvanceBy(lq_head, Cardinality(OlderOf(Loads, i)), LQsize)
       /\ inflight[i].sq = AdvanceBy(sq_head, Cardinality(OlderOf(Stores, i)), SQsize)
  /\ {l \in DOMAIN LQ : LQ[l].valid} = {inflight[i].lq.idx : i \in Loads}
  /\ {s \in DOMAIN SQ : SQ[s].valid} = {inflight[i].sq.idx : i \in Stores}
  /\ \A i \in Loads : LQ[inflight[i].lq.idx].sq = inflight[i].sq

\* The older stores of a load that write one of its bytes, when all their addresses are known.
Writers(i) ==
  {j \in OlderOf(Stores, i) :
     Conflict(SQ[inflight[j].sq.idx].access, LQ[inflight[i].lq.idx].access)}

\* A load that has a value it will be allowed to commit has the right one.  Once the addresses
\* of all older stores are known, and neither it nor anything older is flagged or excepting
\* (a store address flags only the first of the loads it violates), its value is that of the
\* youngest older store it overlaps, which has the same size and its value, or memory's if
\* there is none.  So what retires unflagged read what the checker computes in order.
UnflaggedLoadsAreRight ==
  \A i \in Loads :
    LET load == LQ[inflight[i].lq.idx]
    IN  /\ load.value # NoValue
        /\ \A j \in 1..i : ~inflight[j].load_viol /\ ~inflight[j].exception
        /\ \A j \in OlderOf(Stores, i) : SQ[inflight[j].sq.idx].access # NoAccess
        => IF Writers(i) = {}
           THEN \A b \in BytesOf(load.access) : load.value[b] = memory[b]
           ELSE LET store == SQ[inflight[CHOOSE j \in Writers(i) :
                                           \A k \in Writers(i) : k <= j].sq.idx]
                IN  /\ store.access = load.access
                    /\ \A b \in BytesOf(load.access) : load.value[b] = store.value
=============================================================================
