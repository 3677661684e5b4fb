---------------------------- MODULE RenameBundle ----------------------------
(***************************************************************************)
(* How the rename stage gives a whole bundle its VPQ entries, under either *)
(* value of VPQ_full_policy: 0 stalls the bundle, 1 drops the eligible     *)
(* instructions that find the VPQ full.  RENAME2 has dispatch_width slots, *)
(* each a valid bit and an index into the payload buffer PAY; a bundle     *)
(* shorter than dispatch_width leaves the slots behind it invalid, with    *)
(* the index they had before.                                              *)
(*                                                                         *)
(* The predictor table, the values and the order of execution are left     *)
(* out: StrideVP.tla has them.                                             *)
(***************************************************************************)
EXTENDS PhaseQueue, Sequences, FiniteSets

CONSTANTS
  VPQsize, dispatch_width,
  VPQ_full_policy,
  ActiveListSize,          \* most instructions between rename2 and retirement
  PAYLOAD_BUFFER_SIZE      \* counted in instructions: PAY gives each one two entries

ASSUME RenameBundleAssumption ==
  /\ VPQsize \in Nat \ {0}
  /\ dispatch_width \in Nat \ {0}
  /\ VPQ_full_policy \in {0, 1}
  /\ ActiveListSize \in Nat \ {0}
  /\ PAYLOAD_BUFFER_SIZE \in Nat
  /\ PAYLOAD_BUFFER_SIZE >= ActiveListSize + dispatch_width

VARIABLES
  fetch,         \* the fetch unit: "active", or idle behind a serializing instruction
                 \* with ("stopping") or without ("drained") instructions left in the FQ
  nextIndex,     \* the PAY index of the next instruction rename1 pops from the FQ
  slotIndex,     \* RENAME2[i].index, of valid and invalid slots alike
  bundle,        \* what the instructions in the valid slots of RENAME2 are
  isVPEligible,  \* PAY.buf[index].isVPEligible
  vpQueue_Head, vpQueue_Tail,
  inflight       \* renamed, unretired instructions, oldest first

vars == <<fetch, nextIndex, slotIndex, bundle, isVPEligible, vpQueue_Head, vpQueue_Tail, inflight>>

PAYIndex == 0..(PAYLOAD_BUFFER_SIZE - 1)

\* "other" needs neither a VPQ entry nor a checkpoint.
Kind == {"other", "value", "branch"}

Payload == [index : PAYIndex, kind : Kind, VPQTail : Pointer(VPQsize), resolved : BOOLEAN]

TypeOK ==
  /\ fetch \in {"active", "stopping", "drained"}
  /\ nextIndex \in PAYIndex
  /\ slotIndex \in [1..dispatch_width -> PAYIndex]
  /\ bundle \in Seq(Kind) /\ Len(bundle) <= dispatch_width
  /\ isVPEligible \in [PAYIndex -> BOOLEAN]
  /\ vpQueue_Head \in Pointer(VPQsize)
  /\ vpQueue_Tail \in Pointer(VPQsize)
  /\ inflight \in Seq(Payload) /\ Len(inflight) <= ActiveListSize

\* RENAME2 and PAY are allocated without initial values: any index, any flag.
Init ==
  /\ fetch = "active"
  /\ nextIndex = 0
  /\ slotIndex \in [1..dispatch_width -> PAYIndex]
  /\ bundle = <<>>
  /\ isVPEligible \in {[p \in PAYIndex |-> b] : b \in BOOLEAN}
  /\ vpQueue_Head = Origin
  /\ vpQueue_Tail = Origin
  /\ inflight = <<>>

\* Mutant of AfterIndex: the payload index does not wrap around.
AfterIndexUnwrapped(p, n) == p + n

AfterIndex(p, n) == (p + n) % PAYLOAD_BUFFER_SIZE

-----------------------------------------------------------------------------
(* Fetch and rename1 *)

\* fetch2 meets an atomic, a system instruction or a fetch exception: nothing is fetched behind it.
FetchStops ==
  /\ fetch = "active"
  /\ fetch' = "stopping"
  /\ UNCHANGED <<nextIndex, slotIndex, bundle, isVPEligible, vpQueue_Head, vpQueue_Tail, inflight>>

\* rename1 waits for a full bundle unless the fetch unit is idle; a short bundle then empties
\* the FQ, and its last instruction is the serializing one.  A full one may empty it too.
Rename1(kinds) ==
  /\ bundle = <<>>
  /\ fetch # "drained"
  /\ \/ Len(kinds) = dispatch_width /\ UNCHANGED fetch
     \/ /\ fetch = "stopping"
        /\ kinds[Len(kinds)] = "other"
        /\ fetch' = "drained"
  /\ bundle' = kinds
  /\ slotIndex' = [i \in 1..dispatch_width |->
                     IF i <= Len(kinds) THEN AfterIndex(nextIndex, i - 1) ELSE slotIndex[i]]
  /\ nextIndex' = AfterIndex(nextIndex, Len(kinds))
  /\ UNCHANGED <<isVPEligible, vpQueue_Head, vpQueue_Tail, inflight>>

-----------------------------------------------------------------------------
(* Rename2 *)

\* The eligibility flags after the loop that counts what the bundle needs.
Counted ==
  [p \in PAYIndex |->
    IF \E i \in 1..Len(bundle) : slotIndex[i] = p
    THEN \E i \in 1..Len(bundle) : slotIndex[i] = p /\ bundle[i] = "value"
    ELSE isVPEligible[p]]

EligibleCount == Cardinality({i \in 1..Len(bundle) : bundle[i] = "value"})

\* Mutant of getAvailableEntriesInVPQ: one entry too many.
AvailablePlusOne == Available(vpQueue_Head, vpQueue_Tail, VPQsize) + 1

getAvailableEntriesInVPQ == Available(vpQueue_Head, vpQueue_Tail, VPQsize)

stall_value == VPQ_full_policy = 0 /\ getAvailableEntriesInVPQ < EligibleCount

\* The slots the dropping loop would give a VPQ entry: it looks at all the slots of RENAME2,
\* the invalid ones as well, and takes them in order until the VPQ's free entries are used up.
Granted(eligible, slots) ==
  {i \in slots : eligible[slotIndex[i]]
                   /\ Cardinality({j \in slots : j < i /\ eligible[slotIndex[j]]})
                        < getAvailableEntriesInVPQ}

\* The flags after the dropping loop: an eligible instruction some slot finds no entry for is
\* no longer eligible.
Dropped(eligible) ==
  IF VPQ_full_policy = 0 THEN eligible
  ELSE LET slots == 1..dispatch_width
       IN  [p \in PAYIndex |->
             eligible[p] /\ \A i \in slots \ Granted(eligible, slots) : slotIndex[i] # p]

\* rename2 renames the bundle: every eligible instruction pushes a VPQ entry, every branch
\* checkpoints the tail it finds.
Rename2 ==
  /\ bundle # <<>>
  /\ Len(inflight) + Len(bundle) <= ActiveListSize
  /\ ~stall_value
  /\ isVPEligible' = Dropped(Counted)
  /\ LET Pushed(n) == {j \in 1..n : isVPEligible'[slotIndex[j]]}
         TailAt(n) == AdvanceBy(vpQueue_Tail, Cardinality(Pushed(n)), VPQsize)
     IN  /\ vpQueue_Tail' = TailAt(Len(bundle))
         /\ inflight' = inflight \o
              [i \in 1..Len(bundle) |->
                [index |-> slotIndex[i], kind |-> bundle[i], resolved |-> FALSE,
                 VPQTail |-> IF bundle[i] = "branch" \/ isVPEligible'[slotIndex[i]]
                             THEN TailAt(i - 1) ELSE Origin]]
  /\ bundle' = <<>>
  /\ UNCHANGED <<fetch, nextIndex, slotIndex, vpQueue_Head>>

\* rename2 stalls, having counted what the bundle needs.
Rename2Stalls ==
  /\ bundle # <<>>
  /\ Len(inflight) + Len(bundle) > ActiveListSize \/ stall_value
  /\ isVPEligible' = Counted
  /\ UNCHANGED <<fetch, nextIndex, slotIndex, bundle, vpQueue_Head, vpQueue_Tail, inflight>>

-----------------------------------------------------------------------------
(* Branches and retirement *)

ResolveCorrect(i) ==
  /\ inflight[i].kind = "branch"
  /\ ~inflight[i].resolved
  /\ inflight' = [inflight EXCEPT ![i].resolved = TRUE]
  /\ UNCHANGED <<fetch, nextIndex, slotIndex, bundle, isVPEligible, vpQueue_Head, vpQueue_Tail>>

\* A mispredicted branch: RENAME2 is invalid but keeps its indexes, the VPQ and PAY roll back,
\* and the fetch unit is active again.
Mispredict(i) ==
  /\ inflight[i].kind = "branch"
  /\ ~inflight[i].resolved
  /\ inflight' = [SubSeq(inflight, 1, i) EXCEPT ![i].resolved = TRUE]
  /\ vpQueue_Tail' = inflight[i].VPQTail
  /\ nextIndex' = AfterIndex(inflight[i].index, 1)
  /\ bundle' = <<>>
  /\ fetch' = "active"
  /\ UNCHANGED <<slotIndex, isVPEligible, vpQueue_Head>>

\* The assertion of retire.cc:91: the instruction that trains owns the VPQ's oldest entry.
OwnsHead(w) == isVPEligible[w.index] => w.VPQTail.idx = vpQueue_Head.idx

\* The head commits, and pops the VPQ if it is eligible; where the assertion fails, the
\* program stops.  A serializing instruction is alone in the pipeline and restarts fetch.
Retire ==
  /\ inflight # <<>>
  /\ Head(inflight).kind = "branch" => Head(inflight).resolved
  /\ OwnsHead(Head(inflight))
  /\ vpQueue_Head' = IF isVPEligible[Head(inflight).index]
                     THEN Advance(vpQueue_Head, VPQsize) ELSE vpQueue_Head
  /\ inflight' = Tail(inflight)
  /\ fetch' = IF fetch = "drained" /\ bundle = <<>> /\ Len(inflight) = 1
              THEN "active" ELSE fetch
  /\ UNCHANGED <<nextIndex, slotIndex, bundle, isVPEligible, vpQueue_Tail>>

\* Everything is squashed and PAY starts again from index 0.
SquashAll ==
  /\ inflight' = <<>>
  /\ bundle' = <<>>
  /\ nextIndex' = 0
  /\ fetch' = "active"

\* The head's value was mispredicted: it commits, and everything after it is squashed.
RetireMispredicted ==
  /\ inflight # <<>>
  /\ isVPEligible[Head(inflight).index]
  /\ OwnsHead(Head(inflight))
  /\ vpQueue_Head' = Advance(vpQueue_Head, VPQsize)
  /\ vpQueue_Tail' = vpQueue_Head'
  /\ SquashAll
  /\ UNCHANGED <<slotIndex, isVPEligible>>

\* An exception or a load violation at the head.
SquashComplete ==
  /\ inflight # <<>>
  /\ vpQueue_Tail' = vpQueue_Head
  /\ SquashAll
  /\ UNCHANGED <<slotIndex, isVPEligible, vpQueue_Head>>

Bundles == UNION {[1..n -> Kind] : n \in 1..dispatch_width}

Next ==
  \/ FetchStops
  \/ \E kinds \in Bundles : Rename1(kinds)
  \/ Rename2
  \/ Rename2Stalls
  \/ \E i \in 1..Len(inflight) : ResolveCorrect(i)
  \/ \E i \in 1..Len(inflight) : Mispredict(i)
  \/ Retire
  \/ RetireMispredicted
  \/ SquashComplete

Spec == Init /\ [][Next]_vars

-----------------------------------------------------------------------------
(* Properties *)

\* The VPQ never overflows, whatever is dropped (the assertion of vpQueue.cc:52): each
\* in-flight instruction still flagged eligible has, for its value and its training, an
\* allocated VPQ entry that no other flagged instruction has.
EntryOfItsOwn ==
  LET owners == {i \in 1..Len(inflight) : isVPEligible[inflight[i].index]}
  IN  /\ Ordered(vpQueue_Head, vpQueue_Tail)
      /\ \A i \in owners :
           inflight[i].VPQTail.idx \in Slots(vpQueue_Head, vpQueue_Tail, VPQsize)
      /\ \A i, j \in owners :
           inflight[i].VPQTail.idx = inflight[j].VPQTail.idx => i = j

\* "the vpqtail that was checkpointed while creating vpq entry for this instruction does not
\* match with the vpq head" never happens to the instruction at the head (retire.cc:91).
RetiringOwnsHead == inflight # <<>> => OwnsHead(Head(inflight))
=============================================================================
