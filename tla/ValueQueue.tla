----------------------------- MODULE ValueQueue -----------------------------
(***************************************************************************)
(* What the value prediction queue and the training of the predictor       *)
(* promise, with nothing of how: a first-in first-out queue of the         *)
(* instructions whose values are still to be learned, in program order,    *)
(* from which a squash removes a suffix.  An instruction's value is filled *)
(* in once, in any order, and the predictor learns from the oldest only,   *)
(* from its own value, when that is there.                                 *)
(*                                                                         *)
(* StrideVP.tla implements it with a circular buffer, recorded indexes and *)
(* checkpointed tails.                                                     *)
(***************************************************************************)
EXTENDS Naturals, Sequences

CONSTANTS
  Tag, Index,    \* what identifies an instruction to the predictor
  Value,
  Unknown,       \* stands for a value that is still to be computed
  Capacity,      \* most instructions in the queue
  Blank,         \* what the predictor starts with at every index
  Learn(_, _, _) \* what it knows at an index after learning a value under a tag

VARIABLES
  queue,     \* oldest first
  predictor  \* what is known at every index

Init ==
  /\ queue = <<>>
  /\ predictor = [index \in Index |-> Blank]

\* An instruction is renamed.
Push(tag, index) ==
  /\ Len(queue) < Capacity
  /\ queue' = Append(queue, [tag |-> tag, index |-> index, value |-> Unknown])
  /\ UNCHANGED predictor

\* The value of an instruction is computed.
Fill(k, value) ==
  /\ queue[k].value = Unknown
  /\ queue' = [queue EXCEPT ![k].value = value]
  /\ UNCHANGED predictor

\* The predictor learns the value of the oldest.
LearnHead ==
  /\ queue # <<>>
  /\ Head(queue).value # Unknown
  /\ predictor' = [predictor EXCEPT ![Head(queue).index] =
                     Learn(predictor[Head(queue).index], Head(queue).tag, Head(queue).value)]

\* The oldest retires.
Pop ==
  /\ LearnHead
  /\ queue' = Tail(queue)

\* The oldest retires and everything younger is squashed.
PopAll ==
  /\ LearnHead
  /\ queue' = <<>>

\* All but the oldest k are squashed, and nothing is learned.
Squash(k) ==
  /\ queue' = SubSeq(queue, 1, k)
  /\ UNCHANGED predictor

Next ==
  \/ \E tag \in Tag, index \in Index : Push(tag, index)
  \/ \E k \in 1..Len(queue), value \in Value : Fill(k, value)
  \/ Pop
  \/ PopAll
  \/ \E k \in 0..Len(queue) : Squash(k)

Spec == Init /\ [][Next]_<<queue, predictor>>
=============================================================================
