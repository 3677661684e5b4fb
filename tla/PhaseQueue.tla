----------------------------- MODULE PhaseQueue -----------------------------
(***************************************************************************)
(* The circular queue with phase bits that the simulator uses wherever a   *)
(* hardware structure is a FIFO: the value prediction queue, the free list,*)
(* the active list and the load and store queues.  A pointer is an index   *)
(* and a phase bit that flips on every wrap-around: equal indexes mean     *)
(* "empty" when the phases agree and "full" when they differ.              *)
(***************************************************************************)
EXTENDS Integers

\* The pointers of a queue of N entries.  The phase, a bool in the code, is 0 or 1.
Pointer(N) == [idx : 0..(N - 1), phase : {0, 1}]

\* Index 0 with the phase clear, where every queue starts.
Origin == [idx |-> 0, phase |-> 0]

\* Mutant of Advance: the wrap-around is tested one entry too late.
AdvanceWrapsLate(p, N) ==
  IF p.idx = N THEN [idx |-> 0, phase |-> 1 - p.phase]
               ELSE [idx |-> p.idx + 1, phase |-> p.phase]

\* The pointer one entry further on.
Advance(p, N) ==
  IF p.idx + 1 = N THEN [idx |-> 0, phase |-> 1 - p.phase]
                   ELSE [idx |-> p.idx + 1, phase |-> p.phase]

\* The pointer n entries further on.
AdvanceBy(p, n, N) ==
  LET after[k \in 0..n] == IF k = 0 THEN p ELSE Advance(after[k - 1], N) IN after[n]

IsEmpty(h, t) == h.idx = t.idx /\ h.phase = t.phase

\* Entries from h up to, and not including, t, in the code's two cases.
Distance(h, t, N) ==
  IF h.phase = t.phase THEN t.idx - h.idx ELSE N - h.idx + t.idx

Available(h, t, N) ==
  IF h.phase = t.phase THEN N - (t.idx - h.idx) ELSE h.idx - t.idx

\* The indexes a loop from h to t visits, again in the code's two cases.
Slots(h, t, N) ==
  IF h.phase = t.phase THEN h.idx..(t.idx - 1)
                       ELSE (h.idx..(N - 1)) \cup (0..(t.idx - 1))

\* t is at h or at most N entries ahead of it: the two cases are then sound.
Ordered(h, t) == IF h.phase = t.phase THEN h.idx <= t.idx ELSE t.idx <= h.idx
=============================================================================
