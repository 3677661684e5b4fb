---------------------------- MODULE MCScheduler ----------------------------
(***************************************************************************)
(* Two lanes for Scheduler: a single-cycle one and one of two stages.      *)
(***************************************************************************)
EXTENDS Scheduler

MCDepth == <<1, 2>>

\* Simple operations are steered to either lane.
MCFULanes == [alu |-> {{1}, {2}}, load |-> {{2}}, branch |-> {{1}}]
=============================================================================
