----------------------------- MODULE MCRenamer -----------------------------
(* Instances of Renamer for TLC: the instructions of a small program. *)
EXTENDS Renamer

\* Two instructions that read each other's result, a branch and a call.
MixedProgram ==
  {[src |-> 0, dest |-> 1, checkpoint |-> FALSE],
   [src |-> 1, dest |-> 0, checkpoint |-> FALSE],
   [src |-> 0, dest |-> NoReg, checkpoint |-> TRUE],
   [src |-> 0, dest |-> 1, checkpoint |-> TRUE]}

\* Branches and instructions without registers to rename.
BranchyProgram ==
  {[src |-> 0, dest |-> NoReg, checkpoint |-> FALSE],
   [src |-> 0, dest |-> NoReg, checkpoint |-> TRUE]}
=============================================================================
