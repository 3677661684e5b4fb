-------------------------- MODULE MCLoadStoreUnit --------------------------
(***************************************************************************)
(* A small memory for LoadStoreUnit: two bytes, accessed one by one or as  *)
(* a half word.                                                            *)
(***************************************************************************)
EXTENDS LoadStoreUnit, TLC

MCAccesses == {<<0, 1>>, <<1, 1>>, <<0, 2>>}
MCFaults == {<<1, 1>>}

ValueSymmetry == Permutations(Value)
=============================================================================
