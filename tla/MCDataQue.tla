----------------------------- MODULE MCDataQue -----------------------------
(* DataQue for TLC: a ring that wraps within one group. *)
EXTENDS DataQue, TLC

DataSymmetry == Permutations(Data)
=============================================================================
