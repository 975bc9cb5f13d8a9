----------------------------- MODULE MCDataflow -----------------------------
(* Dataflow for TLC. *)
EXTENDS Dataflow, TLC

RegSymmetry == Permutations(PhysRegs)

\* computations and moves between the two registers
MCDecInsts ==
  {[rd |-> 1, ismv |-> FALSE, rs |-> 1], [rd |-> 2, ismv |-> FALSE, rs |-> 1],
   [rd |-> 2, ismv |-> TRUE, rs |-> 1], [rd |-> 1, ismv |-> TRUE, rs |-> 2]}
=============================================================================
