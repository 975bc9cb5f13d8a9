------------------------------ MODULE MCRename ------------------------------
(* Rename for TLC. *)
EXTENDS Rename, TLC

\* the registers are interchangeable
RegSymmetry == Permutations(PhysRegs)

\* writers of each register, a move between them, a move to x0 and an
\* instruction without a destination
MCDecInsts ==
  [rd : LRegs \ {0}, ismv : {FALSE}, rs : {1}]
    \union {[rd |-> 2, ismv |-> TRUE, rs |-> 1],
            [rd |-> 0, ismv |-> TRUE, rs |-> 1], [rd |-> 0, ismv |-> FALSE, rs |-> 2]}
=============================================================================
