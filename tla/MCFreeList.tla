----------------------------- MODULE MCFreeList -----------------------------
(* FreeList for TLC: small rings, two ports on each side. *)
EXTENDS FreeList, TLC

\* the registers are interchangeable
RegSymmetry == Permutations(PhysRegs)
=============================================================================
