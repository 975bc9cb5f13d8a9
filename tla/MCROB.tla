------------------------------- MODULE MCROB -------------------------------
(* ROB for TLC: the kinds of instruction that each run mixes. *)
EXTENDS ROB, TLC

Reasons == {"plain", "branch", "illegal", "lfault", "eret"}
Memory == {"load", "store", "branch"}
=============================================================================
