---------------------------- MODULE MCSerialize ----------------------------
(* Serialize for TLC. *)
EXTENDS Serialize
=============================================================================
