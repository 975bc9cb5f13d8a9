----------------------------- MODULE MCMemOrder -----------------------------
(* MemOrder for TLC: the accesses that each run mixes. *)
EXTENDS MemOrder, TLC

Load(mask) == [op |-> "load", mask |-> mask, data |-> 0]
Store(mask, data) == [op |-> "store", mask |-> mask, data |-> data]

OneByte == {0}
TwoBytes == {0, 1}

Partial == {Load({0, 1}), Load({1}), Store({0}, 1), Store({0, 1}, 2)}
Single == {Load({0}), Store({0}, 1)}
=============================================================================
