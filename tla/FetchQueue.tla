----------------------------- MODULE FetchQueue -----------------------------
(***************************************************************************)
(* What the fetch target queue promises: a sequence of predicted blocks.   *)
(* In a cycle the oldest may leave, the youngest may be taken back, and a  *)
(* new one may join at the end; nothing else changes.                      *)
(***************************************************************************)
EXTENDS Integers, Sequences

CONSTANTS Size, Positions

VARIABLE queue

Init == queue = << >>

Change(left, kept, joined) ==
  queue' = SubSeq(queue, left + 1, kept) \o joined

Next ==
  \E left \in 0 .. 1 : \E kept \in left .. Len(queue) :
    \E joined \in {<< >>} \union {<<p>> : p \in Positions} :
      /\ kept - left + Len(joined) <= Size
      /\ Change(left, kept, joined)

Spec == Init /\ [][Next]_queue
=============================================================================
