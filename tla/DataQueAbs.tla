----------------------------- MODULE DataQueAbs -----------------------------
(***************************************************************************)
(* A queue of entries that finish in any order and leave in order.         *)
(***************************************************************************)
EXTENDS Integers, Sequences

CONSTANTS DEPTH, INPORT_NUM, COMMIT_WID, Data

VARIABLE queue

Entry == [data : Data, done : BOOLEAN]

Init == queue = << >>

\* n finished entries leave, as many as may; some of the others are marked;
\* then a group arrives
Advance ==
  \E n \in 0 .. COMMIT_WID, k \in 0 .. INPORT_NUM :
    /\ n <= Len(queue)
    /\ \A i \in 1 .. n : queue[i].done
    /\ Len(queue) + k <= DEPTH
    /\ \E group \in [1 .. k -> Entry] :
       \E left \in [1 .. Len(queue) - n -> BOOLEAN] :
         /\ \A i \in DOMAIN left : queue[i + n].done => left[i]
         /\ queue' = [i \in DOMAIN left |-> [queue[i + n] EXCEPT !.done = left[i]]] \o group

Discard == queue' = << >>

Next == Advance \/ Discard

Spec == Init /\ [][Next]_queue
=============================================================================
