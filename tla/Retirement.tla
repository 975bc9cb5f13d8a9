----------------------------- MODULE Retirement -----------------------------
(***************************************************************************)
(* What a reorder buffer shows of a program: the instructions that retire  *)
(* in a step, in program order.  A branch that was mispredicted and a      *)
(* return from a trap retire and take everything behind them away; a       *)
(* fault takes itself away too.  A load may be made to run again.          *)
(***************************************************************************)
EXTENDS Integers, Sequences

CONSTANTS ROB_SIZE, RENAME_WIDTH, COMMIT_WIDTH, Kinds, Redirecting, Faulting

VARIABLES
  queue,        \* instructions in flight, oldest first
  retired       \* those that the last step retired

Init == queue = << >> /\ retired = << >>

\* n of the instructions of p retire
MayRetire(p, n) ==
  /\ \A i \in 1 .. n : p[i] \notin Faulting
  /\ \A i \in 1 .. n - 1 : p[i] \notin Redirecting

Redirects(p, n) == n > 0 /\ p[n] \in Redirecting

\* the instruction behind the n that retire faults, or is a load to run again
Restarts(p, n) == n < Len(p) /\ p[n + 1] \in Faulting \union {"load"}

Next ==
  \E k \in 0 .. RENAME_WIDTH, n \in 0 .. COMMIT_WIDTH :
    \E group \in [1 .. k -> Kinds] :
      LET p == queue \o group
      IN /\ Len(p) <= ROB_SIZE + COMMIT_WIDTH
         /\ n <= Len(p) /\ MayRetire(p, n)
         /\ retired' = SubSeq(p, 1, n)
         /\ \/ ~Redirects(p, n) /\ queue' = SubSeq(p, n + 1, Len(p))
            \/ (Redirects(p, n) \/ Restarts(p, n)) /\ queue' = << >>

Spec == Init /\ [][Next]_<<queue, retired>>
=============================================================================
