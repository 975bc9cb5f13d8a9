----------------------------- MODULE FreeListAbs -----------------------------
(***************************************************************************)
(* What the renaming stage is promised of its free list: a queue of free   *)
(* registers and the queue of those handed out and not yet committed.  A   *)
(* register is taken from the front of the first, leaves the second when   *)
(* its instruction commits, and a squash undoes every hand-out that has    *)
(* not committed.                                                          *)
(***************************************************************************)
EXTENDS Integers, Sequences

CONSTANTS PhysRegs, RENAME_WIDTH, COMMIT_WIDTH

VARIABLES free, taken

absVars == <<free, taken>>

SeqRange(s) == {s[i] : i \in DOMAIN s}

Init ==
  /\ free \in Seq(PhysRegs)
  /\ SeqRange(free) = PhysRegs
  /\ \A i, j \in DOMAIN free : free[i] = free[j] => i = j
  /\ taken = << >>

\* registers neither free nor taken
Held == PhysRegs \ (SeqRange(free) \union SeqRange(taken))

Returned ==
  {f \in UNION {[1 .. n -> Held] : n \in 0 .. COMMIT_WIDTH} :
     \A i, j \in DOMAIN f : f[i] = f[j] => i = j}

\* n registers go out, the oldest k of those out are committed, some come back
Advance ==
  \E n \in 0 .. RENAME_WIDTH, k \in 0 .. COMMIT_WIDTH, back \in Returned :
    /\ n <= Len(free)
    /\ k <= Len(taken)
    /\ free' = SubSeq(free, n + 1, Len(free)) \o back
    /\ taken' = SubSeq(taken, k + 1, Len(taken)) \o SubSeq(free, 1, n)

RollBack ==
  \E back \in Returned :
    /\ free' = taken \o free \o back
    /\ taken' = << >>

Next == Advance \/ RollBack

Spec == Init /\ [][Next]_absVars
=============================================================================
