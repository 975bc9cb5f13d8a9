---------------------------- MODULE ProgramOrder ----------------------------
(***************************************************************************)
(* The machine the programmer sees: logical registers and the instructions *)
(* fetched but not executed yet.  Instructions execute one after the other *)
(* in program order; those not executed may be thrown away (the fetch was  *)
(* on a wrong path).  Values are bits: an instruction that computes takes   *)
(* its source to the complement, a move copies.                            *)
(***************************************************************************)
EXTENDS Integers, Sequences

CONSTANTS LREG_NUM, RENAME_WIDTH, COMMIT_WIDTH, DecInsts

VARIABLES areg, program

progVars == <<areg, program>>

LRegs == 0 .. LREG_NUM - 1

Init == areg = [l \in LRegs |-> 0] /\ program = << >>

\* one instruction; one whose rd is 0 writes no register
Step(regs, inst) ==
  [regs EXCEPT ![inst.rd] = IF inst.rd = 0 THEN 0
                            ELSE IF inst.ismv THEN regs[inst.rs]
                            ELSE 1 - regs[inst.rs]]

\* the first n instructions of p
Execute(regs, p, n) ==
  LET after[k \in 0 .. n] == IF k = 0 THEN regs ELSE Step(after[k - 1], p[k])
  IN after[n]

Advance ==
  \E n \in 0 .. COMMIT_WIDTH, k \in 0 .. RENAME_WIDTH :
    /\ n <= Len(program)
    /\ areg' = Execute(areg, program, n)
    /\ \E g \in [1 .. k -> DecInsts] :
         program' = SubSeq(program, n + 1, Len(program)) \o g

Discard == program' = << >> /\ UNCHANGED areg

Next == Advance \/ Discard

Spec == Init /\ [][Next]_progVars
=============================================================================
