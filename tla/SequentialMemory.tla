-------------------------- MODULE SequentialMemory --------------------------
(***************************************************************************)
(* What loads and stores promise: they take effect one after the other, in *)
(* program order.  A program may be thrown away from any point on (a wrong *)
(* path, or a load to run again).                                          *)
(***************************************************************************)
EXTENDS Integers, Sequences

CONSTANTS Bytes, Insts, COMMIT_WIDTH, ROB_SIZE

VARIABLES
  mem,          \* the bytes of memory
  program,      \* instructions fetched and not executed, oldest first
  loaded        \* what the loads that the last step executed returned

\* memory after the stores of p
After(m, p) ==
  [b \in Bytes |->
     LET writers == {i \in DOMAIN p : p[i].op = "store" /\ b \in p[i].mask}
     IN IF writers = {} THEN m[b]
        ELSE p[CHOOSE i \in writers : \A j \in writers : j <= i].data]

\* what the i-th instruction of p returns
Returned(m, p, i) ==
  IF p[i].op = "load" THEN [b \in p[i].mask |-> After(m, SubSeq(p, 1, i - 1))[b]] ELSE << >>

Init == mem \in [Bytes -> {0}] /\ program = << >> /\ loaded = << >>

Advance ==
  \E n \in 0 .. COMMIT_WIDTH, k \in 0 .. ROB_SIZE :
    /\ n <= Len(program)
    /\ mem' = After(mem, SubSeq(program, 1, n))
    /\ loaded' = [i \in 1 .. n |-> Returned(mem, program, i)]
    /\ \E group \in [1 .. k -> Insts] :
         program' = SubSeq(program, n + 1, Len(program)) \o group

Discard == program' = << >> /\ loaded' = << >> /\ UNCHANGED mem

Next == Advance \/ Discard

Spec == Init /\ [][Next]_<<mem, program, loaded>>
=============================================================================
