------------------------------ MODULE Dataflow ------------------------------
(***************************************************************************)
(* Out-of-order execution over renamed registers: Rename with the integer   *)
(* register file (regfile.sv), its ready bits, and functional units that    *)
(* execute a dispatched instruction at any time after its source is ready.  *)
(* It shows what renaming is for: seen through the architectural map, the   *)
(* register file goes through the states of the program executed in order.  *)
(*                                                                         *)
(* Issue queues, bypasses and functional unit pipelines are one action,     *)
(* Execute.  It may come in any order between two clock edges.              *)
(***************************************************************************)
EXTENDS Rename

CONSTANT NotReady          \* the value of a register whose rdy_bit is 0

ASSUME NotReadyAssumption == NotReady \notin {0, 1}

VARIABLES
  prf,                     \* regfile.sv: rdy_bit and buffer in one
  program                  \* history: the decoded instructions in flight

dfVars == <<vars, prf, program>>

Value(p) == IF p = Zero THEN 0 ELSE prf[p]

DataInit ==
  /\ Init
  /\ prf = [p \in PhysRegs |-> NotReady]
  /\ program = << >>

\* finished as far as the ROB knows; moves are marked so when they enter it
Finished(inst) == Allocates(inst) => Value(inst.prd) # NotReady

\* mutant: the last value of a reused register stays ready
MarkNotReady_Dropped == UNCHANGED prf

\* i_notready_mark: destinations of the group entering the ROB
MarkNotReady ==
  prf' = [p \in PhysRegs |->
            IF \E i \in DOMAIN renamed : Allocates(renamed[i]) /\ renamed[i].prd = p
            THEN NotReady ELSE prf[p]]

Retirable == {n \in Commits : \A i \in 1 .. n : Finished(rob[i])}

Accept(g, n) ==
  /\ RenameGroup(g, n)
  /\ MarkNotReady
  /\ program' = SubSeq(program, n + 1, Len(program)) \o g

Refuse(g, n) ==
  /\ RenameRefused(g, n)
  /\ MarkNotReady
  /\ program' = SubSeq(program, n + 1, Len(program))

Stall(n) ==
  /\ DispatchStall(n)
  /\ program' = SubSeq(program, n + 1, Len(program))
  /\ UNCHANGED prf

Flush ==
  /\ Squash
  /\ program' = << >>
  /\ UNCHANGED prf

\* An instruction with its source ready computes and writes its register.
Execute(i) ==
  /\ ~Finished(rob[i])
  /\ Value(rob[i].prs) # NotReady
  /\ prf' = [prf EXCEPT ![rob[i].prd] = 1 - Value(rob[i].prs)]
  /\ UNCHANGED <<vars, program>>

DataNext ==
  \/ \E n \in Retirable : \/ \E g \in Groups : Accept(g, n) \/ Refuse(g, n)
                          \/ Stall(n)
  \/ Flush
  \/ \E i \in DOMAIN rob : Execute(i)

DataSpec == DataInit /\ [][DataNext]_dfVars

-----------------------------------------------------------------------------
\* A register holds a value or is not ready (regfile.sv:42-72), and the program
\* kept for the abstract machine is as long as what is in flight.
DataTypeOK ==
  /\ TypeOK
  /\ prf \in [PhysRegs -> {0, 1, NotReady}]
  /\ Len(program) = Len(InFlight)

\* The oldest unfinished instruction always has its source: execution cannot
\* wait for a register that nobody is going to write.
OldestCanExecute ==
  /\ DataTypeOK
  /\ \A i \in DOMAIN rob :
       ~Finished(rob[i]) /\ (\A k \in 1 .. i - 1 : Finished(rob[k]))
         => Value(rob[i].prs) # NotReady

Seen == INSTANCE ProgramOrder
          WITH areg <- [l \in LRegs |-> Value(arch_mapping[l])]

\* Renaming, move elimination, out-of-order execution and squashes are
\* invisible: the registers that the architectural map shows are those of the
\* program executed in order, and every one of them holds its value.
ImplementsProgramOrder == Seen!Spec
=============================================================================
