----------------------------- MODULE Serialize -----------------------------
(***************************************************************************)
(* Serialised instructions: the dispatch state machine that lets a system  *)
(* instruction execute alone (dispatch.sv), the choice of issue queues     *)
(* (intBlock.sv), the system unit (alu_scu.sv), the part of the ROB that   *)
(* takes its reports (ROB.sv), the privileged registers (priv_ctrl.sv) and *)
(* their copy in the simulator that is compared at commit.                 *)
(*                                                                         *)
(* One action is a clock cycle: the rising edge, and the falling edge      *)
(* after it.  The order in which other instructions finish is free, and so *)
(* are mispredictions and faults.                                          *)
(***************************************************************************)
EXTENDS Integers, Sequences, FiniteSetsExt

CONSTANTS
  ROB_SIZE, RENAME_WIDTH, COMMIT_WIDTH,
  INTDQ_DISP_WID,          \* ports of the integer dispatch queue
  IQ_SIZE,                 \* entries of each of the two issue queues
  IQ_INOUT                 \* entries an issue queue must have free (2)

ASSUME WidthAssumption == {ROB_SIZE, RENAME_WIDTH, COMMIT_WIDTH} \subseteq Nat
ASSUME QueueAssumption ==
  INTDQ_DISP_WID \in Nat \ {0} /\ IQ_SIZE \in Nat /\ IQ_INOUT \in 0 .. IQ_SIZE

System == {"csrrs", "csrrw", "ecall", "mret"}
Kinds == {"alu", "bru", "mem"} \union System

\* Kinds fetched in a mode.  An mret in user mode is left out: see README.
Fetched(mode) == IF mode = "M" THEN Kinds ELSE Kinds \ {"mret"}

VARIABLES
  rob,        \* [kind, at]: at is "dq", "iq0", "iq1", "scu", "mem" or "fin"
  status,     \* dispatch.sv: 0 to 3
  scu,        \* alu_scu.sv: stage "idle", "saved" or "regs"
  shr,        \* ROB.sv: squash reason and its place in rob
  squash_vld,
  do_except,  \* also commit_stall and status = trapProcess
  priv,       \* priv_ctrl.sv: cur_mode, the fields of mstatus, mcause
  csr_sync,
  cpu_csrs,   \* difftest.cpp
  ref         \* external: the registers of the reference

vars == <<rob, status, scu, shr, squash_vld, do_except, priv, csr_sync, cpu_csrs, ref>>

NoReason == [type |-> "none", idx |-> 0, cause |-> "none"]
Idle == [stage |-> "idle"]
Reset == [mode |-> "M", mie |-> 0, mpie |-> 0, mpp |-> "U", cause |-> "none"]

\* what arch_sync_csrs passes on
Shown(p) == [mie |-> p.mie, mpie |-> p.mpie, mpp |-> p.mpp, cause |-> p.cause]

Init ==
  /\ rob = << >> /\ status = 0 /\ scu = Idle
  /\ shr = NoReason /\ squash_vld = FALSE /\ do_except = FALSE
  /\ priv = Reset /\ csr_sync = TRUE /\ cpu_csrs = Shown(Reset)
  /\ ref = Reset

-----------------------------------------------------------------------------
(* Dispatch.                                                               *)

\* what waits in the dispatch queue, and what it shows at its ports: places in rob
Waiting == {i \in DOMAIN rob : rob[i].at = "dq"}
Window == {i \in Waiting : Cardinality({j \in Waiting : j < i}) < INTDQ_DISP_WID}

First(i) == i \in Window /\ \A j \in Window : i <= j

IsSystem(i) == rob[i].kind \in System

NeedSerialize == \E i \in Window : IsSystem(i)

\* int_req
Requested ==
  {i \in Window : \/ status = 0 /\ \A j \in Window : j <= i => ~IsSystem(j)
                  \/ status = 2 /\ First(i)}

Ready(q) == Cardinality({i \in DOMAIN rob : rob[i].at = q}) + IQ_INOUT <= IQ_SIZE

\* The queue that takes i after those before it, "no" from the first one refused
\* on: system instructions and ALU operations prefer IQ0, branches need IQ1.
Choice(taken, i) ==
  LET before == {j \in Window : j < i}
      room(q) == Ready(q) /\ Cardinality({j \in before : taken[j] = q}) < 2
      branch == rob[i].kind = "bru"
  IN IF i \notin Requested \/ (\E j \in before : taken[j] = "no") THEN "no"
     ELSE IF ~branch /\ room("iq0") THEN "iq0"
     ELSE IF room("iq1") THEN "iq1" ELSE "no"

Taken[i \in DOMAIN rob] == Choice(Taken, i)

Dispatched(i) == IF i \in Window /\ Taken[i] # "no" THEN Taken[i] ELSE rob[i].at

-----------------------------------------------------------------------------
(* Commit.                                                                 *)

Finished(i) == i \in DOMAIN rob /\ \A j \in 1 .. i : rob[j].at = "fin"

\* instructions that leave in this cycle
NumCommit ==
  LET goes(i) ==
        /\ Finished(i)
        /\ ~(shr.type = "except" /\ shr.idx <= i)
        /\ ~(shr.type = "mispred" /\ shr.idx < i)
      S == {i \in 1 .. COMMIT_WIDTH : goes(i)}
  IN IF squash_vld \/ do_except THEN 0 ELSE IF S = {} THEN 0 ELSE Max(S)

\* the reason is acted on: its instruction is in the committable prefix
Acts == shr.type # "none" /\ shr.idx <= COMMIT_WIDTH /\ Finished(shr.idx)
HasExcept == Acts /\ shr.type = "except"
HasMispred == Acts /\ shr.type = "mispred"

\* mutant: any serialised instruction in the ROB will do
CanDispatchSerialize_Any == NumCommit = 0 /\ (\E i \in DOMAIN rob : IsSystem(i))

\* mutant: it waits until nothing else is in the ROB
CanDispatchSerialize_Alone == NumCommit = 0 /\ Len(rob) = 1 /\ IsSystem(1)

\* top inst is serialized and not commit
CanDispatchSerialize == NumCommit = 0 /\ rob # << >> /\ IsSystem(1)

\* top inst is serialized and commit
CommitSerialize == NumCommit > 0 /\ IsSystem(1)

\* mutant: nobody waits for the serialised instruction to commit
NextStatus_NoWait ==
  CASE status = 0 /\ NeedSerialize -> 1
    [] status = 1 /\ CanDispatchSerialize -> 2
    [] status = 2 -> 0
    [] OTHER -> status

NextStatus ==
  CASE status = 0 /\ NeedSerialize -> 1
    [] status = 1 /\ CanDispatchSerialize -> 2
    [] status = 2 -> 3
    [] status = 3 /\ CommitSerialize -> 0
    [] OTHER -> status

-----------------------------------------------------------------------------
(* The system unit and the privileged registers.                           *)

IsCsr(kind) == kind \in {"csrrs", "csrrw"}

\* latched at issue: the register is read, and the access checked, then
Issue(kind) ==
  [stage |-> "saved", kind |-> kind, val |-> Shown(priv),
   illegal |-> IsCsr(kind) /\ priv.mode # "M"]

\* csrrs sets mie, csrrw writes zero
NewCsr(s) ==
  CASE s.kind = "csrrs" -> [s.val EXCEPT !.mie = 1]
    [] s.kind = "csrrw" -> [s.val EXCEPT !.mie = 0, !.mpie = 0, !.mpp = "U"]
    [] OTHER -> s.val

\* second register: result, exception, write and return
Computed(s) ==
  [stage |-> "regs", kind |-> s.kind, val |-> NewCsr(s), mret |-> s.kind = "mret",
   write |-> IsCsr(s.kind) /\ ~s.illegal,
   cause |-> IF s.illegal THEN "illegal" ELSE IF s.kind = "ecall" THEN priv.mode ELSE "none"]

Writes == scu.stage = "regs" /\ scu.write
Returns == scu.stage = "regs" /\ scu.mret
Raises == scu.stage = "regs" /\ scu.cause # "none"

MRet(p) == [p EXCEPT !.mode = p.mpp, !.mie = p.mpie, !.mpie = 1, !.mpp = "U"]

Trap(p, cause) ==
  [p EXCEPT !.mode = "M", !.mie = 0, !.mpie = p.mie, !.mpp = p.mode, !.cause = cause]

WriteCsr(p, v) == [p EXCEPT !.mie = v.mie, !.mpie = v.mpie, !.mpp = v.mpp]

NextPriv ==
  CASE Writes -> WriteCsr(priv, scu.val)
    [] ~Writes /\ do_except -> Trap(priv, shr.cause)
    [] ~Writes /\ ~do_except /\ Returns -> MRet(priv)
    [] OTHER -> priv

\* mutant: a return is not passed on to the simulator
Touched_NoReturn == Writes \/ do_except

Touched == Writes \/ do_except \/ Returns

-----------------------------------------------------------------------------
(* The reference: the instructions one after the other.                     *)

RefExec(r, kind) ==
  CASE kind = "csrrs" -> [r EXCEPT !.mie = 1]
    [] kind = "csrrw" -> [r EXCEPT !.mie = 0, !.mpie = 0, !.mpp = "U"]
    [] kind = "mret" ->
         [r EXCEPT !.mode = r.mpp, !.mie = r.mpie, !.mpie = 1, !.mpp = "U"]
    [] OTHER -> r

\* after the oldest n
RefAfter[n \in 0 .. Len(rob)] ==
  IF n = 0 THEN ref ELSE RefExec(RefAfter[n - 1], rob[n].kind)

\* arch_commit_except, except for an instruction that is executed again
NextRef ==
  LET r == RefAfter[NumCommit] IN
  IF HasExcept /\ ~squash_vld /\ ~do_except /\ shr.cause # "reExec"
  THEN Trap(r, shr.cause) ELSE r

-----------------------------------------------------------------------------
(* The clock.  done: the instruction that finishes; bad: it mispredicts or  *)
(* faults; go: the system unit is given its instruction.                    *)

Executing == {i \in DOMAIN rob : rob[i].at \in {"iq0", "iq1", "mem"} /\ ~IsSystem(i)}
WaitingScu == {i \in DOMAIN rob : rob[i].at \in {"iq0", "iq1"} /\ IsSystem(i)}

Report(type, i, cause) == [type |-> type, idx |-> i, cause |-> cause]

ScuAt == CHOOSE i \in DOMAIN rob : rob[i].at = "scu"

\* reports that reach the ROB in this cycle
ExceptReports(done, bad, cause) ==
  (IF Raises THEN {Report("except", ScuAt, scu.cause)} ELSE {})
    \union {Report("except", i, cause) : i \in {j \in done : bad /\ rob[j].kind = "mem"}}
BranchReports(done, bad) ==
  {Report("mispred", i, "none") : i \in {j \in done : bad /\ rob[j].kind = "bru"}}

OldestOf(S) == CHOOSE r \in S : \A x \in S : r.idx <= x.idx

Remembered(E, B) ==
  IF Returns THEN Report("mispred", ScuAt, "none")
  ELSE IF E \union B = {} THEN shr
  ELSE LET r == OldestOf(E \union B)
       IN IF shr.type = "none" \/ r.idx < shr.idx THEN r ELSE shr

Arrived(kind) == [kind |-> kind, at |-> IF kind = "mem" THEN "mem" ELSE "dq"]

Moved(i, done, go) ==
  CASE i \in done \/ (rob[i].at = "scu" /\ scu.stage = "regs") -> "fin"
    [] go /\ i \in WaitingScu -> "scu"
    [] OTHER -> Dispatched(i)

\* the falling edge after a cycle
Sync ==
  /\ csr_sync' = Touched
  /\ cpu_csrs' = IF csr_sync' THEN Shown(priv') ELSE cpu_csrs

Squash ==
  /\ squash_vld
  /\ rob' = << >> /\ status' = 0 /\ scu' = Idle
  /\ shr' = NoReason /\ squash_vld' = FALSE /\ do_except' = FALSE
  /\ priv' = NextPriv /\ Sync
  /\ UNCHANGED ref

Cycle(group, done, bad, cause, go) ==
  /\ ~squash_vld
  /\ LET n == NumCommit
         r == Remembered(ExceptReports(done, bad, cause), BranchReports(done, bad))
         moved == [i \in DOMAIN rob |-> [rob[i] EXCEPT !.at = Moved(i, done, go)]]
     IN /\ rob' = SubSeq(moved, n + 1, Len(rob)) \o group
        /\ shr' = IF r.type = "none" \/ r.idx <= n THEN NoReason ELSE [r EXCEPT !.idx = @ - n]
  /\ status' = NextStatus
  /\ scu' = CASE go /\ WaitingScu # {} -> Issue(rob[CHOOSE i \in WaitingScu : TRUE].kind)
              [] ~go /\ scu.stage = "saved" -> Computed(scu)
              [] OTHER -> Idle
  /\ squash_vld' = (do_except \/ HasMispred \/ (HasExcept /\ shr.cause = "reExec"))
  /\ do_except' = (HasExcept /\ ~do_except /\ shr.cause # "reExec")
  /\ priv' = NextPriv /\ Sync
  /\ ref' = NextRef

Groups ==
  UNION {[1 .. n -> {Arrived(k) : k \in Fetched(priv.mode)}] : n \in 0 .. RENAME_WIDTH}

Steps(group, done, go) ==
  \E bad \in BOOLEAN : \E cause \in {"fault", "reExec"} :
    /\ (bad => \E i \in done : rob[i].kind \in {"bru", "mem"})
    /\ (cause = "reExec" => bad /\ \E i \in done : rob[i].kind = "mem")
    /\ Cycle(group, done, bad, cause, go)

Clock ==
  \E group \in Groups : \E done \in {{}} \union {{i} : i \in Executing} :
    \E go \in {g \in BOOLEAN : g => WaitingScu # {} /\ scu.stage = "idle"} :
      /\ Len(rob) + Len(group) <= ROB_SIZE
      /\ Steps(group, done, go)

Next == Squash \/ Clock

Spec == Init /\ [][Next]_vars

\* Units finish what they hold: the oldest instruction in one, and a system
\* instruction in its queue, is not passed over for ever.
OldestFinishes ==
  /\ Executing # {}
  /\ Steps(<< >>, {CHOOSE i \in Executing : \A j \in Executing : i <= j}, FALSE)
SystemIssues == WaitingScu # {} /\ scu.stage = "idle" /\ Steps(<< >>, {}, TRUE)

FairSpec == Spec /\ WF_vars(Next) /\ WF_vars(OldestFinishes) /\ WF_vars(SystemIssues)

-----------------------------------------------------------------------------
Modes == {"M", "U"}
Causes == {"none", "illegal", "fault", "reExec"} \union Modes
Registers ==
  [mode : Modes, mie : {0, 1}, mpie : {0, 1}, mpp : Modes, cause : Causes]

\* Instructions stay where some unit can hold them, the ROB within its size, and
\* a trap is taken only for the head (ROB.sv:295).
TypeOK ==
  /\ rob \in Seq([kind : Kinds, at : {"dq", "iq0", "iq1", "scu", "mem", "fin"}])
  /\ Len(rob) <= ROB_SIZE
  /\ status \in 0 .. 3 /\ scu.stage \in {"idle", "saved", "regs"}
  /\ shr \in [type : {"none", "except", "mispred"}, idx : 0 .. Len(rob), cause : Causes]
  /\ {squash_vld, do_except, csr_sync} \subseteq BOOLEAN
  /\ {priv, ref} \subseteq Registers
  /\ do_except => shr.type = "except" /\ shr.idx = 1

\* The registers that arch_commitInst compares have reached the simulator: at
\* the commit of every instruction they are those of the reference after it,
\* although they are written a cycle before, and synced between two edges.
SyncedAtCommit ==
  \A k \in 1 .. NumCommit : cpu_csrs = Shown(RefAfter[k])

\* The privileged registers have one writer: a write, a trap and a return never
\* meet, and none comes in the cycle of a squash, which would not stop it.
OneWriter ==
  /\ ~(Writes /\ do_except) /\ ~(Returns /\ do_except)
  /\ squash_vld => scu.stage = "idle"

\* The assertions on a serialised instruction: dispatched, it is alone (int_rdy
\* is exactly port 0), it goes to IQ0, which is the only one with the unit, and
\* when it reports to the ROB it is the head.
SerialisedAlone ==
  /\ TypeOK
  /\ status = 2 => First(1) /\ IsSystem(1) /\ Dispatched(1) = "iq0"
  /\ scu.stage # "idle" => rob[1].at = "scu"

\* A serialised instruction at the first port of the dispatch queue gets out of
\* it: it commits or is squashed.
FirstIsServed ==
  (status = 1 /\ \E i \in Window : First(i) /\ IsSystem(i)) ~> (status = 0)
=============================================================================
