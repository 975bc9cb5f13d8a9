------------------------------ MODULE Harness ------------------------------
(***************************************************************************)
(* The simulator around the core: main.cpp's loop, the comparison with the *)
(* reference (difftest.cpp), the debug window (debugflags.cpp) and the ring *)
(* of instruction records (statistics.cpp).                                *)
(*                                                                         *)
(* One action per turn of the main loop.  Everything the core calls back   *)
(* during one eval() happens inside that turn, in the order of the loop at *)
(* the end of ROB.sv; it may stop the run, and the calls after it in the   *)
(* same eval() still come.                                                 *)
(*                                                                         *)
(* The core is external: it fetches, commits, traps and re-executes as it  *)
(* likes, within its capacity.  An instruction carries the error that the  *)
(* core makes with it, which only the comparison can find out.             *)
(***************************************************************************)
EXTENDS CommandLine

CONSTANTS
  ArgLists,       \* the command lines that are tried
  Insts,          \* [kind, err]: kind plain, branch, exit or trap;
                  \*   err none, pc, npc or val
  COMMIT_WIDTH,
  CAPACITY,       \* instructions that can be in flight
  RING,           \* MAX_INSTMETA_NUM
  STUCK_LIMIT,    \* idle cycles before cpu_stucked (100 in ROB.sv)
  MaxFetch        \* bound: instructions fetched in one run

Kinds == {"plain", "branch", "exit", "trap"}
Errors == {"none", "pc", "npc", "val"}

ASSUME SizesAssumption ==
  /\ {COMMIT_WIDTH, CAPACITY, STUCK_LIMIT, MaxFetch} \subseteq Nat
  /\ RING \in Nat \ {0} /\ RING >= CAPACITY

\* a wrong next pc is a branch's: of any other instruction it is the pc of the
\* next one that is wrong
ASSUME InstsAssumption ==
  \A i \in Insts : i.kind \in Kinds /\ i.err \in Errors /\ (i.err = "npc" => i.kind = "branch")

ASSUME ArgListsAssumption ==
  \A args \in ArgLists : Len(args) \in Nat /\ \A i \in 1 .. Len(args) : Argument(args[i])

VARIABLES
  phase,          \* "args", "run" or "done"
  argv,           \* the command line
  cfg,            \* what main() made of it
  main_time,
  h,              \* the globals of the harness, see Fresh_h
  ring,           \* InstMonitor.insts
  core,           \* external: instructions in flight and the idle count
  ret_code

vars == <<phase, argv, cfg, main_time, h, ring, core, ret_code>>

Nothing == [seq |-> -1]

\* on: enable_flag; buf, out: the messages buffered and printed; ref:
\* instructions the reference has executed; diff: enable_diff.
\* The others are history: the messages said in the debug window, whether the flags
\* were set or not; those of the instructions that were an exit or went wrong under
\* comparison; the tick of the first error or alarm and of the exit.
FreshH == [on |-> FALSE, buf |-> {}, out |-> {}, forced |-> FALSE, failed |-> FALSE,
           diff |-> FALSE, ref |-> 0, insts |-> 0, cycles |-> 0,
           said |-> {}, ending |-> {}, failAt |-> 0, quitAt |-> 0]

\* pos: instructions of the program before the next fetched one; seq: seq_acc;
\* pause: cycles of the squash still to come; idle: cycles since a commit.
FreshCore == [flight |-> << >>, pos |-> 0, seq |-> 0, pause |-> 0, idle |-> 0]

-----------------------------------------------------------------------------
\* debugflags.cpp

\* the debug window: from debug-start to debug-end, but for the first evaluation
\* after reset, which comes before the first look at the clock
InWindow(t) == 3 <= t /\ cfg.start <= t /\ t <= cfg.end

\* DPRINTF with a flag that was asked for.  A message <<t, k>> is the one in place
\* k of those that may be said in the evaluation at tick t.
Emit(s, m) ==
  IF cfg.flags
  THEN [s EXCEPT !.said = IF InWindow(m[1]) THEN @ \union {m} ELSE @,
                 !.buf = IF s.on THEN @ \union {m} ELSE @]
  ELSE s

ClearFlags(s) == [s EXCEPT !.on = FALSE]

\* mutant: the window is closed before the buffers are looked at
PrintAll_ClearFirst(s, t) ==
  IF t > cfg.end THEN ClearFlags(s)
  ELSE IF s.on \/ t >= cfg.start
       THEN [s EXCEPT !.on = TRUE, !.out = @ \union s.buf, !.buf = {}]
       ELSE s

PrintAll(s, t) ==
  IF s.on \/ t >= cfg.start
  THEN [s EXCEPT !.on = t <= cfg.end, !.out = @ \union s.buf, !.buf = {}]
  ELSE s

MarkExit(s, failed) == [s EXCEPT !.forced = TRUE, !.failed = failed]

ForceExit(s) == IF ~s.forced THEN 0 ELSE IF s.failed THEN 1 ELSE 2

-----------------------------------------------------------------------------
\* statistics.cpp: the ring of instruction records

\* mutant: the ring is indexed modulo one slot less
Slot_Short(seq) == seq % (RING - 1)

Slot(seq) == seq % RING

BuildInstMeta(r, inst) == [r EXCEPT ![Slot(inst.seq)] = inst]

ReadInstMeta(inst) == ring[Slot(inst.seq)]

-----------------------------------------------------------------------------
\* difftest.cpp

\* mutant: the messages go on after the end
Closed_Talking(s, t) == [PrintAll(s, t) EXCEPT !.diff = FALSE]

Closed(s, t) == [ClearFlags(PrintAll(s, t)) EXCEPT !.diff = FALSE]

\* mutant: an error does not stop the run
Finish_Silent(s, failed, t) == IF failed THEN Closed(s, t) ELSE MarkExit(Closed(s, t), FALSE)

Finish(s, failed, t) == MarkExit(Closed(s, t), failed)

\* pc; next pc of a branch, unless it is the exit; value written
DiffersFromRef(s, meta, inst) ==
  \/ meta.err = "pc" \/ meta.pos # s.ref
  \/ meta.kind = "branch" /\ meta.err = "npc"
  \/ inst.err = "val"

RefExec(s) == IF s.diff THEN [s EXCEPT !.ref = @ + 1] ELSE s

\* what really happened, for the properties
EndsTrace(inst) == inst.kind = "exit" \/ (inst.err # "none" /\ cfg.diff)

Witnessed(s, inst, t, k) ==
  [s EXCEPT !.ending = IF EndsTrace(inst) THEN @ \union {<<t, k>>} ELSE @,
            !.failAt = IF inst.err # "none" /\ s.failAt = 0 /\ s.quitAt = 0 /\ cfg.diff
                       THEN t ELSE @,
            !.quitAt = IF inst.kind = "exit" /\ s.quitAt = 0 THEN t ELSE @]

\* the commit in place k of its cycle
ArchCommitInst(s, inst, t, k) ==
  LET meta == ReadInstMeta(inst)
      counted == [Witnessed(Emit(s, <<t, k>>), inst, t, k) EXCEPT !.insts = @ + 1]
  IN CASE meta.kind = "exit" -> Finish(RefExec(counted), FALSE, t)
       [] meta.kind # "exit" /\ s.diff /\ DiffersFromRef(s, meta, inst) ->
            Finish(RefExec(counted), TRUE, t)
       [] OTHER -> RefExec(counted)

\* mutant: the reference is not told of a trap
ArchCommitExcept_NoStep(s, m) == Emit(s, m)

ArchCommitExcept(s, m) == RefExec(Emit(s, m))

\* mutant: the alarm prints its text and goes on
CpuStucked_Unmarked(s, t) == s

CpuStucked(s, t) ==
  [MarkExit(s, TRUE) EXCEPT !.failAt = IF s.failAt = 0 THEN t ELSE @]

CycleStep(s) == [s EXCEPT !.cycles = @ + 1]

-----------------------------------------------------------------------------
(* The calls of one rising edge (ROB.sv 446-480).                          *)

\* the instruction at the head after n commits may stop the group
Ends(n) ==
  LET rest == SubSeq(core.flight, n + 1, Len(core.flight)) IN
  {"none"} \union IF rest = << >> THEN {}
                  ELSE IF Head(rest).kind = "trap" THEN {"trap"} ELSE {"reExec"}

Committable ==
  {n \in 0 .. COMMIT_WIDTH : n <= Len(core.flight)
                              /\ \A i \in 1 .. n : core.flight[i].kind # "trap"}

\* the first n instructions in flight commit one after the other
Committed(s, n, t) ==
  LET at[k \in 0 .. n] == IF k = 0 THEN s ELSE ArchCommitInst(at[k - 1], core.flight[k], t, k)
  IN at[n]

\* the other blocks of the design may say something before these calls and after
CalledBack(n, ending, t) ==
  LET checked == IF core.idle > STUCK_LIMIT THEN CpuStucked(h, t) ELSE h
      s == Committed(Emit(CycleStep(checked), <<t, 0>>), n, t)
      passed == IF ending = "trap" THEN ArchCommitExcept(s, <<t, n + 1>>) ELSE s
  IN Emit(passed, <<t, n + 2>>)

\* the core after n commits; a squash drops what is in flight, and a trapped
\* instruction is passed while one to be executed again is not
Retired(n, ending) ==
  LET rest == SubSeq(core.flight, n + 1, Len(core.flight)) IN
  IF ending = "none"
  THEN [core EXCEPT !.flight = rest, !.idle = IF n = 0 THEN @ + 1 ELSE 1]
  ELSE [core EXCEPT !.flight = << >>, !.idle = 1, !.pause = 2,
                    !.pos = Head(rest).pos + IF ending = "trap" THEN 1 ELSE 0]

Active(n, ending, t) ==
  /\ core.pause = 0
  /\ h' = PrintAll(CalledBack(n, ending, t), t + 1)
  /\ IF ending = "none" /\ Len(core.flight) < CAPACITY /\ core.seq < MaxFetch
     THEN \/ \E i \in Insts :
               LET inst == [seq |-> core.seq, pos |-> core.pos, kind |-> i.kind, err |-> i.err]
               IN /\ ring' = BuildInstMeta(ring, inst)
                  /\ core' = [Retired(n, ending) EXCEPT
                                !.flight = Append(@, inst), !.seq = @ + 1, !.pos = @ + 1]
          \/ core' = Retired(n, ending) /\ UNCHANGED ring
     ELSE core' = Retired(n, ending) /\ UNCHANGED ring

\* commit_stall or squash_vld: only the cycle is counted
Paused(t) ==
  /\ core.pause > 0
  /\ h' = PrintAll(Emit(CycleStep(h), <<t, 0>>), t + 1)
  /\ core' = [core EXCEPT !.pause = @ - 1]
  /\ UNCHANGED ring

-----------------------------------------------------------------------------
\* main.cpp

Init ==
  /\ phase = "args" /\ argv = << >> /\ cfg = None /\ main_time = 0 /\ ret_code = 0
  /\ h = FreshH
  /\ ring = [i \in 0 .. RING - 1 |-> Nothing]
  /\ core = FreshCore

\* the command line, and tick_init_top: two evaluations, one rising edge
Start ==
  /\ phase = "args"
  /\ \E args \in ArgLists : \E c \in Configure(args) :
       /\ argv' = args
       /\ cfg' = c
       /\ IF "exit" \in DOMAIN c
          THEN phase' = "done" /\ ret_code' = c.exit /\ UNCHANGED <<main_time, h>>
          ELSE /\ phase' = "run"
               /\ main_time' = 2
               /\ h' = [CycleStep(h) EXCEPT !.diff = c.diff]
               /\ UNCHANGED ret_code
  /\ UNCHANGED <<ring, core>>

Going == phase = "run" /\ main_time < cfg.limit /\ ForceExit(h) = 0

FallingEdge ==
  /\ Going /\ main_time % 2 = 0
  /\ main_time' = main_time + 1
  /\ h' = PrintAll(Emit(h, <<main_time, 0>>), main_time + 1)
  /\ UNCHANGED <<phase, argv, cfg, ring, core, ret_code>>

RisingEdge ==
  /\ Going /\ main_time % 2 = 1
  /\ main_time' = main_time + 1
  /\ \/ \E n \in Committable : \E ending \in Ends(n) : Active(n, ending, main_time)
     \/ Paused(main_time)
  /\ UNCHANGED <<phase, argv, cfg, ret_code>>

End ==
  /\ phase = "run" /\ ~Going
  /\ phase' = "done"
  /\ ret_code' = IF ForceExit(h) = 1 THEN 1 ELSE 0
  /\ UNCHANGED <<argv, cfg, main_time, h, ring, core>>

Next == Start \/ FallingEdge \/ RisingEdge \/ End

\* the loop runs on until something ends it
Spec == Init /\ [][Next]_vars /\ WF_vars(Next)

-----------------------------------------------------------------------------
\* The globals keep their kinds, the core stays within its capacity and the
\* idle count is stopped by the alarm just above its limit (ROB.sv:456).
TypeOK ==
  /\ phase \in {"args", "run", "done"} /\ ret_code \in {0, 1, 134}
  /\ h.on \in BOOLEAN /\ h.forced \in BOOLEAN /\ h.failed \in BOOLEAN /\ h.diff \in BOOLEAN
  /\ h.buf \union h.out \union h.said \subseteq (2 .. main_time) \X Nat
  /\ Len(core.flight) <= CAPACITY
  /\ core.idle \in 0 .. STUCK_LIMIT + 2 /\ core.pause \in 0 .. 2

Done == phase = "done" /\ "exit" \notin DOMAIN cfg

\* A run in which the core went wrong under comparison, or stopped committing,
\* ends in failure -- unless the program called its exit in that very cycle:
\* the last mark_exit of a cycle decides (debugflags.cpp:116).
FailureEndsRun == Done /\ h.failAt # 0 => ret_code = 1 \/ h.quitAt = h.failAt

\* A failed run had a cause: traps, re-executed instructions and squashes keep
\* the reference in step, so a correct core is never reported.
AlarmIsReal == Done /\ ret_code = 1 => h.failAt # 0

Later(m, l) == m[1] > l[1] \/ (m[1] = l[1] /\ m[2] > l[2])

\* The debug messages that are printed are those said in the debug window, up to the
\* message of the instruction whose exit or difference ended the run: what is still
\* said in that evaluation is lost, by the clearFlags() of difftest.cpp:295 and 306.
\* An end by the limit or the alarm loses none, and nothing stays in a buffer.
TraceIsWindow ==
  phase # "args" /\ "exit" \notin DOMAIN cfg =>
    /\ h.out = {m \in h.said : \A l \in h.ending : ~Later(m, l)}
    /\ h.buf = {}

\* The averages of stats.txt divide by curTick() / 2: that is the number of
\* cycles counted, the one under reset included.
AveragesPerCycle == phase # "args" => h.cycles = main_time \div 2

\* read_instmeta finds the record of the instruction it was asked for: no
\* slot is reused while its instruction is in flight (statistics.cpp:77 does
\* not check it).
MetaIsOwn == \A i \in DOMAIN core.flight : ReadInstMeta(core.flight[i]) = core.flight[i]

\* The books of the harness are right: the globals, the cycles and the records.
BooksAgree == TypeOK /\ AveragesPerCycle /\ MetaIsOwn

\* Short letters, "--name value" and "--name=value" mean the same: the run
\* is configured as by the rewritten arguments.
FormsAgree == phase # "args" => cfg \in Configure(Rewritten(argv))

\* A run of a core that fetches finitely many instructions ends before the default
\* limit: by the exit of the program, by a limit that was asked for, by a difference
\* or by the alarm.  The default is UINT64_MAX (main.cpp:11); a run that gets there
\* counts as one that does not end.
Terminates == <>(phase = "done" /\ ("exit" \in DOMAIN cfg \/ main_time < Forever))
=============================================================================
