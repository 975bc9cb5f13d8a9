# Verification of aura-core

aura-core is an out-of-order RISC-V core in SystemVerilog: a decoupled front
end (branch predictors filling a fetch target queue), a four-wide back end with
register renaming and move elimination, a 128-entry reorder buffer, split load
and store queues with memory-dependence speculation, and a Verilator harness.
This directory holds TLA+ models of its core logic, the TLC runs that check
them and the TLAPS proofs about them. Paths below are relative to `src/rtl`;
`backend` stands for `cpu/backend`, `frontend` for `cpu/frontend` and `sim` for
`src/sim/verilator`.

One step of every hardware model is one clock cycle of the registers it names:
all `always_ff` blocks of the component act together, the combinational outputs
are operators, and what the rest of the core may present at the inputs is chosen
with `\E`. One step of the simulator's model is one turn of its main loop, a
clock edge.

## 1. Inventory

| component | state | operations | interacts with |
|---|---|---|---|
| free list (`backend/rename/freelist.sv`, `utils/struct/fifo.sv`) | ring of registers, `enq_ptr`, `deq_ptr`, `arch_deq_ptr`, `count`, `arch_count` | hand out, take back, commit, resteer | rename table |
| rename (`backend/rename/rename.sv`, `renametable.sv`, `rat_map.sv`) | `spec_mapping`, `arch_mapping`, two registers of displaced destinations, the renamed group | rename a group, eliminate moves, commit, release, squash | free list, dispatch, ROB |
| register file (`backend/regfile/regfile.sv`) | values, ready bits | write back, mark not ready | dispatch, functional units |
| dataQue (`backend/dispatch/dataQue.sv`) | ring, valid and clear bits, head and tail, flip bit, count | insert, mark, clear a run from the head, reset | the ROB and the immediate buffer are instances |
| ROB (`backend/commit/ROB.sv`) | a dataQue, `shr` (oldest squash reason), `squash_vld`, trap status | insert, finish, record a reason, commit, trap, squash | everything |
| dispatch (`backend/dispatch/dispatch.sv`, `dispQue.sv`) | two dispatch queues, serialisation status | check room everywhere, insert, serialise | rename, ROB, issue queues |
| issue queues (`backend/issue`) | entries with ready and issued bits | insert, wake, select oldest, replay | dispatch, units, bypass |
| load queue (`backend/memfu/loadQue.sv`) | executed loads | insert, check against a store's address, commit, flush | load and store units |
| store queue (`backend/memfu/storeQue.sv`) | addresses and data of stores, `finish_ptr`, `deq_ptr` | write address, write data, forward, finish, commit, flush | load and store units, ROB |
| virtual LSQ (`backend/memfu/virtualLSQ.sv`) | next load and store index, numbers in use | allocate, free, reset | memory dispatch |
| load/store units (`loadfu.sv`, `stafu.sv`, `stdfu.sv`) | pipeline registers | forward, replay, fault, report | both queues, dcache |
| store sets (`backend/memfu/mdp`) | SSIT, LFST | predict, train | memory issue queue |
| privileged control (`backend/commit/priv_ctrl.sv`) | CSRs, mode | CSR write, trap, mret/sret | ROB, SCU |
| fetch target queue (`frontend/bp/FTQ.sv`) | prediction ring with five pointers | push, fetch, commit, squash, false prediction, write back | BPU, fetcher, ROB |
| BPU, uBTB, FTB (`frontend/bp`) | prediction pipeline, tables | predict, redirect, train | FTQ |
| fetcher (`frontend/fetcher.sv`) | fetch pipeline, instruction buffer | fetch, pre-decode, redirect | FTQ, icache, decode |
| system unit (`backend/fu/alu_scu.sv`) | two stages | CSR read and write, ecall, mret | dispatch, ROB, privileged control |
| decoder (`backend/decode`) | one register | which instruction, queue, operation, registers, immediate | fetcher, rename |
| functional units | one pipeline stage | arithmetic | issue queues, bypass |
| caches, MMU | simulation stubs | | |
| simulator (`sim/src/main.cpp`, `difftest.cpp`, `debugflags.cpp`, `statistics.cpp`, `sim/inc/cmdline.hpp`) | the time, the copy of the registers, `enable_diff`, the trace buffers, a ring of instruction records | read the command line, step the clock, compare every commit with a reference, open and close the trace, end the run | called by the core (ROB.sv 446-480, priv_ctrl.sv 48-53) through DPI |
| disassembler (`sim/src/riscv-disasm`, `sim/inc/riscv-disasm`) | a hash table of encodings | build, look up, spell | traces |

Behaviours that are hard here:

* **Squash.** Any cycle may turn out to be the last one of a wrong path. Nothing
  is snapshotted: the speculative map and the free list are restored from their
  architectural twins, every queue is reset, while the last commits are still
  on their way through two registers.
* **Ages across a wrap.** Order between two instructions is a compare of index
  and one flip bit.
* **Reports in any order.** Branches, erets, faults and memory-order violations
  reach the ROB at different latencies, two in one cycle, and only the oldest
  counts. The latency of each decides whether it comes before or after the
  commit of its own instruction.
* **Sharing of registers** by move elimination, without reference counts.
* **Memory order.** A load runs before older stores know their addresses; the
  late store must find it.
* **Serialised instructions.** System instructions wait in dispatch until they
  are the head of the ROB; what they write is copied to the simulator on the
  other clock edge and compared in the next cycle.
* **One ring, five pointers.** Prediction, fetch, commit and two kinds of squash
  move the pointers of the FTQ in the same cycle, while instructions in the
  back end carry its entry numbers.
* **Callbacks within one evaluation.** Several commits, a trap, the alarm and
  the program's exit reach the simulator in one call of `eval`, and each may end
  the run.
* **Tables written twice.** The decoder's patterns and the disassembler's come
  from different sources and should mean the same.
* **Liveness.** Replay, refusal by full queues, and waiting for marks.

What makes each component correct: the free list hands out no register twice and
loses none; the maps are the replay of what is in flight; architectural values
are those of in-order execution; the ring is a queue that leaves in order and
only when marked; retirement is precise; a load retires only with the value of
the newest older store; the FTQ's pointers never cross and its entries stay
until their instructions are gone; a recorded reason is acted on; a system
instruction executes alone; the simulator reports the errors that the core makes
and no others; decoder and disassembler agree on every word.

## 2. Plan

1. *Done.* `FreeList`, `DataQue` (the rings everything rests on) with their
   abstract specifications and proofs; `Rename`; `Dataflow`, which composes
   `Rename` with the register file and refines in-order execution; `ROB`, which
   composes `DataQue` with the squash logic and refines precise retirement.
2. *Done.* `MemOrder`: virtual LSQ, store queue, load queue, the load and store
   pipelines, with byte masks and data; refinement of `SequentialMemory`.
3. *Done.* `Ftq`: the fetch target queue with the fetcher and the restarts of
   the BPU; refinement of `FetchQueue`.
4. *Done in part.* `Serialize`: dispatch of serialised instructions, the system
   unit, privileged control and the copy of the registers in the simulator.
   Left: the issue queues with speculative wake-up. Their state is small, but
   what makes them right is the number of cycles between a wake-up and the
   operand in every unit, and those pipelines are in templates of the build
   (`generateIntIQ.svh.tmp` and the others) that this commit instantiates for
   some units only.
5. *Done.* `Harness` with `CommandLine`: the simulator around the core.
   `Opcodes`, `Disassembler`, `Decoder`: the two tables of instructions.
6. Proofs: *done* for `FreeList` and `DataQue`, their invariants and the
   refinements of `FreeListAbs` and `DataQueAbs`; for `ROB`, its invariants and
   the refinement of `Retirement`; for `Rename`, all its invariants, on top of
   the free list's; for `Dataflow`, on top of those, its invariant and the
   refinement of `ProgramOrder`; for `Ftq`, its invariants and the refinement of
   `FetchQueue`; for `Serialize`, all its invariants; for `MemOrder`, its
   invariants and the refinement of `SequentialMemory`; and for `Harness`, all
   its invariants but the one on two readings of the command line (section 6).

## 3. Modules

| module | models | how |
|---|---|---|
| `FreeList` | freelist.sv around fifo.sv with `USE_RENAME` | one variable per register; port i's pointer is port 0's plus i. `Advance` is a cycle without, `Resteer` one with `i_resteer_vld`. |
| `FreeListAbs` | what renaming needs of it | a queue of free registers and one of those handed out |
| `Rename` | rename.sv, renametable.sv, rat_map.sv over `FreeList` | `RenameGroup`, `RenameRefused` (`o_can_rename` = 0), `DispatchStall`, `Squash`; `prev_saved` and `dealloc` are the two registers of the return path; the ROB is the queue of what may commit |
| `ProgramOrder` | the machine the programmer sees | registers and the program not yet executed |
| `Dataflow` | `Rename` + regfile.sv + units that execute any ready instruction | `Execute` is issue, bypass and write-back in one |
| `DataQue` | dataQue.sv with `ISROB` | `Cycle` does arrival, marks and clearing in the order the code writes them; `Reset` is `rst`, which a squash asserts |
| `DataQueAbs` | a queue that leaves in order when marked | |
| `ROB` | ROB.sv over `DataQue`, with the memory block's report registers | see below |
| `Retirement` | precise retirement | |
| `MemOrder` | virtualLSQ.sv, storeQue.sv, loadQue.sv, stages of loadfu.sv, stafu.sv, stdfu.sv | see below |
| `SequentialMemory` | loads and stores one after the other | memory, the program not yet executed, what the last loads returned |
| `Serialize` | the integer side of dispatch.sv, the queue choice of intBlock.sv, alu_scu.sv, the reasons of ROB.sv, priv_ctrl.sv, `arch_sync_csrs` | see below |
| `Ftq` | FTQ.sv, the stages of fetcher.sv | see below |
| `FetchQueue` | a sequence of predicted blocks | the oldest leaves, the youngest are taken back, one joins |
| `CommandLine` | cmdline.hpp, main.cpp up to the clock | `Read` takes one argument, `ReadAll` the line, `Parse` checks the rest, `Configure` is what main() makes of it |
| `Harness` | main.cpp, difftest.cpp, debugflags.cpp, statistics.cpp | see below |
| `Opcodes` | encoding.h | 1365 rows of name, match and mask |
| `Disassembler` | disasm.cpp, disasm.h | the explicit rows, the hash table, the search, the argument fields |
| `Decoder` | decoder.sv, decode_define.svh | patterns, queue, operation, registers, immediate of a word |
| `FreeList_proofs` | the free list's invariants, and that it implements `FreeListAbs` | section 6 |
| `DataQue_proofs` | the invariants of that ring, and that it implements `DataQueAbs` | section 6 |
| `Rename_proofs` | what a list of instructions makes of a map; that registers are conserved, sources stay live, and a squash takes back what was handed out; that execution proceeds, and that `Dataflow` implements `ProgramOrder` | section 6 |
| `ROB_proofs` | that a violating load retires in the race only, that reasons are remembered without it, and that `ROB` then implements `Retirement` | section 6 |
| `MemOrder_proofs` | that the queues, the indices and the ROB agree; when index order is age and reports are in time; that then no stale load goes unnoticed and `MemOrder` implements `SequentialMemory` | section 6 |
| `Ftq_proofs` | that the ring is consistent, entries are kept and the stream stays in order, and that `Ftq` implements `FetchQueue` | section 6 |
| `Serialize_proofs` | that the core's privileged registers, the reference's and the simulator's copy stay in step, and that a system instruction executes alone | section 6 |
| `Harness_proofs` | that errors of the core stop the run and nothing else fails it, that the trace is the debug window up to the end of the run, and that the records and counts are right | section 6 |

In `ROB` an instruction is its kind: what it will turn out to be. The ROB learns
it when a report arrives. The latency of each report is what the code gives it:
`s2`, `s3` are the load unit's stages, `sta_done` says that a store's address is
in the store queue, `violation` is the register in loadQue.sv, `st_except` the
one in stafu.sv and `mem_except` the one in memBlock.sv. `Cycle` is one clock of
all of them; `Squash` is the cycle with `squash_vld`.

`MemOrder` has its own view of the ROB: the sequence of loads and stores in
flight, with a finish mark and, for a load, the value it got. `rob[i].lq` and
`rob[i].sq` are the indices that virtualLSQ.sv gave it, `sq` and `lq` the two
buffers, `s1`, `s2`, `s3` the load pipeline (`s1` with the match vectors that
the store queue computed in s0), `violation`, `mem_except` and `shr` the three
registers that a violation passes. `Cycle` is one clock of all of them: which
loads are in s0, which stores have their address in s1 and which their data is
any choice, so every order of issue and every wake-up policy is covered;
replays, forwarding, finish, commit and the check follow from the code. `Squash`
is the cycle with `i_squash_vld`; it may come at any time, since a misprediction
or trap older than everything in flight is possible at any time. All accesses
are in one aligned 8-byte word, as sets of its bytes: the compares of the upper
address bits would only separate words that do not interact. Ages in the ROB
are the order of the sequence, which `AgeInvariance` (section 6) justifies.
`pmem_write` and the cache's `read_rom` are DPI calls of one clock edge in two
processes: `racing` says for each load which of them comes first.

`Serialize` keeps the ROB as the sequence of instructions in flight with the
place of each: `dq` (dispatch queue), `iq0`, `iq1`, `scu`, `mem`, `fin`.
`Window` is what the dispatch queue shows at its ports, `Taken` the queue that each
port gets. `status` is the dispatch state machine, `scu` the two stages of the system unit,
`priv` the registers. `Cycle` is one rising edge with the falling edge after it
(`Sync`), `Squash` the cycle with `squash_vld`. Which of the other instructions
finishes, mispredicts or faults is free. The reference executes the same
instructions in order and its registers (`ref`) are what `arch_commitInst`
compares with `cpu_csrs`. An mret in user mode is not fetched: see the
observations.

`Ftq` has one variable per pointer and flip bit of FTQ.sv, and the three stages
of the fetcher. A block is its position in the program modulo POS: addresses
matter only for being those of the right block. `back` is the back end, external:
the blocks that were delivered and not yet committed, whose branches write back
in any order. `Normal`, `CommitMispred` and `SquashCycle` are one clock edge
each; they differ in what the ROB reports.

In `Harness` the core is external: it fetches, commits, traps and executes again
as it likes within its capacity, and an instruction carries the error that the
core makes with it, which the harness can find out by comparison only.
`RisingEdge` runs the callbacks of ROB.sv 446-480 in their order. `h` holds the
globals of the C++ side, `ring` the records of instructions. A debug message
<<t, k>> is the one in place k of the evaluation at tick t: k = 0 for what other
blocks say before the ROB's calls, then one for each commit (difftest.cpp 207),
one for the trap (314), and one for what is said after them. History for the
properties: `said`, the messages of the window, printed or lost; `ending`, those
of the instructions that were an exit or went wrong under comparison; `failAt`
and `quitAt`, the ticks of the first error or alarm and of the exit.

`Decoder` and `Disassembler` are functions of a word; a word is a pair of 16-bit
halves. `MCHarness` checks them in the same run as the harness, where a run of
the harness has ended with its usage text, because nothing in them depends on
the rest: `Arrive` puts each word of the tables at the decoder in turn.

Abstractions: register numbers, values, pcs and immediates are left out or are
uninterpreted (values in `Dataflow` are bits: a computation complements, a move
copies). The entry of a slot that is not valid is `Empty`, since nothing reads
it. A decoded instruction keeps one source, the one a move copies.

## 4. Runs

| run | bounds | shows |
|---|---|---|
| `freelist` | 5 registers, 2 ports a side | `PointersAgree`, `NoDuplicate`, refinement of `FreeListAbs` |
| `rename` | 3 logical, 5 physical registers, 2 wide, 2 in the ROB and 2 on their way | `RegistersAccounted`: conservation of registers, the assertions of the release path (freelist.sv 62, fifo.sv 90, rat_map.sv 262), no starvation; `SquashRestores`: the speculative map as replay, hand-outs in order; live sources |
| `dataflow` | 3 physical registers, 2 wide, 2 in the ROB and 2 on their way | refinement of in-order execution; the oldest can always execute |
| `dataque` | 3 slots, 2 in, 2 out | window, ages, refinement of `DataQueAbs` |
| `rob` | 3 slots, 2 in, 2 out; plain, branch, eret, illegal, faulting load; with fairness | reasons are remembered, precise retirement, every recorded reason ends in a squash |
| `mem_order` | 2 load and 2 store slots, 3 in flight, 2 bytes, 1 dispatched and 1 committed a cycle | the queues, the indices and the ROB agree, with the queues' assertions; no stale load goes unnoticed; refinement of `SequentialMemory` |
| `mem_live` | 2 and 2 slots, 2 in flight, with fairness | every load and store leaves its queue |
| `serialize` | 3 in flight, 1 in, 2 out, a window of 3, queues of 2; with fairness | the registers have reached the simulator when they are compared; one writer of them at a time; a serialised instruction is alone, in IQ0 and the head; the one at the first port is served |
| `ftq` | 3 entries, 4 positions | pointers, flip bits and valid bits agree; the assertions of FTQ.sv; every entry number in flight means its own block; blocks are delivered in order unless a stall meets a false prediction; refinement of `FetchQueue` |
| `harness` | 20 command lines; 3 instructions fetched, 2 in flight, 2 committed an edge, a ring of 2, alarm after 2 idle cycles, a debug window; every encoding with its free bits in patterns | errors end the run and are told by the exit code, a correct core is never reported, the trace is its window up to the message of the instruction that ended the run, the books agree, the forms of an option mean the same, every run ends before the default limit; the search finds the row meant, the decoder's patterns take what the trace names (with the exceptions of observation 11), operations, registers and immediates agree |
| `rob_race` | 3 slots, 2 in, 2 out; loads, stores, branches | **violated** (finding): a load found to violate memory order retires |
| `mem_age` | 2 load and 2 store slots, 3 in flight, 1 byte, 2 dispatched and 1 committed a cycle | **violated** (finding): the order of the indices is not the order of age |

Why the bounds are enough: rings of three to five slots wrap within two cycles
and within one group, widths of two have every case of a group (bypass, two
writers of one register, a cause followed by a victim), and no definition
depends on the size of the ring except through the wrap. With 5 physical
registers for two logical ones and 4 instructions in flight, renaming runs out of
registers, shares them by moves and reuses them immediately. With 4 the
assertion of fifo.sv 90 would fail: it holds only when there are more registers
than the map and the return path can hold, as in the code (80 against 32 + 8).

The bounds of the memory runs also say what they leave out on purpose.
`mem_order` dispatches one instruction a cycle and commits one a cycle. The core
does four of each, with 64 slots and 128 in the ROB, and then memory order does go
wrong: `mem_age` is the same machine with two dispatched a cycle (one byte is enough), `rob_race` the
ROB with two committed, and both are findings. `mem_order` shows that nothing
else goes wrong, and section 6 proves for every width and size that these are the
only two ways. Three in flight over two slots fill and wrap
both queues. `mem_live` keeps no more in flight than the store queue holds, which excludes observation 2. The loads cover
both bytes or one, the stores one or both: every overlap (none, part, all, two
stores needed for one load) occurs.

`serialize` fetches one instruction a cycle so that a serialised one never waits
behind others of its group (observation 4); a window of three over two queues
still lets instructions in front of it stay behind. Three entries of the FTQ
fill, wrap and are taken back by both squashes; four positions keep a block
apart from the one that takes its entry. The command lines of `harness` have
every form of an option and every way to fail; two instructions in flight and
three in all are enough for two commits in one evaluation, a ring that wraps,
a trap behind a commit and a re-execution after it. `Forever` = 36 stands for
the default limit, UINT64_MAX (main.cpp 11). A core that fetches at most three
instructions commits the last of them, or is stopped by the alarm, before
tick 36. `Terminates` counts a run that gets to `Forever` as one that does not end,
so it is the exit, the difference, the alarm and a limit that was asked for that
must end it: without the alarm's `mark_exit` it is violated.

A word of the tables comes with its free bits clear and set, and with four more patterns in each half where
the decoder knows the instruction, so that every bit of an immediate and its
neighbours differ somewhere.

Symmetry: registers and data are interchangeable and are permuted in safety runs
only.

**Fairness.** `FairSpec` of `ROB` says that the clock ticks and that the unit
holding the head's work answers sooner or later. A synchronous design takes
every step; the units answer because no instruction waits for a younger one,
which `OldestCanExecute` shows for registers. It does not say that a faulting
store is ever finished, because no unit finishes it. `FairSpec` of `MemOrder`
says the same of the oldest load or store that has something left to issue, and
that the ROB squashes on the load it may not commit (`rob` shows that). It
asks only for cycles that still have something to do (`Busy`), so that nothing
has to be dispatched: the program may end, or wait behind a serialising
instruction. `FairSpec` of `Serialize` says that the clock ticks, that the oldest
instruction in a unit is not passed over for ever and that a system instruction
in its queue, being alone, is issued. `Spec` of `Harness` says that the main loop
runs on: nothing in it waits.

## 5. Findings and observations

**Finding 1** (`rob_race`): the report of a memory-order violation takes three
cycles to reach `shr` from the store's address check, the store's finish takes
two to be committable. With more than one commit a cycle the store and the
younger load it violates can retire together; the load keeps a stale value.
`RetiresOnlyBehindStore` (section 6) proves that there is no other way for such a
load to retire, whatever the widths.

**Finding 2** (`mem_age`): virtualLSQ.sv 64 lets a group in while the store queue has
room for `ST_ISSUE_WIDTH` stores. A load dispatched in the same group as, and
behind, the stores that fill it gets the index of the oldest store with the other
flip bit, which OLDER_THAN (core_comm.svh 48) does not call younger. stfwd_if.sv
14 asks for "store age small than load". That store and this load never see each
other; with two dispatched a cycle `ImplementsSequentialMemory` is violated too.
`IndexNeedsRoom` and `IndexTellsAge` (section 6) prove exactly when it happens.

Observations are what the models show, or what was seen in the code while
modelling it; no run is kept for them. Where constants are given, the module
checked with them shows it.

1. An exit or a difference prints the buffers and clears the flags in the middle
   of an evaluation (difftest.cpp 294-295, 305-306). The commits behind it and a
   trap still come (207, 314), as do messages of other blocks; what they say is in
   the debug window and lost. `TraceIsWindow` says which messages these are.
2. `MemOrder` with 3 store slots, stores only and 4 commits a cycle:
   `finish_ptr` (storeQue.sv 176) runs over finished stores again when the queue
   is full of them and stops in the middle of the free part. The next store
   lands before it and does not finish until the pointer comes round again.
3. `ROB` with a faulting store among the kinds (`"sfault"`) violates
   `SquashTaken`: the store is reported (stafu.sv 115) and never marked finished,
   so its trap is never taken.
4. dispatch.sv 234-236 leaves status 0 as soon as a serialising instruction is in
   the window, whether or not the issue queues took what is in front of it; in
   status 1 nothing is requested, so those wait for ever. `Serialize` with
   RENAME_WIDTH = 2 and the other constants of `serialize` stops so.
   `FirstIsServed` speaks of an instruction at the first port.
5. intBlock.sv 90 ties to 0 the wire that alu_scu.sv drives with its exception
   report; the models take the report. `mret` in user mode raises an exception
   (alu_scu.sv 93) and changes the mode all the same; `Fetched` leaves it out.
6. fetcher.sv 219 registers a false prediction whether or not there is a stall,
   while the block itself is taken only without one (222); and the cycle that
   handles it clears a block that a stall has kept (180). Either way the corrected
   block is never delivered and the predictor goes on behind it (FTQ.sv 47-49
   wants the stream corrected). `StreamInOrder` of `Ftq` is violated by it;
   `OnlyStallLoses`, which the run checks, says that nothing else loses a block.
7. FTQ.sv 130 compares `fetch_ptr` with `pred_ptr` without flip bits: a ring
   filled before anything of it is fetched asks for nothing. `fptr_flipped` is
   written and never read.
8. In the squash cycle the commit outputs of ROB.sv other than renaming's (232 to
   238, 339, 340) are not masked by `squash_vld`: the FTQ keeps blocks of the
   wrong path until they are committed to the predictor. `SquashCycle` of `Ftq`
   has it; the consequences stay in the predictor.
9. The exit of the program in the cycle of an error hides it: the last
   `mark_exit` decides (debugflags.cpp 116). `-e` reads a time only as `t<n>`;
   `i<n>t<m>`, which main.cpp 60-64 describes, stores nothing, and an empty text
   leaves the limit unset. The first evaluation after reset is never traced.
10. decoder.sv 271 drops the sign bit of a jal immediate (as preDecode.sv 20
    does): jumps beyond 512 KB land 1 MB off. `ShownIsExecuted` allows just that.
    An immediate operation also waits for the register that its immediate looks
    like (306), and csrr*i for the one of its zimm (303). Multiplications and
    divisions are decoded, but their destination is not renamed (300) and no unit
    is there; `divuw` has no operation number. Compressed instructions are known
    and have none either. fence, wfi and sret are reported illegal.
11. The pattern of c.add (decoder.sv 55) has no condition on its registers and
    takes c.ebreak and c.jalr, which the trace names as such: neither is
    reported illegal (235, 248). c.addi4spn's (58, 23) leaves out only 32 zero
    bits and takes a zero halfword with anything else behind it, which the trace
    names c.unimp. The prefetch hints run as the ori they are encoded in.
    `TakenFor` of `Decoder` lists these; `PatternsAgree` says that there are no
    others.

## 6. Proofs

`FreeList_proofs` proves, for any finite set of registers and any widths up to
the ring's depth, that `Spec` implies `[]TypeOK`, `[]PointersAgree` and
`[]NoDuplicate`. The inductive invariant is the conjunction of the three: the
pointers cannot be shown to agree without `count <= arch_count`, nor the absence
of duplicates without knowing that a returned register lands outside the part
of the ring that is in use. The assumption about the environment (it returns
only registers of the part in use, commits only what was handed out) is
`FreeList`'s `Advance` and `Resteer`; `Rename_proofs` proves that renaming
keeps to it.

`DataQue_proofs` proves `[]TypeOK`, `[]WindowAgrees` and `[]AgesInOrder` for any
depth, widths and data. The inductive invariant adds the shape of the flip bits:
a slot before the tail carries the tail's bit, one after it the other. It is
needed because `AgesInOrder` says nothing of the bit the next entry will be
given.

The second halves of `FreeList_proofs` and `DataQue_proofs` prove
`Spec => ImplementsAbs`: every cycle of a ring is a step of the queues its users
see. For the free list, the part of the ring from `arch_deq_ptr` to `enq_ptr` is read as one sequence
(`Queues`: the registers taken, then the free ones), `RingAfterCycle` says what it
holds after a cycle, and each queue of the next state is shown, element by
element, to be the pieces that `FreeListAbs` joins. A squash needs the invariant
most: that `deq_ptr` moved to `arch_deq_ptr` puts the taken registers in front of
the free ones is `PointersAgree`, and that nothing returned is already there is
`NoDuplicate`. For the reorder buffer's ring, `CycleSlots` follows each slot of the
window through a cycle, `LeavingDone` shows that what leaves is marked, and
`CycleRefines` picks the step of `DataQueAbs`.

`ROB_proofs` is about the composition of that ring with the squash logic and
the memory block's report pipeline, for any depth, widths and set of kinds. It
has two invariants because two things must be kept apart:

* `MachineInv` needs no hypothesis: the ring's own invariant, `Filled` (a valid
  slot holds an instruction), `Control` (commit stalls exactly while a trap is
  processed), `Pipes` (what is in a load stage or in `st_except` is in the
  window and unfinished; a load in `violation` has the store that found it, still
  unfinished, in front of it) and `Reports` (what `mem_except` says is about an
  instruction of the window that has that reason, and a faulting load about to
  finish is reported, or something older is).
* `ReasonInv` says what the recorded reason is worth while no squash is pending:
  `ReasonHere`, it names an instruction of the window of a kind that has that
  reason, and `Remembered`, nothing finished that must redirect or trap is older
  than it. `ReasonsRemembered` follows from it.

`ReasonInv` is not invariant of `Spec` alone, and cannot be: finding 1 lets a
violating load retire, its age is then recorded after it has left, and as the
ring turns, that age comes to name another instruction. So `ReasonInvariance`,
`ReasonsKept` and `Refinement` are proved of `Spec /\ []ViolatingLoadNeverRetires`,
the behaviours without that race.

How narrow that hypothesis is, is proved too. `RetiresOnlyBehindStore` needs none:
for every size, any widths and any mix of kinds, a violating load retires in no
other way than with its report in `mem_except` and in the commit group of a store
in front of it. The argument is the race itself: the store that found the load
stands in front of it unfinished for as long as the report is in `violation`; when
it is in `mem_except` the store may have finished but not retired; a cycle later the
report is in `shr`, where commit stops. So `StoresApart`, that no load retires in
one cycle with a store in front of it, is enough (`StoresApartOrder`), and under
it every reason is kept and retirement is precise (`ReasonsAlwaysKept`,
`RefinementAlways`). It speaks of what commits together, with the core's four
commits a cycle as with one.

The proofs count instructions from the head. `PlaceOrder` says that ages
compare as places do, `Places` what a cycle makes of each place, and the reports
are followed by place through a cycle. The second half adds the sequence that
`Retirement` sees: `Front` reads one state (what the window holds, cut at what
this cycle commits), `CycleRefines` hands it on to the next, and while a squash
is pending nothing is shown.

`Rename_proofs` proves `[]SpecIsReplay` for any number of logical and physical
registers, ports and instructions in flight: the speculative map is what the
instructions in flight make of the architectural one, so that copying the second
over the first, which is all a squash does to it, undoes exactly those. `Written`
asks for the last writer of a register; `WrittenJoined` shows that a list may be
applied in two parts, and every cycle only moves the cut between what the
architectural map has, what the ROB holds and what is being renamed (`Regroup`).
The invariant adds only that the lists are lists and the map has every register;
what registers the free list gives does not matter to it.

Its second half proves `Rename`'s other invariants, with the free list's
instantiated inside it: `[]RegistersConserved`, `[]SourcesStayLive` and
`[]SquashRestores` for all values of the constants, `[]RegistersAccounted` (which
adds the assertions of the release path and that renaming does not starve) for
machines with enough registers. Move elimination puts a register behind several
logical ones and nothing in the code counts them, so conservation is not
inductive, and no count of references would be faithful. The invariant that is,
`AsRenamed`, says that the instructions in flight are renamed as if they were
renamed now, in order, from the architectural map and the ring at
`arch_deq_ptr`. The argument then runs:

- `Origin`: a register that an instruction reads or moves is x0's, in the
  architectural map, or was taken by an older instruction in flight. A chain of
  eliminated moves ends at one of these, so a source is never on offer.
- `MapMoves`: what a commit maps and what it displaces are together what was
  mapped and what the committing instructions took. `StillMapped` and
  `ListedBefore` (rat_map.sv 218-234) make this an equality: a register that
  loses one of its logical registers and keeps another is not released, one that
  loses two at once is released once.
- `RingMoves`, `LeavingMoves`: the ring gives up what was taken and gains what
  leaves, so the four places still hold all registers, each once.
- `MoveFlight` keeps `AsRenamed` when a cycle moves the cut between retired and
  in flight (`ReplayStep`, the lemma behind `SpecIsReplay`). A squash empties
  what is in flight; `SpecIsReplay` and the counters say that this is all it
  has to do.

`FL!Taken` counts the same registers as `Rename` does (`SameCounting`), and what
`Rename` returns and commits is what `FreeList` assumes of its users: the free
list's theorems hold inside the machine without an assumption left.

`Accounting` asks for `LREG_NUM + 2 * COMMIT_WIDTH` registers and for
`LREG_NUM - 1 + RENAME_WIDTH`: the architectural map holds at most 31, the two
registers of the return path four each, and the returned ones must not reach
`arch_deq_ptr`. The core satisfies both (79 registers against 40 and 35). The
instance of the `rename` run has 5 registers where the first asks for 7; there the
assertions hold because the ROB's two entries bound what can be on the way, so
the run and the theorem cover different machines.

The third part of `Rename_proofs` proves `[]OldestCanExecute` and
`DataSpec => ImplementsProgramOrder`: that renaming does what it is for, for any
number of registers, ports and instructions, whatever is executed when and
whatever is squashed. `DataInv` adds to `Rename`'s invariant

- `Follows`: the instructions in flight are those of the program, each with its
  source looked up in the architectural map as the older ones leave it. It is
  kept like `AsRenamed`, by moving the cut (`FollowsRest`, `FollowsJoined`);
- `MapReady`: every register of the architectural map holds its value;
- `Computed`: what an instruction has computed is the complement of its source,
  which still is what it was.

`Computed` speaks of one instruction and of no order, so nothing has to be said
about which instruction executes when; it is kept because nobody writes what
another holds. `Held` is what the map, x0 and the ROB hold; a mark on the group
that enters the ROB is on none of it (`MarkApart`), an execution writes a
register that is not in the map and no other instruction took (`ExecuteWrites`).
Both are `TakenApart`: a register in flight was taken from the ring once, and
the ring and the map share none. A register that is reused keeps the value of its
last life until the group of its new owner enters the ROB; no property of the
group in rename is needed, since nobody in the ROB reads from it. For the
refinement, `RetireOne` shows that one instruction more, written to the map,
shows what `ProgramOrder` computes, and `OneRun` that the recursive function by
which it executes n instructions has the one solution that is built from them.
`NotReady` is assumed to be no value.

`Ftq_proofs` proves `[]RingConsistent`, `[]ReadsOwn`, `[]OnlyStallLoses` and
`Spec => ImplementsQueue` for any number of entries from 2 on, with any stalls,
restarts, delays of the cache and sets of blocks in the back end. None of the
three is inductive. A slot number does not say who still needs the entry, and
`ReadsOwn` survives a prediction only if the entry written is behind everything
that is fetched, corrected or executed; that commit does not pass a block in
flight depends in turn on the order in which the back end names its blocks. The
inductive invariant, `Inv`, therefore counts: there are n and f such that n blocks
are in the ring behind `commit_ptr`, f of them asked of the cache (`Shape`), and

- `Pointers`: `pred_ptr` and `fetch_ptr` are n and f places behind `commit_ptr`,
  the flip bits differ exactly when the n blocks wrap, the valid bits are theirs,
  and the commit limit is not past them;
- `Stages`: the blocks in s1, s2 and at the instruction buffer are the last ones
  asked for, in order;
- `Backend`: the back end's are older, in order, and the commit limit is behind
  none of them, except between a misprediction and its squash, when it has been
  moved past the branch;
- `Fresh`: no branch has written an entry not yet delivered or not yet executed;
- `Stream`: the positions of the blocks not yet delivered follow each other up
  to the one predicted next; behind a false prediction they do not, but the
  corrected block is the one about to be delivered, and all the others go.

Slots and flip bits, which FTQ.sv compares, become numbers by `Place` and
`Behind`, and the lemmas on them are the only ones that unfold the modulus. A
cycle is then proved in two moves. First, where everything is, counted from where
`commit_ptr` was: `RingMoves` (prediction, fetch, stall and correction on the
pointers), `StagesMove` (the fetcher), `BackMoves` and `BackOrder` (delivery,
execution and squash on the back end's list), `OwnMoves` and `StreamMoves` (what
the entries hold). Then the same counted from where `commit_ptr` is, one place
further if it committed (the lemmas named `Rebase`). `SquashKeeps` is the cycle
of a squash, in which the ring is cut at the commit limit. For the refinement,
`QueueIs` reads the ring as the sequence of its n blocks and `QueueStep` shows
that a cycle takes off its front what commits, off its end what is taken back,
and appends what is predicted. `POS`, which stands for the addresses, exceeds
`FTQ_SIZE` so that no two blocks of the ring have one position and the
properties can tell them apart.

`Serialize_proofs` proves `[]SyncedAtCommit`, `[]OneWriter` and
`[]SerialisedAlone` for any size of the buffer, the queues and the widths, and any
order in which the units finish, mispredict and fault. That the registers agree at
a commit says nothing of the cycles before it, so the invariant, `Inv`, says where
the one system instruction is that may be ahead of the reference:

- `Placed` and `InOrder`: every instruction is where some unit holds it, and the
  dispatch queue gives out its instructions in order; so when the head still waits
  there nothing is in IQ0 or IQ1, and the assertion that IQ0 takes it holds without
  a fairness of any kind (`SystemTaken`).
- `Alone`: a system instruction outside the dispatch queue is the head, and
  `status` is 3 until it has committed.
- `Unit`: the system unit is empty, or holds the head with what was read from the
  registers as they still are, since nobody else writes them meanwhile.
- `Reasons`: what `shr` names has finished, so while a trap is taken or a squash
  sent the head is a finished instruction and the unit is empty (`HeadFinished`,
  `UnitRests`): this is why a write, a trap and a return never meet.
- `InStep`: the registers are those of the reference, but for a head that has
  finished and not committed, or for a trap, which the reference takes when it
  is recorded and the core a cycle later. In the cycle of a squash they are
  equal: the head that is thrown away has done nothing.

`RememberedFacts` shows that the oldest report wins and that the unit's is the
oldest there can be, `MovedFacts` what a cycle makes of each instruction, and
`Turn` is a cycle without the choice of its inputs; each part of the invariant has
its lemma (`UnitKept`, `InStepKept` and so on). `Taken` and `RefAfter` are recursive
functions: that their equations have a solution follows from the least index up to
which none would exist (`StepsAdd`, `TakenDef`), and `CommittedRef`, that every
committed prefix leaves the reference with the registers of the core, from the
least prefix that does not.

`MemOrder_proofs` proves that loads and stores take effect in program order:
`ImplementsSequentialMemory`, and with it `[]QueuesConsistent` and
`[]StaleLoadsKnown`, for queues, reorder buffer, word and set of instructions of
any size and any widths of dispatch, issue and commit. The theorems have the two
hypotheses that the code does not always satisfy, as statements about the
behaviour: `[]SqIndexTellsAge`, that comparing two indices tells which
instruction is older (finding 2), and `[]ReportedStay`, that no load retires
while a report about it is in `violation` or `mem_except` (finding 1). They say
that these are the only two ways in which memory order can go wrong. `QueuesKept`
needs neither: whatever else goes wrong, the virtual queues, the real ones and
the ROB agree about what is where.

When each of the two holds is proved as well, for machines of every size, the core
among them:

- `IndexWithinTurn`: an index is older than that of a load exactly if its store is
  older and less than the whole store queue lies between the two;
- `IndexNeedsRoom`: so `SqIndexTellsAge` holds exactly in the states in which no load
  has the whole store queue in front of it (`RoomBehind`);
- `IndexTellsAge`: and that it always does if no load is dispatched behind
  `ST_ISSUE_WIDTH` stores of its own group (`GroupLeavesRoom`): the room that
  virtualLSQ.sv 64 asks for is for that many, one too few for the load;
- `ReportInTime`: while the indices tell ages, a reported load retires in no other
  way than the race (`NoRace`: in the commit group of a store in front of it, with
  the report in `mem_except`), by the argument of `RetiresOnlyBehindStore`;
- `MemoryKept`: so everything holds in a behaviour that has `RoomBehind` and
  `NoRace` throughout.

Slots and flip bits become numbers first. `Numbered` says that an instruction's
index is as many places behind the slot freed next as there are stores, or loads,
in front of it, and that head and counter are those of the end; a cycle that
commits, dispatches and wraps moves it by counting only (`NumberedStep`).
`QueueInv`, which holds for all values, is

- `Typed` and `Numbering`: the above, for both queues;
- `StoresHeld`: an entry of the store queue is that of a store in flight; its mask
  and data are the store's once valid, both are valid when the store is finished;
- `LoadsHeld`: an entry of the load queue is valid exactly when its load has
  executed, and a load is not finished before;
- `Piped`: what is in s1, s2 and s3 is in flight and not finished, one load once.

To it come

- `RoomBehind`: no load has a whole turn of the store queue in front of it. In the
  presence of `QueueInv` this is what `SqIndexTellsAge` says (`AgeMeant`,
  `AgeNeedsRoom`, from `IndexOrder` on two indices);
- `Reported`: what is reported is in flight;
- `Seen`: a load in s1 has found every older store that has an address and writes
  one of its bytes, and nothing else that has data. A store that gets its address
  between s0 and s1 is not found; it finds the load (`Found`);
- `ValuesRight`: a load that has executed and is not behind a reported one
  (`Covered`) returned, byte by byte, what the youngest older store with a known
  address writes, or what is in memory if there is none.

The last is what makes the proof go through: it says nothing of stores without
address, so it holds from the moment the load has its value. It is
established by `Forwarded` (the entry that the forwarding network selects by
distance is the youngest store: `NearerYounger`, `EntryNewest`) and kept by
`ByteNext`: what commits to memory is what was found in the queue, also when
several stores to a byte commit at once (`Commits`) and when the read of memory
comes before or after the write of the same edge. A store that gets its
address and writes such a byte reports the load, and a load behind a reported one
stays so until a squash (`CoveredNext`: of several reports the oldest is kept).
When all older stores have addresses, `ValuesRight` is what `SequentialMemory`
returns (`ValueMeant`, `AfterFirst`), which is `StaleLoadsKnown`; a load that
retires is such a load and not covered, which is the refinement
(`SequentialStep`, with `ProgramAfter` for the program in flight). `Turn` is a
cycle without the choice of its inputs.

`Harness_proofs` proves `[]FailureEndsRun`, `[]AlarmIsReal`, `[]TraceIsWindow` and
`[]BooksAgree` for any command lines, any instructions with any errors, and any
sizes. Between two turns of the loop the invariant, `Inv`, is short:

- `Consecutive`: the instructions in flight have consecutive numbers and positions,
  the last just below the next one fetched, and each finds its own record. A new
  record lands in a slot of none of them because `RING` is at least `CAPACITY`;
- `InStep`: while it compares, the reference is where the oldest of them is;
- `Judged`: a run that has not been stopped has seen no error and no exit; one that
  was stopped as failed has seen an error;
- `WindowKept`: `enable_flag` is on exactly in the window, and what is printed is
  what is due (`Due`: said in the window, and not after the message of an
  instruction that was an exit or went wrong), with nothing left in a buffer;
- `IdleBounded`: the idle count passes its limit only to stop the run.

What makes it more than that is the order of the calls within one turn. An error
prints the buffers, closes the window and stops the comparison in the middle of a
group; the commits after it, a trap and the end of the tick still come, emit,
step and print. `Within` is therefore the state after k commits of a tick, with a
half for the trace (`TracedTo`: what is due so far is printed or, while the flags
are on, held; after `clearFlags` nothing more is due) and one for the comparison
(`Judging`). `CommitKeeps` is
one commit, in the cases of the exit, of a difference and of neither; after it the
commits of a turn (`CommittedKeeps`), the alarm before them and the trap behind
them (`ActiveTurned`) are counting. That `failAt` and `quitAt` are the tick itself or 0
is what `FailureEndsRun` needs when both come in one cycle: then the last
`mark_exit` decides, and only then does a failure end with code 0.

That debug-start and debug-end are numbers is proved of the parser: `Sound` says
that a numeric option holds what reads as a number, and every way of reading an
argument keeps it. The parser and the commits of a turn are recursive functions on
a bounded domain; that they exist, and what holds of their values, is proved from
the least index at which it would fail, as for `Serialize`.

The assumptions are those the modules state: widths between 1 and the depth
(one conditional subtraction wraps a pointer), a finite set of registers, for
`ROB` that the content of an unused slot is not taken for a kind, for `Ftq` at
least two entries, for `Serialize` a port at the dispatch queue and issue queues
that can be ready at all, for `MemOrder` that sizes and widths are numbers, groups
fit into the empty queues and every instruction is a load or a store of some byte,
for `Harness` that the ring of records holds at least what is in flight (300 in
statistics.cpp against 128 in the ROB and what is in front of it), that a wrong
next pc is that of a branch, that an argument has one of the forms the parser
tells apart, and that what reads as a number is one.

Only model-checked: `FormsAgree`, since that two readings of every command line
agree is induction over the line, with a statement about all pairs of parser
states; the agreement of the instruction tables, which is evaluation and not
argument; and liveness, which is out of the prover's reach.

## 7. Not modelled

The issue queues and their speculative wake-up (plan, item 4) and the store sets,
which predict for them; the arithmetic of the units (combinational data), the
predictors' tables (hints: any content is safe), fetch exceptions, caches and MMU
(stubs over `pmem_read` in this commit; `cache_sram.sv` is not instantiated),
interrupts (`has_interrupt` is wired to 0 in ROB.sv 132) and sret, of which the
core has none. In the simulator: its memory (memSim.cpp), the performance
counters, how the disassembler spells arguments, and its rows under `if (false)`.
