------------------------------ MODULE FreeList ------------------------------
(***************************************************************************)
(* The free list of the integer physical registers: freelist.sv around a   *)
(* fifo.sv built with USE_RENAME.  The registers sit in a ring of DEPTH    *)
(* slots.  Three pointers cut it:                                          *)
(*                                                                         *)
(*    arch_deq_ptr ..... deq_ptr ............ enq_ptr ........ arch_deq_ptr *)
(*      handed out, not    free, to hand out    slots whose register is    *)
(*      yet committed                           in use or on its way back  *)
(*                                                                         *)
(* so that a resteer (a pipeline squash) takes every uncommitted register  *)
(* back by moving deq_ptr to arch_deq_ptr, without knowing which they are. *)
(*                                                                         *)
(* One step is one clock cycle.  Every port of the fifo has a pointer of   *)
(* its own (enq_ptr[i], deq_ptr[i]); port i always stands i slots after    *)
(* port 0, so one variable holds port 0's.                                 *)
(*                                                                         *)
(* Which register is which does not matter to anything here, so the        *)
(* registers are an uninterpreted set and reset may leave the ring in any   *)
(* order (fifo.sv numbers them: slot s holds register s + 1).               *)
(***************************************************************************)
EXTENDS Integers, Sequences, FiniteSets

CONSTANTS
  PhysRegs,       \* the physical registers but the constant zero, IPHYREG_NUM - 1
  RENAME_WIDTH,   \* registers that one cycle may hand out
  COMMIT_WIDTH    \* registers that one cycle may take back or make permanent

DEPTH == Cardinality(PhysRegs)
Slots == 0 .. DEPTH - 1

\* the pointers are wrapped with one conditional subtraction, so no step may
\* move them further than DEPTH
ASSUME PhysRegsAssumption == IsFiniteSet(PhysRegs)
ASSUME RenameWidthAssumption == RENAME_WIDTH \in 1 .. DEPTH
ASSUME CommitWidthAssumption == COMMIT_WIDTH \in 1 .. DEPTH

VARIABLES
  buffer,         \* the ring
  enq_ptr,        \* where the next returned register goes
  deq_ptr,        \* the next register to hand out
  arch_deq_ptr,   \* deq_ptr as it would be with nothing in flight
  count,          \* free registers: from deq_ptr up to enq_ptr
  arch_count      \* the same from arch_deq_ptr up to enq_ptr

vars == <<buffer, enq_ptr, deq_ptr, arch_deq_ptr, count, arch_count>>

\* mutant: compares with <=
Wrap_Late(p) == IF p <= DEPTH THEN p ELSE p - DEPTH

Wrap(p) == IF p < DEPTH THEN p ELSE p - DEPTH

Init ==
  /\ buffer \in {f \in [Slots -> PhysRegs] : \A s, t \in Slots : f[s] = f[t] => s = t}
  /\ enq_ptr = 0
  /\ deq_ptr = 0
  /\ arch_deq_ptr = 0
  /\ count = DEPTH
  /\ arch_count = DEPTH

-----------------------------------------------------------------------------
\* Combinational outputs.

\* the k-th register handed out this cycle, k from 0 (deq_data after redirect)
AllocReg(k) == buffer[Wrap(deq_ptr + k)]

\* o_can_alloc: at most RENAME_WIDTH ports can show a register
CanAlloc(n) == n <= (IF count < RENAME_WIDTH THEN count ELSE RENAME_WIDTH)

CanEnq(freed) == Len(freed) <= DEPTH - count

\* real_enq_vld, real_deq_vld: what really goes in and out this cycle
Enqueued(freed) == IF CanEnq(freed) THEN freed ELSE << >>
Dequeued(alloc) == IF CanAlloc(alloc) THEN alloc ELSE 0

\* mutant: the pointer is advanced before the write
Written_Late(enq) ==
  [s \in Slots |-> LET at == {i \in 1 .. Len(enq) : s = Wrap(Wrap(enq_ptr + 1) + i - 1)}
                   IN IF at = {} THEN buffer[s] ELSE enq[CHOOSE i \in at : TRUE]]

Written(enq) ==
  [s \in Slots |-> LET at == {i \in 1 .. Len(enq) : s = Wrap(enq_ptr + i - 1)}
                   IN IF at = {} THEN buffer[s] ELSE enq[CHOOSE i \in at : TRUE]]

\* mutant: a squash forgets what is returned in the same cycle
NextCount_Lossy(enq, deq, resteer) ==
  IF resteer THEN arch_count ELSE count + Len(enq) - deq

\* mutant: a squash restores the pointer and not the count
NextCount_Kept(enq, deq, resteer) == count + Len(enq) - (IF resteer THEN 0 ELSE deq)

NextCount(enq, deq, resteer) ==
  IF resteer THEN arch_count + Len(enq) ELSE count + Len(enq) - deq

NextArchCount(freed, committed) == arch_count - committed + Len(freed)

\* A clock edge.  "alloc" registers are requested, "freed" is what the
\* renaming table returns (compacted by reorder.sv), "committed" counts the
\* handed out registers whose instructions commit, and resteer is the squash.
Cycle(alloc, freed, committed, resteer) ==
  LET enq == Enqueued(freed)
      deq == Dequeued(alloc)
  IN /\ buffer' = Written(enq)
     /\ enq_ptr' = Wrap(enq_ptr + Len(enq))
     /\ deq_ptr' = IF resteer THEN arch_deq_ptr ELSE Wrap(deq_ptr + deq)
     /\ arch_deq_ptr' = Wrap(arch_deq_ptr + committed)
     /\ count' = NextCount(enq, deq, resteer)
     /\ arch_count' = NextArchCount(freed, committed)

-----------------------------------------------------------------------------
(***************************************************************************)
(* The environment: the renaming table.  It commits only registers it was  *)
(* handed before this cycle, commits nothing in a squash cycle (ROB.sv     *)
(* masks o_rename_commit), and returns only registers of the part of the   *)
(* ring that is in use.  Rename.tla shows that it keeps to this.           *)
(***************************************************************************)
InUse == {r \in PhysRegs :
            \A i \in 0 .. arch_count - 1 : buffer[Wrap(arch_deq_ptr + i)] # r}

Returns == {f \in UNION {[1 .. n -> InUse] : n \in 0 .. COMMIT_WIDTH} :
              \A i, j \in DOMAIN f : f[i] = f[j] => i = j}

Advance ==
  \E alloc \in 0 .. RENAME_WIDTH, freed \in Returns,
     committed \in 0 .. COMMIT_WIDTH :
    /\ committed <= arch_count - count
    /\ Cycle(alloc, freed, committed, FALSE)

Resteer ==
  \E alloc \in 0 .. RENAME_WIDTH, freed \in Returns :
    Cycle(alloc, freed, 0, TRUE)

Next == Advance \/ Resteer

Spec == Init /\ [][Next]_vars

-----------------------------------------------------------------------------
\* The pointers stay in the ring, the two counters between empty and full, and
\* the ring holds registers (fifo.sv:100-141).
TypeOK ==
  /\ buffer \in [Slots -> PhysRegs]
  /\ enq_ptr \in Slots
  /\ deq_ptr \in Slots
  /\ arch_deq_ptr \in Slots
  /\ count \in 0 .. DEPTH
  /\ arch_count \in 0 .. DEPTH

\* The three pointers and the two counters describe the same cut of the ring:
\* enq_ptr is count slots after deq_ptr and arch_count slots after
\* arch_deq_ptr, and what is free speculatively is free architecturally.  The
\* code keeps the five registers with separate additions (fifo.sv 79-141).
PointersAgree ==
  /\ count <= arch_count
  /\ enq_ptr = Wrap(deq_ptr + count)
  /\ enq_ptr = Wrap(arch_deq_ptr + arch_count)

\* No register is in the ring twice between arch_deq_ptr and enq_ptr: a
\* register that is free, or that a squash would make free, is so only once.
NoDuplicate ==
  \A i, j \in 0 .. arch_count - 1 :
    buffer[Wrap(arch_deq_ptr + i)] = buffer[Wrap(arch_deq_ptr + j)] => i = j

-----------------------------------------------------------------------------
(***************************************************************************)
(* What a free list with roll-back promises: the queues of FreeListAbs.    *)
(***************************************************************************)
Free == [i \in 1 .. count |-> buffer[Wrap(deq_ptr + i - 1)]]
Taken == [i \in 1 .. arch_count - count |-> buffer[Wrap(arch_deq_ptr + i - 1)]]

Abs == INSTANCE FreeListAbs WITH free <- Free, taken <- Taken

\* The ring is a free list with roll-back: each cycle hands out from the front
\* of one queue of registers, and a squash puts every register handed out and
\* not committed back in front, in order.
ImplementsAbs == Abs!Spec
=============================================================================
