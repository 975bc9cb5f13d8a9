------------------------------- MODULE Rename -------------------------------
(***************************************************************************)
(* Register renaming: rename.sv, renametable.sv, rat_map.sv and the free   *)
(* list of FreeList.tla.  A group of decoded instructions is renamed per   *)
(* cycle against the speculative map, with bypassing inside the group; a   *)
(* move is eliminated by mapping its destination to its source's register, *)
(* so a physical register may stand behind several logical ones and no     *)
(* count is kept of how many.  Commits write the architectural map, and    *)
(* the registers they displace return to the free list through two         *)
(* registers: prev_saved, where those still mapped or listed twice are     *)
(* dropped, and dealloc.  A squash copies the architectural map back.      *)
(*                                                                         *)
(* The reorder buffer is here only the queue of renamed instructions: any  *)
(* prefix of up to COMMIT_WIDTH may commit, and any cycle may squash.      *)
(***************************************************************************)
EXTENDS Integers, Sequences, FiniteSets, FiniteSetsExt

CONSTANTS
  LREG_NUM,                                 \* logical registers, 0 is x0
  PhysRegs, RENAME_WIDTH, COMMIT_WIDTH,     \* see FreeList
  Zero,                                     \* physical register 0, behind x0
  ROB_SIZE,                                 \* bound: instructions in the ROB
  DecInsts                                  \* the decoded instructions that occur

LRegs == 0 .. LREG_NUM - 1

ASSUME SizesAssumption == LREG_NUM \in Nat \ {0} /\ ROB_SIZE \in Nat

\* as for the free list
ASSUME PhysRegsAssumption == IsFiniteSet(PhysRegs)
ASSUME RenameWidthAssumption == RENAME_WIDTH \in 1 .. Cardinality(PhysRegs)
ASSUME CommitWidthAssumption == COMMIT_WIDTH \in 1 .. Cardinality(PhysRegs)

(* rd = 0 stands for rd_wen = 0: the decoder clears ilrd_idx then.  One     *)
(* source is kept, the one a move copies.                                   *)
ASSUME DecInstsAssumption ==
  DecInsts \subseteq [rd : LRegs, ismv : BOOLEAN, rs : LRegs]

ASSUME ZeroAssumption == Zero \notin PhysRegs

VARIABLES
  buffer, enq_ptr, deq_ptr, arch_deq_ptr, count, arch_count,  \* free list
  spec_mapping, arch_mapping,
  prev_saved,      \* arch_prevRenamed_prd_idx_saved
  dealloc,         \* dealloc_iprd_idx, Zero where dealloc_vld is not set
  renamed,         \* rename_vld / renameInfo: the group handed to dispatch
  rob              \* renamed instructions waiting to commit, oldest first

flVars == <<buffer, enq_ptr, deq_ptr, arch_deq_ptr, count, arch_count>>
vars == <<flVars, spec_mapping, arch_mapping, prev_saved, dealloc, renamed, rob>>

FL == INSTANCE FreeList

PRegs == PhysRegs \union {Zero}
CommitPorts == 1 .. COMMIT_WIDTH
Renamings == [rd : LRegs, prd : PRegs, ismv : BOOLEAN, prs : PRegs]

Init ==
  /\ FL!Init
  /\ spec_mapping = [l \in LRegs |-> Zero]
  /\ arch_mapping = [l \in LRegs |-> Zero]
  /\ prev_saved = [c \in CommitPorts |-> Zero]
  /\ dealloc = [c \in CommitPorts |-> Zero]
  /\ renamed = << >>
  /\ rob = << >>

-----------------------------------------------------------------------------
\* Renaming a group.

HasRd(inst) == inst.rd # 0
Allocates(inst) == HasRd(inst) /\ ~inst.ismv
NumAlloc(insts) == Cardinality({i \in DOMAIN insts : Allocates(insts[i])})

\* slots before i of the group that write logical register l
WritersBefore(g, i, l) == {k \in 1 .. i - 1 : HasRd(g[k]) /\ g[k].rd = l}

\* the register a slot is given: the free list's outputs go to the slots that
\* ask, in order
AllocFor(g, i) == FL!AllocReg(NumAlloc(SubSeq(g, 1, i - 1)))

\* mutant: no bypass inside the group
SourceReg_NoBypass(g, prd, i) == spec_mapping[g[i].rs]

\* sources read the map, or the youngest older writer in the group
SourceReg(g, prd, i) ==
  LET older == WritersBefore(g, i, g[i].rs)
  IN IF older = {} THEN spec_mapping[g[i].rs] ELSE prd[Max(older)]

\* the register that slot i of the group gets, when the slots before it got prd
NewReg(g, prd, i) ==
  IF g[i].ismv THEN SourceReg(g, prd, i) ELSE IF HasRd(g[i]) THEN AllocFor(g, i) ELSE Zero

RenamedGroup(g) ==
  LET prd[i \in DOMAIN g] == NewReg(g, prd, i)
  IN [i \in DOMAIN g |-> [rd |-> g[i].rd, prd |-> prd[i], ismv |-> g[i].ismv,
                          prs |-> SourceReg(g, prd, i)]]

\* a map after the instructions of s, oldest first, have written it
Written(map, s) ==
  [l \in LRegs |-> LET w == {k \in DOMAIN s : HasRd(s[k]) /\ s[k].rd = l}
                   IN IF w = {} THEN map[l] ELSE s[Max(w)].prd]

-----------------------------------------------------------------------------
\* Commit, and the way a displaced register takes to the free list.

\* The register that commit port c displaces.  An older instruction of the
\* same group with the same ilrd_idx is looked at first; the code does not ask
\* there whether either writes a register.
Displaced(done, c) ==
  LET same == {k \in 1 .. c - 1 : done[k].rd = done[c].rd}
  IN IF same # {} THEN done[Max(same)].prd
     ELSE IF HasRd(done[c]) THEN arch_mapping[done[c].rd] ELSE Zero

\* mutant: move elimination is forgotten
StillMapped_Never(p) == FALSE

StillMapped(p) == \E l \in LRegs \ {0} : arch_mapping[l] = p
ListedBefore(c) == \E k \in 1 .. c - 1 : prev_saved[k] = prev_saved[c]

\* bits_dealloc
Releases(c) == prev_saved[c] # Zero /\ ~StillMapped(prev_saved[c]) /\ ~ListedBefore(c)

\* What reorder.sv hands to the free list this cycle: the registers of the valid
\* ports, each at its sel_offset.
Freed ==
  LET vld == {c \in CommitPorts : dealloc[c] # Zero}
      sel_offset(c) == Cardinality({d \in vld : d <= c})
  IN [k \in 1 .. Cardinality(vld) |-> dealloc[CHOOSE c \in vld : sel_offset(c) = k]]

CommitCycle(n) ==
  LET done == SubSeq(rob, 1, n)
  IN /\ arch_mapping' = Written(arch_mapping, done)
     /\ prev_saved' = [c \in CommitPorts |-> IF c <= n THEN Displaced(done, c) ELSE Zero]
     /\ dealloc' = [c \in CommitPorts |-> IF Releases(c) THEN prev_saved[c] ELSE Zero]

Commits == 0 .. (IF Len(rob) < COMMIT_WIDTH THEN Len(rob) ELSE COMMIT_WIDTH)
Groups == UNION {[1 .. k -> DecInsts] : k \in 0 .. RENAME_WIDTH}

\* dispatch takes the renamed group (i_stall = 0)
Dispatched(n) ==
  /\ Len(rob) + Len(renamed) <= ROB_SIZE
  /\ rob' = SubSeq(rob, n + 1, Len(rob)) \o renamed

-----------------------------------------------------------------------------
\* One clock cycle: what renaming does, and n instructions committing.

RenameGroup(g, n) ==
  /\ Dispatched(n)
  /\ FL!CanAlloc(NumAlloc(g))
  /\ FL!Cycle(NumAlloc(g), Freed, NumAlloc(SubSeq(rob, 1, n)), FALSE)
  /\ renamed' = RenamedGroup(g)
  /\ spec_mapping' = Written(spec_mapping, RenamedGroup(g))
  /\ CommitCycle(n)

\* o_can_rename = 0: the group stays in decode and dispatch gets nothing
RenameRefused(g, n) ==
  /\ Dispatched(n)
  /\ ~FL!CanAlloc(NumAlloc(g))
  /\ FL!Cycle(NumAlloc(g), Freed, NumAlloc(SubSeq(rob, 1, n)), FALSE)
  /\ renamed' = << >>
  /\ CommitCycle(n)
  /\ UNCHANGED spec_mapping

\* dispatch has no room somewhere; i_has_rd is masked
DispatchStall(n) ==
  /\ FL!Cycle(0, Freed, NumAlloc(SubSeq(rob, 1, n)), FALSE)
  /\ rob' = SubSeq(rob, n + 1, Len(rob))
  /\ CommitCycle(n)
  /\ UNCHANGED <<spec_mapping, renamed>>

\* mutant: the group on its way to dispatch survives
Squash_KeepsGroup ==
  /\ FL!Cycle(0, Freed, 0, TRUE)
  /\ spec_mapping' = arch_mapping
  /\ rob' = << >>
  /\ CommitCycle(0)
  /\ UNCHANGED renamed

\* i_squash_vld; the ROB masks the commits it shows to renaming.  The requests
\* of the group in decode change nothing: the resteer overrides them.
Squash ==
  /\ FL!Cycle(0, Freed, 0, TRUE)
  /\ spec_mapping' = arch_mapping
  /\ renamed' = << >>
  /\ rob' = << >>
  /\ CommitCycle(0)

Next ==
  \/ \E n \in Commits : \/ \E g \in Groups : RenameGroup(g, n) \/ RenameRefused(g, n)
                        \/ DispatchStall(n)
  \/ Squash

Spec == Init /\ [][Next]_vars

-----------------------------------------------------------------------------
(* Properties *)

\* Both maps give physical registers and keep register 0 (rat_map.sv:109-155); a
\* group in rename and the ROB stay within their sizes.
TypeOK ==
  /\ FL!TypeOK
  /\ spec_mapping \in [LRegs -> PRegs] /\ spec_mapping[0] = Zero
  /\ arch_mapping \in [LRegs -> PRegs] /\ arch_mapping[0] = Zero
  /\ prev_saved \in [CommitPorts -> PRegs]
  /\ dealloc \in [CommitPorts -> PRegs]
  /\ \A i \in DOMAIN renamed : renamed[i] \in Renamings
  /\ \A i \in DOMAIN rob : rob[i] \in Renamings
  /\ Len(renamed) <= RENAME_WIDTH /\ Len(rob) <= ROB_SIZE

SeqRange(s) == {s[i] : i \in DOMAIN s}

InFlight == rob \o renamed
Mapped == {arch_mapping[l] : l \in LRegs} \ {Zero}
Pending == SeqRange(prev_saved) \ (Mapped \union {Zero})
Leaving == SeqRange(dealloc) \ {Zero}
RingRegs == {FL!Taken[i] : i \in DOMAIN FL!Taken} \union {FL!Free[i] : i \in DOMAIN FL!Free}

\* No register is lost and none is freed twice, through move elimination, the
\* same-group bypass and the two-cycle return path: every physical register is
\* in exactly one of the ring, the architectural map and the two registers of
\* the return path, and there once.
RegistersConserved ==
  /\ FL!NoDuplicate
  /\ \A c, d \in CommitPorts : dealloc[c] = dealloc[d] /\ dealloc[c] # Zero => c = d
  /\ \A S, T \in {<<1, RingRegs>>, <<2, Mapped>>, <<3, Pending>>, <<4, Leaving>>} :
       S # T => S[2] \intersect T[2] = {}
  /\ RingRegs \union Mapped \union Pending \union Leaving = PhysRegs

\* The speculative map is the architectural one with every instruction in
\* flight applied in order: what commits would make of it, and what a squash
\* must undo.
SpecIsReplay == spec_mapping = Written(arch_mapping, InFlight)

\* The ring remembers the hand-outs in program order: the registers between
\* arch_deq_ptr and deq_ptr are the destinations of the instructions in flight.
TakenInOrder ==
  /\ Len(FL!Taken) = NumAlloc(InFlight)
  /\ \A i \in DOMAIN InFlight :
       Allocates(InFlight[i]) => FL!Taken[NumAlloc(SubSeq(InFlight, 1, i))] = InFlight[i].prd

\* A register that an instruction in flight still has to read is not on offer,
\* not on its way back, and not the destination of that instruction or of a
\* younger one.
SourcesStayLive ==
  \A i \in DOMAIN InFlight : LET p == InFlight[i].prs IN
    /\ p \notin SeqRange(FL!Free) \union Pending \union Leaving
    /\ \A k \in i .. Len(InFlight) :
         Allocates(InFlight[k]) /\ p # Zero => InFlight[k].prd # p

\* The assertions of freelist.sv 62 (a returned register finds room), fifo.sv 90
\* (and does not land on arch_deq_ptr) and rat_map.sv 262 (a register given up
\* is not mapped).  The second needs more registers than the architectural map
\* and the return path can hold.
ReleaseAssertions ==
  /\ FL!CanEnq(Freed)
  /\ \A i \in 1 .. Len(Freed) : FL!Wrap(enq_ptr + i - 1) # arch_deq_ptr
  /\ \A c \in CommitPorts : dealloc[c] # Zero => ~StillMapped(dealloc[c])

\* Renaming cannot starve for good: with nothing in flight and the return path
\* empty, a full group finds its registers.
DrainedCanRename ==
  InFlight = << >> /\ Pending = {} /\ Leaving = {} => FL!CanAlloc(RENAME_WIDTH)

\* The registers are accounted for: the four statements on where they are, what
\* the assertions on the return path say and what is left for the next group.
RegistersAccounted ==
  TypeOK /\ RegistersConserved /\ ReleaseAssertions /\ DrainedCanRename

\* A squash can undo what renaming has done: the map and the ring both remember
\* the instructions in flight, in order.
SquashRestores == SpecIsReplay /\ TakenInOrder
=============================================================================
