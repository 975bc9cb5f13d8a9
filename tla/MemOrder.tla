------------------------------ MODULE MemOrder ------------------------------
(***************************************************************************)
(* Memory order: the virtual queue indices (virtualLSQ.sv), the store      *)
(* queue (storeQue.sv), the load queue (loadQue.sv) and the stages of the  *)
(* load and store units that read and write them (loadfu.sv, stafu.sv,     *)
(* stdfu.sv).  Loads run before older stores know their addresses; a store *)
(* that learns its address looks for younger loads that ran too early.     *)
(*                                                                         *)
(* One step is one clock cycle.  Everything happens within one aligned     *)
(* word; an access is a set of its bytes.  The reorder buffer is the       *)
(* sequence of the instructions dispatched to the queues: DataQue shows    *)
(* that its ages are their order.                                          *)
(***************************************************************************)
EXTENDS Integers, Sequences, FiniteSets

CONSTANTS
  LQSIZE, SQSIZE, ROB_SIZE,
  MEMDQ_DISP_WID,                    \* instructions dispatched in a cycle,
  LD_ISSUE_WIDTH, ST_ISSUE_WIDTH,    \* of them loads and stores
  LDU_NUM, STU_NUM,                  \* load units; store units, finish ports
  COMMIT_WIDTH,
  Bytes, Insts                       \* the loads and stores that occur

ASSUME InstsAssumption ==
  \A i \in Insts : i.op \in {"load", "store"} /\ i.mask \subseteq Bytes /\ i.mask # {}
ASSUME QueuesAssumption ==
  /\ LQSIZE \in Nat /\ SQSIZE \in Nat /\ ROB_SIZE \in Nat
  /\ MEMDQ_DISP_WID \in Nat /\ COMMIT_WIDTH \in Nat
  /\ LD_ISSUE_WIDTH \in 1 .. LQSIZE /\ ST_ISSUE_WIDTH \in 1 .. SQSIZE /\ STU_NUM \in 1 .. SQSIZE

VARIABLES
  rob,             \* instructions in flight, oldest first
  ldNum, stNum, lqhead, sqhead,                         \* virtualLSQ
  sq, st_deq_ptr, finish_ptr,                           \* storeQue
  lq, ld_deq_ptr,                                       \* loadQue
  s1,              \* loads in s1: s1_vaddr_match_vec and s1_data_match_vec
  s2, s3,          \* loads in s2 and load_finished
  violation,       \* loads found violating in the last cycle
  mem_except,      \* memBlock's except_vld and final_except, as a set
  shr,             \* the load that the ROB will not commit, as a set
  mem,
  loaded           \* history: what the loads that just retired returned

vlsqVars == <<ldNum, stNum, lqhead, sqhead>>
queueVars == <<sq, st_deq_ptr, finish_ptr, lq, ld_deq_ptr>>
pipeVars == <<s1, s2, s3, violation, mem_except, shr>>
vars == <<rob, vlsqVars, queueVars, pipeVars, mem, loaded>>

LqSlots == 0 .. LQSIZE - 1
SqSlots == 0 .. SQSIZE - 1

NotExecuted == << >>

Wrap(p, size) == IF p < size THEN p ELSE p - size

\* the index n after a: a slot and its flip bit
Index(a, n, size) ==
  [idx |-> Wrap(a.idx + n, size), flipped |-> IF a.idx + n < size THEN a.flipped ELSE ~a.flipped]

OlderThan(a, b) == IF a.flipped = b.flipped THEN a.idx < b.idx ELSE a.idx > b.idx

First == [idx |-> 0, flipped |-> FALSE]

\* what an entry holds while it is not valid is never looked at, and left out
EmptyStore == [addr_vld |-> FALSE, data_vld |-> FALSE, mask |-> {}, sqIdx |-> First, data |-> 0]
EmptyLoad == [vld |-> FALSE, mask |-> {}, sqIdx |-> First]

VlsqInit == ldNum = 0 /\ stNum = 0 /\ lqhead = First /\ sqhead = First

Init ==
  /\ rob = << >>
  /\ VlsqInit
  /\ sq = [s \in SqSlots |-> EmptyStore] /\ st_deq_ptr = 0 /\ finish_ptr = 0
  /\ lq = [l \in LqSlots |-> EmptyLoad] /\ ld_deq_ptr = 0
  /\ s1 = {} /\ s2 = {} /\ s3 = {}
  /\ violation = {} /\ mem_except = {} /\ shr = {}
  /\ mem \in [Bytes -> {0}]
  /\ loaded = << >>

-----------------------------------------------------------------------------
\* Dispatch.

NumOf(op, g) == Cardinality({i \in DOMAIN g : g[i].op = op})

\* LSQ_ready, virtualLSQ's o_can_enq: asks for room for a full group
LSQ_ready == ldNum <= LQSIZE - LD_ISSUE_WIDTH /\ stNum <= SQSIZE - ST_ISSUE_WIDTH

Groups ==
  {g \in UNION {[1 .. n -> Insts] : n \in 0 .. MEMDQ_DISP_WID} :
     /\ NumOf("load", g) <= LD_ISSUE_WIDTH
     /\ NumOf("store", g) <= ST_ISSUE_WIDTH
     /\ g # << >> => LSQ_ready}

\* o_alloc_lqIdx, o_alloc_sqIdx: the indices behind those of the group before it
Allocated(g) ==
  [i \in DOMAIN g |->
     [inst |-> g[i],
      lq |-> Index(lqhead, NumOf("load", SubSeq(g, 1, i - 1)), LQSIZE),
      sq |-> Index(sqhead, NumOf("store", SubSeq(g, 1, i - 1)), SQSIZE),
      fin |-> FALSE, val |-> NotExecuted]]

IsLoad(i) == rob[i].inst.op = "load"
IsStore(i) == rob[i].inst.op = "store"

\* the instructions in flight by their slots
Loads == {rob[i].lq.idx : i \in {j \in DOMAIN rob : IsLoad(j)}}
Stores == {rob[i].sq.idx : i \in {j \in DOMAIN rob : IsStore(j)}}
LoadAt(l) == CHOOSE i \in DOMAIN rob : IsLoad(i) /\ rob[i].lq.idx = l
StoreAt(s) == CHOOSE i \in DOMAIN rob : IsStore(i) /\ rob[i].sq.idx = s

OldestLoad(ls) == CHOOSE l \in ls : \A k \in ls : LoadAt(l) <= LoadAt(k)

-----------------------------------------------------------------------------
\* The store queue.

\* nxt_buff: what the store address units in s1 and the store data units write
NxtSq(stas, stds) ==
  [s \in SqSlots |->
     [addr_vld |-> sq[s].addr_vld \/ s \in stas,
      data_vld |-> sq[s].data_vld \/ s \in stds,
      mask |-> IF s \in stas THEN rob[StoreAt(s)].inst.mask ELSE sq[s].mask,
      sqIdx |-> IF s \in stas THEN rob[StoreAt(s)].sq ELSE sq[s].sqIdx,
      data |-> IF s \in stds THEN rob[StoreAt(s)].inst.data ELSE sq[s].data]]

\* vaddr_match_vec of a load in s0
Matches(l, nxt) ==
  {s \in SqSlots : nxt[s].addr_vld /\ OlderThan(nxt[s].sqIdx, rob[LoadAt(l)].sq)}

\* data_match_vec: those that write byte b of the load
Covering(l, nxt, b) == {s \in Matches(l, nxt) : b \in nxt[s].mask}

\* slots the load's index is ahead of slot s: newest_select takes the least of
\* them, since the stores' ages in the ROB run as their slots do
Distance(l, s) == LET d == rob[LoadAt(l)].sq.idx - s IN IF d > 0 THEN d ELSE d + SQSIZE

\* s1_match_byte_entry; with nothing to select from it is the last slot
Entry(r, b) ==
  IF r.bytes[b] = {} THEN SQSIZE - 1
  ELSE CHOOSE s \in r.bytes[b] : \A t \in r.bytes[b] : Distance(r.lq, s) <= Distance(r.lq, t)

\* mutant: takes whatever is in the data field
ForwardReady_Always(r) == TRUE

\* s1_data_rdy, asked when anything matches
ForwardReady(r) ==
  r.match # {} => \A b \in DOMAIN r.bytes : sq[Entry(r, b)].data_vld

\* what a load that leaves s1 gets, m being what the data cache reads
Merged(r, m) ==
  [b \in DOMAIN r.bytes |-> IF r.bytes[b] = {} THEN m[b] ELSE sq[Entry(r, b)].data]

\* mutant: stays at the last slot
FinishSlot_Stays(k) == IF finish_ptr + k < SQSIZE THEN finish_ptr + k ELSE SQSIZE - 1

FinishSlot(k) == Wrap(finish_ptr + k, SQSIZE)

\* o_fu_finished of port k
Finishes(k) == sq[FinishSlot(k)].addr_vld /\ sq[FinishSlot(k)].data_vld

FinishedPorts == {k \in 0 .. STU_NUM - 1 : Finishes(k)}

\* storeQue's registers, n stores committing
NextSq(nxt, n) ==
  LET gone == {Wrap(st_deq_ptr + k, SQSIZE) : k \in 0 .. n - 1}
  IN [s \in SqSlots |-> IF s \in gone THEN EmptyStore ELSE nxt[s]]

\* pmem_write, port after port
Committed(n) ==
  [b \in Bytes |->
     LET writers == {k \in 0 .. n - 1 : b \in sq[Wrap(st_deq_ptr + k, SQSIZE)].mask}
     IN IF writers = {} THEN mem[b]
        ELSE sq[Wrap(st_deq_ptr + (CHOOSE k \in writers : \A j \in writers : j <= k), SQSIZE)].data]

-----------------------------------------------------------------------------
\* The load queue.

\* nxt_buff, with the loads that leave s1
NxtLq(success) ==
  [l \in LqSlots |-> IF l \in success
                     THEN [vld |-> TRUE, mask |-> rob[LoadAt(l)].inst.mask, sqIdx |-> rob[LoadAt(l)].sq]
                     ELSE lq[l]]

\* mutant: looks at the registers, not at what the load units write in this cycle
Violates_Registered(s, nxt) ==
  {l \in LqSlots : /\ lq[l].vld /\ OlderThan(rob[StoreAt(s)].sq, lq[l].sqIdx)
                   /\ lq[l].mask \intersect rob[StoreAt(s)].inst.mask # {}}

\* violation_vec of the store in slot s
Violates(s, nxt) ==
  {l \in LqSlots : /\ nxt[l].vld /\ OlderThan(rob[StoreAt(s)].sq, nxt[l].sqIdx)
                   /\ nxt[l].mask \intersect rob[StoreAt(s)].inst.mask # {}}

-----------------------------------------------------------------------------
\* Commit: the finished instructions at the front, up to the load in shr.  The
\* reports are about loads in flight as long as none of them retires in the
\* cycle of its store: with COMMIT_WIDTH 1, or with no loads (see README).

CommitNum ==
  CHOOSE n \in 0 .. COMMIT_WIDTH :
    LET may(i) == i <= Len(rob) /\ rob[i].fin /\ ~(IsLoad(i) /\ rob[i].lq.idx \in shr)
    IN (\A i \in 1 .. n : may(i)) /\ (n = COMMIT_WIDTH \/ ~may(n + 1))

NextRob(g, n, success, value) ==
  LET finished(i) == \/ IsLoad(i) /\ rob[i].lq.idx \in s3
                     \/ IsStore(i) /\ \E k \in FinishedPorts : rob[i].sq.idx = FinishSlot(k)
      step(i) == [rob[i] EXCEPT !.fin = @ \/ finished(i),
                                !.val = IF IsLoad(i) /\ rob[i].lq.idx \in success
                                        THEN value[rob[i].lq.idx] ELSE @]
  IN [i \in 1 .. Len(rob) - n |-> step(i + n)] \o Allocated(g)

Oldest(ls) == IF ls = {} THEN {} ELSE {OldestLoad(ls)}

\* A clock edge.  g: the group dispatched; issue: the loads in s0; stas, stds:
\* the stores in s1 of the address units, and in the data units; racing: the
\* loads whose read of memory comes after this edge's pmem_write.
Cycle(g, issue, stas, stds, racing) ==
  LET n == CommitNum
      done == SubSeq(rob, 1, n)
      stores == NumOf("store", [i \in 1 .. n |-> done[i].inst])
      loads == n - stores
      nxt == NxtSq(stas, stds)
      ready == {r \in s1 : ForwardReady(r)}
      success == {r.lq : r \in ready}
      mem1 == Committed(stores)
      value == [l \in success |-> Merged(CHOOSE r \in ready : r.lq = l,
                                        IF l \in racing THEN mem1 ELSE mem)]
  IN /\ rob' = NextRob(g, n, success, value)
     /\ ldNum' = ldNum + NumOf("load", g) - loads
     /\ stNum' = stNum + NumOf("store", g) - stores
     /\ lqhead' = Index(lqhead, NumOf("load", g), LQSIZE)
     /\ sqhead' = Index(sqhead, NumOf("store", g), SQSIZE)
     /\ sq' = NextSq(nxt, stores)
     /\ st_deq_ptr' = Wrap(st_deq_ptr + stores, SQSIZE)
     /\ finish_ptr' = IF Finishes(0) THEN FinishSlot(Cardinality(FinishedPorts)) ELSE finish_ptr
     /\ lq' = [l \in LqSlots |->
                 IF \E k \in 0 .. loads - 1 : l = Wrap(ld_deq_ptr + k, LQSIZE)
                 THEN EmptyLoad ELSE NxtLq(success)[l]]
     /\ ld_deq_ptr' = Wrap(ld_deq_ptr + loads, LQSIZE)
     /\ s1' = {[lq |-> l, match |-> Matches(l, nxt),
                 bytes |-> [b \in rob[LoadAt(l)].inst.mask |-> Covering(l, nxt, b)]] : l \in issue}
     /\ s2' = success
     /\ s3' = s2
     /\ violation' = UNION {Oldest(Violates(s, NxtLq(success))) : s \in stas}
     /\ mem_except' = Oldest(violation)
     /\ shr' = IF shr = {} THEN mem_except ELSE Oldest(shr \union mem_except)
     /\ mem' = mem1
     /\ loaded' = [i \in 1 .. n |-> done[i].val]

\* mutant: the virtual queues are not reset
Squash_KeepsIndices ==
  /\ rob' = << >>
  /\ sq' = [s \in SqSlots |-> EmptyStore]
  /\ st_deq_ptr' = 0 /\ finish_ptr' = 0
  /\ lq' = [l \in LqSlots |-> EmptyLoad] /\ ld_deq_ptr' = 0
  /\ s1' = {} /\ s2' = {} /\ s3' = {}
  /\ violation' = {} /\ mem_except' = {} /\ shr' = {}
  /\ loaded' = << >>
  /\ UNCHANGED <<vlsqVars, mem>>

\* i_squash_vld: the queues, the indices and the pipelines are reset, and what
\* commits in this cycle is not seen by them
Squash ==
  /\ rob' = << >>
  /\ ldNum' = 0 /\ stNum' = 0 /\ lqhead' = First /\ sqhead' = First
  /\ sq' = [s \in SqSlots |-> EmptyStore]
  /\ st_deq_ptr' = 0 /\ finish_ptr' = 0
  /\ lq' = [l \in LqSlots |-> EmptyLoad] /\ ld_deq_ptr' = 0
  /\ s1' = {} /\ s2' = {} /\ s3' = {}
  /\ violation' = {} /\ mem_except' = {} /\ shr' = {}
  /\ loaded' = << >>
  /\ UNCHANGED mem

-----------------------------------------------------------------------------
(* What the rest of the machine may do in a cycle. *)

AtMost(n, set) == {x \in SUBSET set : Cardinality(x) <= n}

Unexecuted == {l \in Loads : rob[LoadAt(l)].val = NotExecuted}
InS1 == {r.lq : r \in s1}

\* a load waits for the answer of s1 before it is issued again
Issuable == Unexecuted \ InS1
NoAddress == {s \in Stores : ~sq[s].addr_vld}
NoData == {s \in Stores : ~sq[s].data_vld}

\* the oldest instruction with something left to issue, if there is one
ToIssue == {i \in DOMAIN rob : IF IsLoad(i) THEN rob[i].lq.idx \in Unexecuted
                               ELSE rob[i].sq.idx \in NoAddress \union NoData}

OldestIssued(issue, stas, stds) ==
  \A i \in ToIssue : (\A j \in ToIssue : i <= j) =>
    IF IsLoad(i) THEN rob[i].lq.idx \in issue \union InS1
    ELSE /\ rob[i].sq.idx \in NoAddress => rob[i].sq.idx \in stas
         /\ rob[i].sq.idx \in NoData => rob[i].sq.idx \in stds

Advance(groups, serving) ==
  \E g \in groups, issue \in AtMost(LDU_NUM, Issuable), stas \in AtMost(STU_NUM, NoAddress),
     stds \in AtMost(STU_NUM, NoData), racing \in SUBSET InS1 :
    /\ Len(rob) - CommitNum + Len(g) <= ROB_SIZE
    /\ serving => OldestIssued(issue, stas, stds)
    /\ Cycle(g, issue, stas, stds, racing)

\* the load that shr names is finished and at the head
SquashDue == rob # << >> /\ IsLoad(1) /\ rob[1].fin /\ rob[1].lq.idx \in shr

Next == Advance(Groups, FALSE) \/ Squash

Spec == Init /\ [][Next]_vars

\* something is left to do even if nothing more is dispatched
Busy == ENABLED <<Advance({<< >>}, TRUE)>>_vars

\* The clock ticks, the oldest instruction that waits is issued sooner or later
\* (its operands come from older ones), and the ROB squashes on the load that it
\* may not commit.  Nothing has to be dispatched.
FairSpec ==
  Spec /\ WF_vars(Busy /\ Advance(Groups, TRUE)) /\ WF_vars(SquashDue /\ Squash)

-----------------------------------------------------------------------------
(* Properties *)

SqIndices == [idx : SqSlots, flipped : BOOLEAN]
LqIndices == [idx : LqSlots, flipped : BOOLEAN]

\* The counters and pointers of the three queues stay in range, though the room
\* check looks at whole groups only (virtualLSQ.sv:64-117).
TypeOK ==
  /\ \A i \in DOMAIN rob : /\ rob[i].inst \in Insts /\ rob[i].fin \in BOOLEAN
                          /\ rob[i].lq \in LqIndices /\ rob[i].sq \in SqIndices
  /\ Len(rob) <= ROB_SIZE
  /\ ldNum \in 0 .. LQSIZE /\ stNum \in 0 .. SQSIZE
  /\ lqhead \in LqIndices /\ sqhead \in SqIndices
  /\ st_deq_ptr \in SqSlots /\ finish_ptr \in SqSlots /\ ld_deq_ptr \in LqSlots
  /\ \A s \in SqSlots : sq[s].mask \subseteq Bytes /\ sq[s].sqIdx \in SqIndices
  /\ \A l \in LqSlots : lq[l].mask \subseteq Bytes /\ lq[l].sqIdx \in SqIndices
  /\ InS1 \union s2 \union s3 \union violation \union mem_except \union shr \subseteq LqSlots

\* the loads, or the stores, in front of the i-th instruction
Ahead(op, i) == Cardinality({j \in 1 .. i - 1 : rob[j].inst.op = op})

\* The virtual queues, the real ones and the ROB count the same instructions,
\* although each moves its pointers on its own: the stores in flight are in the
\* stNum slots from st_deq_ptr on, in program order, and no other entry is
\* valid; so are the loads.
QueuesAgree ==
  /\ stNum = Ahead("store", Len(rob) + 1)
  /\ ldNum = Ahead("load", Len(rob) + 1)
  /\ \A i \in DOMAIN rob :
       IF IsStore(i) THEN rob[i].sq.idx = Wrap(st_deq_ptr + Ahead("store", i), SQSIZE)
       ELSE rob[i].lq.idx = Wrap(ld_deq_ptr + Ahead("load", i), LQSIZE)
  /\ sqhead.idx = Wrap(st_deq_ptr + stNum, SQSIZE)
  /\ lqhead.idx = Wrap(ld_deq_ptr + ldNum, LQSIZE)
  /\ {s \in SqSlots : sq[s].addr_vld \/ sq[s].data_vld} \subseteq Stores
  /\ {l \in LqSlots : lq[l].vld} \subseteq Loads

\* What the queues assert about what commits and what enters (storeQue.sv 191
\* and 192, loadQue.sv 57 and 78): a store commits with address and data, a load
\* with its entry, and a load that leaves s1 finds its entry free.
CommitAssertions ==
  /\ \A i \in 1 .. CommitNum :
       IF IsStore(i) THEN sq[rob[i].sq.idx].addr_vld /\ sq[rob[i].sq.idx].data_vld
       ELSE lq[rob[i].lq.idx].vld
  /\ \A l \in InS1 : ~lq[l].vld

\* The queues are consistent: with each other, with the ROB and with what they
\* assert.
QueuesConsistent == TypeOK /\ QueuesAgree /\ CommitAssertions

Program == [i \in DOMAIN rob |-> rob[i].inst]

Sequential == INSTANCE SequentialMemory WITH program <- Program

\* A load that has its value while the addresses of all older stores are known
\* has the right one, or it or an older load is on its way to the ROB to be run
\* again: of the two comparisons, the load's with older stores when it starts
\* and the store's with younger loads when it has its address, one finds every
\* pair, whatever replays and commits fall in between.
StaleLoadsKnown ==
  \A i \in DOMAIN rob :
    /\ IsLoad(i) /\ rob[i].val # NotExecuted
    /\ \A j \in 1 .. i - 1 : IsStore(j) => sq[rob[j].sq.idx].addr_vld
    => \/ rob[i].val = Sequential!Returned(mem, Program, i)
       \/ \E l \in violation \union mem_except \union shr : LoadAt(l) <= i

\* Loads and stores retire as if each ran alone, in program order.
ImplementsSequentialMemory == Sequential!Spec

\* A store's index is older than that of every younger load, and of no older
\* one: stfwd_if.sv 14, "store age small than load".  A load dispatched in one
\* group with the stores that fill the queue breaks it.
SqIndexTellsAge ==
  \A i, j \in DOMAIN rob :
    IsLoad(i) /\ IsStore(j) => (OlderThan(rob[j].sq, rob[i].sq) <=> j < i)

\* Every load and store leaves its queue: it retires or is squashed.
QueuesDrain ==
  /\ \A s \in SqSlots : s \in Stores ~> s \notin Stores
  /\ \A l \in LqSlots : l \in Loads ~> l \notin Loads
=============================================================================
