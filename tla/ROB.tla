-------------------------------- MODULE ROB --------------------------------
(***************************************************************************)
(* The reorder buffer and the precise squash: ROB.sv over dataQue.sv, with *)
(* the registers that reports of the memory block take on their way        *)
(* (loadfu.sv, stafu.sv, loadQue.sv, memBlock.sv), because their length    *)
(* decides which of a report and a commit comes first.                     *)
(*                                                                         *)
(* One step is one clock cycle.  What an instruction will turn out to be    *)
(* is its kind; it is known to the environment from the start and to the   *)
(* ROB when it is reported.                                                *)
(***************************************************************************)
EXTENDS Integers, Sequences, FiniteSets

CONSTANTS
  ROB_SIZE, RENAME_WIDTH, COMMIT_WIDTH,
  Kinds,              \* the kinds of instruction that occur
  Empty               \* the entry of an invalid slot

(* plain    computes; an eliminated move is finished when it is inserted    *)
(* branch   turns out mispredicted                                         *)
(* eret     mret or sret, dispatched when it is the head                   *)
(* illegal  an exception found before renaming                             *)
(* load, store                                                             *)
(* lfault   a load that faults                                             *)
(* sfault   a store that faults                                            *)
AllKinds == {"plain", "branch", "eret", "illegal", "load", "store", "lfault", "sfault"}

Redirecting == {"branch", "eret"}
Faulting == {"illegal", "lfault", "sfault"}

ASSUME SizeAssumption == ROB_SIZE \in Nat \ {0}
ASSUME RenameWidthAssumption == RENAME_WIDTH \in 1 .. ROB_SIZE
ASSUME CommitWidthAssumption == COMMIT_WIDTH \in 1 .. ROB_SIZE
ASSUME KindsAssumption == Kinds \subseteq AllKinds
ASSUME EmptyNotKind == Empty \notin Kinds

VARIABLES
  buffer, vld_bits, clear_bits, flip_bits, head_ptr, enq_ptr, enq_ptr_flipped, count,
  shr,                \* the oldest squash reason known, squash_handle shr
  squash_vld,
  squashInfo,         \* what the squash is for
  commit_stall,
  status,
  do_except,          \* o_trap_pack.has_trap
  s2, s3,             \* loads in stage s2 or load_except, and in load_finished
  sta_done,           \* stores in the buffer whose sta has gone through s1
  violation,          \* loadQue: violating loads found in the last cycle
  st_except,          \* stafu: prev_has_except
  mem_except          \* memBlock: except_vld and final_except

dqVars == <<buffer, vld_bits, clear_bits, flip_bits, head_ptr, enq_ptr, enq_ptr_flipped, count>>
commitVars == <<shr, squash_vld, squashInfo, commit_stall, status, do_except>>
memVars == <<s2, s3, sta_done, violation, st_except, mem_except>>
vars == <<dqVars, commitVars, memVars>>

DQ == INSTANCE DataQue WITH
        DEPTH <- ROB_SIZE, INPORT_NUM <- RENAME_WIDTH, COMMIT_WID <- COMMIT_WIDTH,
        Data <- Kinds

Slots == DQ!Slots

NoReason == [type |-> "null"]
NoReport == {}
Age(s) == [idx |-> s, flipped |-> flip_bits[s]]

CommitInit ==
  /\ shr = NoReason
  /\ squash_vld = FALSE /\ squashInfo = "none"
  /\ commit_stall = FALSE /\ status = "normal" /\ do_except = FALSE

MemInit ==
  /\ s2 = {} /\ s3 = {} /\ sta_done = {}
  /\ violation = {} /\ st_except = {} /\ mem_except = NoReport

Init == DQ!Init /\ CommitInit /\ MemInit

-----------------------------------------------------------------------------
\* What commits in this cycle.

\* willCommit_vld
WillNum == DQ!ClearNum(commit_stall)

\* shr_match_vec of commit port k
Match(k) == shr.type # "null" /\ DQ!Slot(k) = shr.rob_idx.idx

\* mutant: only exceptions stop the group
Stops_Except(k) == shr.type = "except" /\ Match(k)

\* the excepting instruction and what follows, or what follows the mispredicted
Stops(k) == \/ shr.type = "except" /\ Match(k)
            \/ k > 0 /\ shr.type = "mispred" /\ Match(k - 1)

\* canCommit_vld
CommitNum == CHOOSE m \in 0 .. WillNum :
               /\ \A k \in 0 .. m - 1 : ~Stops(k)
               /\ m = WillNum \/ Stops(m)

\* mutant: looks among the instructions that commit
Squashing_Committing(type) == shr.type = type /\ \E k \in 0 .. CommitNum - 1 : Match(k)

Squashing(type) == shr.type = type /\ \E k \in 0 .. WillNum - 1 : Match(k)
has_except == Squashing("except")
has_mispred == Squashing("mispred")

RenameCommits == IF squash_vld THEN 0 ELSE CommitNum       \* o_rename_commit

-----------------------------------------------------------------------------
\* Recording the oldest reason.

Oldest(ages) == CHOOSE a \in ages : \A b \in ages \ {a} : DQ!OlderThan(a, b)

\* mutant: the latest report wins
Recorded_Latest(reason) == reason

\* a report is recorded only if nothing older is
Recorded(reason) ==
  IF shr.type = "null" \/ DQ!OlderThan(reason.rob_idx, shr.rob_idx) THEN reason ELSE shr

Except(age, vio) == [type |-> "except", rob_idx |-> age, isViolation |-> vio]
Mispred(age) == [type |-> "mispred", rob_idx |-> age, isViolation |-> FALSE]

\* erets, excepts, branches: the reports of this cycle, as sets
NextReason(eret, excepts, branches) ==
  IF eret # {} THEN Mispred(Oldest(eret))
  ELSE IF /\ excepts # {}
          /\ \A e \in excepts : branches # {} => DQ!OlderThan(e.age, Oldest(branches))
    THEN Recorded(LET e == CHOOSE e \in excepts : TRUE IN Except(e.age, e.vio))
  ELSE IF branches # {} THEN Recorded(Mispred(Oldest(branches)))
  ELSE shr

-----------------------------------------------------------------------------
\* Taking the squash: a violation or a misprediction squashes in the next
\* cycle, a trap stalls commit for one cycle in between.

TakeSquash ==
  \/ /\ has_except /\ shr.isViolation
     /\ squash_vld' = TRUE /\ squashInfo' = "violation"
     /\ UNCHANGED <<commit_stall, status, do_except>>
  \/ /\ has_except /\ ~shr.isViolation /\ status = "normal"
     /\ do_except' = TRUE /\ commit_stall' = TRUE /\ status' = "trapProcess"
     /\ UNCHANGED <<squash_vld, squashInfo>>
  \/ /\ ~(has_except /\ shr.isViolation) /\ status = "trapProcess"
     /\ do_except' = FALSE /\ squash_vld' = TRUE /\ squashInfo' = "trap"
     /\ UNCHANGED <<commit_stall, status>>
  \/ /\ has_mispred /\ status = "normal"
     /\ squash_vld' = TRUE /\ squashInfo' = "mispred"
     /\ UNCHANGED <<commit_stall, status, do_except>>
  \/ /\ ~has_except /\ ~has_mispred /\ status = "normal"
     /\ UNCHANGED <<squash_vld, squashInfo, commit_stall, status, do_except>>

-----------------------------------------------------------------------------
\* The instructions in the buffer and what the units may do with them.

Here(kinds) == {s \in Slots : vld_bits[s] /\ buffer[s] \in kinds}
Unfinished(kinds) == {s \in Here(kinds) : ~clear_bits[s]}
Younger(s) == {r \in Slots : vld_bits[r] /\ DQ!OlderThan(Age(s), Age(r))}

\* finish_ptr and the slot after it (STU_NUM is 2): the oldest unfinished store
\* and the store behind it
InFinishWindow(s) ==
  LET stores == Here({"store", "sfault"})
      older == {r \in stores : s \in Younger(r) /\ ~clear_bits[r]}
  IN \/ older = {}
     \/ \E r \in older : /\ older = {r}
                         /\ \A q \in stores \ {r} : s \in Younger(q) => r \in Younger(q)

\* What may finish on its own: an eret only at the head, a store in the window
\* and once its address is in the store queue.
MayFinish(done) ==
  \A s \in done : /\ buffer[s] = "eret" => s = head_ptr
                  /\ buffer[s] = "store" => s \in sta_done /\ InFinishWindow(s)

\* loads and stores whose s1 can be in this cycle
IssuableLoads == Unfinished({"load", "lfault"}) \ (s2 \union s3)
IssuableStores == Unfinished({"store", "sfault"}) \ sta_done

\* loads in the load queue, those in s1 included
InLoadQue(s1) == {s \in Here({"load"}) : clear_bits[s] \/ s \in s1 \union s2 \union s3}

\* each store in s1 finds at most one load, the oldest of those it violates
MayViolate(vios, s1, stas) ==
  /\ vios \subseteq InLoadQue(s1)
  /\ \E by \in [vios -> stas] :
       /\ \A v \in vios : buffer[by[v]] = "store" /\ v \in Younger(by[v])
       /\ \A v, w \in vios : v # w => by[v] # by[w]

\* the oldest of what the memory units report
Report(violating, faulting) ==
  LET oldest == Oldest({Age(s) : s \in violating \union faulting})
  IN IF violating \union faulting = {} THEN NoReport
     ELSE {[age |-> oldest, vio |-> oldest.idx \notin faulting]}

-----------------------------------------------------------------------------
\* A clock edge.  enq: the group dispatched; moves: the places in it of
\* eliminated moves; done: what finishes; s1, stas: the loads and the stores in
\* stage s1; vios: the violating loads found.
Cycle(enq, moves, done, s1, stas, vios) ==
  LET in == DQ!Entering(enq)
      illegal == {k \in DOMAIN in : in[k] = "illegal"}
      dispExcept == {[age |-> DQ!AllocId(k - 1), vio |-> FALSE] :
                       k \in {i \in illegal : \A j \in illegal : i <= j}}
      erets == {Age(s) : s \in done \intersect Here({"eret"})}
      branches == {Age(s) : s \in done \intersect Here({"branch"})}
  IN /\ ~squash_vld
     /\ DQ!Cycle(enq, moves \union illegal, done \union s3, commit_stall)
     /\ shr' = NextReason(erets, IF mem_except # NoReport THEN mem_except ELSE dispExcept,
                          branches)
     /\ TakeSquash
     /\ s2' = s1
     /\ s3' = s2
     /\ sta_done' = (sta_done \union stas) \ {DQ!Slot(k) : k \in 0 .. CommitNum - 1}
     /\ violation' = vios
     /\ st_except' = {s \in stas : buffer[s] = "sfault"}
     /\ mem_except' = Report(violation, st_except \union (s2 \intersect Here({"lfault"})))

\* squash_vld clears the buffer, the reason and every pipeline
Squash ==
  /\ squash_vld
  /\ DQ!Reset
  /\ shr' = NoReason
  /\ squash_vld' = FALSE /\ squashInfo' = "none"
  /\ commit_stall' = FALSE /\ status' = "normal" /\ do_except' = FALSE
  /\ s2' = {} /\ s3' = {} /\ sta_done' = {}
  /\ violation' = {} /\ st_except' = {} /\ mem_except' = NoReport

-----------------------------------------------------------------------------
(* Inputs.  A group that finds no room is not dispatched. *)

Groups == UNION {[1 .. n -> Kinds] : n \in {k \in 0 .. RENAME_WIDTH : DQ!CanEnq(k)}}

\* what the head waits for happens in this cycle
HeadServed(done, s1, stas) ==
  \/ head_ptr \in s1 \union stas \union done \union s2 \union s3
  \/ head_ptr \notin Unfinished(Kinds)
  \/ buffer[head_ptr] = "sfault" /\ head_ptr \in sta_done

Advance(serving) ==
  \E enq \in Groups,
     done \in SUBSET Unfinished({"plain", "branch", "eret", "store"}),
     s1 \in SUBSET IssuableLoads, stas \in SUBSET IssuableStores :
    /\ MayFinish(done)
    /\ serving => HeadServed(done, s1, stas)
    /\ \E moves \in SUBSET {k \in DOMAIN enq : enq[k] = "plain"},
          vios \in SUBSET Here({"load"}) :
         MayViolate(vios, s1, stas) /\ Cycle(enq, moves, done, s1, stas, vios)

Next == Advance(FALSE) \/ Squash

Spec == Init /\ [][Next]_vars

\* The clock ticks, and the units answer for the instruction at the head
\* sooner or later: nothing it waits for is younger (see Dataflow).
FairSpec == Spec /\ WF_vars(Advance(TRUE)) /\ WF_vars(Squash)

-----------------------------------------------------------------------------
(* Properties *)

SlotSets == SUBSET Slots
Ages == [idx : Slots, flipped : BOOLEAN]

\* The recorded reason is of a kind that ROB.sv:246-277 writes, and the memory
\* block reports one exception at a time (memBlock.sv:505-532).
TypeOK ==
  /\ DQ!TypeOK
  /\ shr \in {NoReason} \union
       [type : {"except", "mispred"}, rob_idx : Ages, isViolation : BOOLEAN]
  /\ squash_vld \in BOOLEAN
  /\ squashInfo \in {"none", "violation", "trap", "mispred"}
  /\ commit_stall \in BOOLEAN /\ do_except \in BOOLEAN
  /\ status \in {"normal", "trapProcess"}
  /\ <<s2, s3, sta_done, violation, st_except>> \in SlotSets \X SlotSets \X SlotSets \X SlotSets \X SlotSets
  /\ mem_except \subseteq [age : Ages, vio : BOOLEAN] /\ Cardinality(mem_except) <= 1

Pending == squash_vld \/ status = "trapProcess"

\* An instruction that is finished and must redirect or trap is known to shr,
\* or something older is, until the squash it asks for is on its way: with
\* reports coming in any order and several in a cycle, none gets lost that
\* matters.
ReasonsRemembered ==
  /\ TypeOK
  /\ \A s \in Here(Redirecting \union Faulting) :
       clear_bits[s] /\ ~Pending =>
         shr.type # "null" /\ ~DQ!OlderThan(Age(s), shr.rob_idx)

\* Once a reason is known there is a squash, whatever else happens.
SquashTaken == (shr.type # "null") ~> squash_vld

\* A load that a store has found to have read too early does not retire, ROB.sv
\* 242: "if has except, the except inst can not be committed".
ViolatingLoadNeverRetires ==
  \A k \in 0 .. RenameCommits - 1 :
    /\ DQ!Slot(k) \notin violation
    /\ \A e \in mem_except : e.vio => e.age # Age(DQ!Slot(k))

-----------------------------------------------------------------------------
(***************************************************************************)
(* What it promises: precise retirement.  What commits in this cycle is    *)
(* what the abstract step has just retired; once the cause of a squash is   *)
(* at the front, what is behind it no longer counts.                       *)
(***************************************************************************)
KindAt(j) == buffer[DQ!Slot(j)]

Retiring == [j \in 1 .. RenameCommits |-> KindAt(j - 1)]
Waiting == IF Pending \/ has_except \/ has_mispred THEN << >>
           ELSE [j \in 1 .. count - CommitNum |-> KindAt(CommitNum + j - 1)]

Precise == INSTANCE Retirement WITH queue <- Waiting, retired <- Retiring

\* Instructions retire in program order and once; nothing that faults retires,
\* nothing retires behind a redirection or a fault, and nothing is thrown away
\* without such a cause at the front.
ImplementsRetirement == Precise!Spec
=============================================================================
