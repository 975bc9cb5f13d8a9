-------------------------------- MODULE Ftq --------------------------------
(***************************************************************************)
(* The fetch target queue (FTQ.sv) with the fetcher's pipeline             *)
(* (fetcher.sv): a ring of predicted blocks with five pointers, which the  *)
(* predictor, the instruction cache, the pre-decoder, the branch units and *)
(* the ROB move in the same cycle.                                         *)
(*                                                                         *)
(* One action is a clock edge.  The predictor, the cache's grant, the room *)
(* of the instruction buffer and the backend are external: the backend     *)
(* holds the blocks that were delivered, executes their branches and       *)
(* commits in order.  A block is known by its position in the program,     *)
(* counted modulo POS, which stands for its addresses.                     *)
(***************************************************************************)
EXTENDS Integers, Sequences, SequencesExt, FiniteSets

CONSTANTS FTQ_SIZE, POS

ASSUME SizeAssumption ==
  FTQ_SIZE \in Nat \ {0, 1} /\ POS \in Nat /\ POS > FTQ_SIZE

Slots == 0 .. FTQ_SIZE - 1

VARIABLES
  pred_ptr, fetch_ptr, commit_ptr, commit_ptr_thre,
  pptr_flipped, fptr_flipped, cptr_flipped,
  buffer_vld,            \* set of slots
  wasWrote,              \* set of slots: buf_brInfo
  buf_baseInfo,          \* slot |-> position of the block
  s1, s2, new_inst,      \* the fetcher's stages: << >> or <<block>>
  falsepred,             \* << >> or <<block>> that the pre-decoder found
  next,                  \* external: position of the next prediction
  back,                  \* external: delivered blocks, oldest first
  squash,                \* i_squash_vld, and why: "no", "mispred" or "except"
  want, lost             \* history: next position to deliver, a block skipped

ring == <<pred_ptr, fetch_ptr, commit_ptr, commit_ptr_thre,
          pptr_flipped, fptr_flipped, cptr_flipped, buffer_vld, wasWrote, buf_baseInfo>>
vars == <<ring, s1, s2, new_inst, falsepred, next, back, squash, want, lost>>

Block(idx, pos) == [idx |-> idx, pos |-> pos, wrote |-> FALSE, mispred |-> FALSE]

After(p) == IF p = FTQ_SIZE - 1 THEN 0 ELSE p + 1

Wraps(p) == p = FTQ_SIZE - 1
Following(pos) == (pos + 1) % POS

Init ==
  /\ pred_ptr = 0 /\ fetch_ptr = 0 /\ commit_ptr = 0 /\ commit_ptr_thre = 0
  /\ pptr_flipped = FALSE /\ fptr_flipped = FALSE /\ cptr_flipped = FALSE
  /\ buffer_vld = {} /\ wasWrote = {} /\ buf_baseInfo = [s \in Slots |-> 0]
  /\ s1 = << >> /\ s2 = << >> /\ new_inst = << >> /\ falsepred = << >>
  /\ next = 0 /\ back = << >> /\ squash = "no" /\ want = 0 /\ lost = FALSE

-----------------------------------------------------------------------------
ftqEmpty == commit_ptr = pred_ptr /\ cptr_flipped = pptr_flipped
ftqFull == commit_ptr = pred_ptr /\ cptr_flipped # pptr_flipped

DoPred(req) == req /\ ~ftqFull /\ falsepred = << >>

\* mutant: entries leave up to the fetch pointer
DoCommit_Fetched == commit_ptr # fetch_ptr

DoCommit == commit_ptr # commit_ptr_thre

Bypass(req) == fetch_ptr = pred_ptr /\ DoPred(req)
DoFetch(req, stall) == (~ftqEmpty /\ fetch_ptr # pred_ptr /\ ~stall) \/ Bypass(req)

\* the block asked of the cache
Asked(req) == Block(fetch_ptr, IF Bypass(req) THEN next ELSE buf_baseInfo[fetch_ptr])

\* recovery_ftqIdx: the oldest block that the fetcher has not delivered
Recovery ==
  IF s2 # << >> THEN s2[1].idx ELSE IF s1 # << >> THEN s1[1].idx ELSE fetch_ptr

\* mutant: a pointer that goes back over the end keeps the flip bit
FlipAt_Same(r) == pptr_flipped

\* the flip bit of a pointer set back to r
FlipAt(r) == IF r > pred_ptr THEN ~pptr_flipped ELSE pptr_flipped

\* slots from a to b, both on the ring, without b
From(a, b) == IF a <= b THEN a .. b - 1 ELSE Slots \ (b .. a - 1)

\* i_commit_ftqIdx is << >> or <<entry>>
NextThre(commit) == IF commit = << >> THEN commit_ptr_thre ELSE commit[1]

Squashed == squash # "no"

-----------------------------------------------------------------------------
(* The ring at one edge.  req: a prediction; rdy: the cache grants; upd:   *)
(* the update of the predictor, if any, has finished; commit: the ROB's    *)
(* entry number; wb: slots written by branch units.                        *)

\* mutant: the flip bits are not restored by a squash
SquashRing_NoFlip(commit) ==
  /\ pred_ptr' = NextThre(commit) /\ fetch_ptr' = NextThre(commit)
  /\ UNCHANGED <<pptr_flipped, fptr_flipped>>

SquashRing(commit) ==
  LET t == NextThre(commit)
      flip == IF t >= commit_ptr THEN cptr_flipped ELSE ~cptr_flipped
  IN /\ pred_ptr' = t /\ fetch_ptr' = t
     /\ pptr_flipped' = flip /\ fptr_flipped' = flip

PredRing(req) ==
  IF falsepred # << >>
  THEN pred_ptr' = Recovery /\ pptr_flipped' = FlipAt(Recovery)
  ELSE IF DoPred(req)
  THEN pred_ptr' = After(pred_ptr) /\ pptr_flipped' = (pptr_flipped # Wraps(pred_ptr))
  ELSE UNCHANGED <<pred_ptr, pptr_flipped>>

FetchRing(req, rdy, stall) ==
  IF stall \/ falsepred # << >>
  THEN fetch_ptr' = Recovery /\ fptr_flipped' = FlipAt(Recovery)
  ELSE IF DoFetch(req, stall) /\ rdy
  THEN fetch_ptr' = After(fetch_ptr) /\ fptr_flipped' = (fptr_flipped # Wraps(fetch_ptr))
  ELSE UNCHANGED <<fetch_ptr, fptr_flipped>>

\* slots taken back
Cleared(commit) ==
  IF Squashed THEN Slots \ From(commit_ptr, NextThre(commit))
  ELSE IF falsepred # << >> THEN From(Recovery, pred_ptr) ELSE {}

CommitRing(req, commit) ==
  LET sets == IF ~Squashed /\ DoPred(req) THEN {pred_ptr} ELSE {}
  IN /\ commit_ptr' = IF DoCommit THEN After(commit_ptr) ELSE commit_ptr
     /\ cptr_flipped' = (cptr_flipped # (DoCommit /\ Wraps(commit_ptr)))
     /\ commit_ptr_thre' = NextThre(commit)
     /\ buffer_vld' = ((buffer_vld \ Cleared(commit)) \union sets)
                        \ (IF DoCommit THEN {commit_ptr} ELSE {})

\* the predicted block is written even in the cycle of a squash
EntryWrites(req, wb) ==
  /\ buf_baseInfo' = IF DoPred(req) THEN [buf_baseInfo EXCEPT ![pred_ptr] = next] ELSE buf_baseInfo
  /\ wasWrote' = (wasWrote \union wb) \ (IF DoPred(req) THEN {pred_ptr} ELSE {})

\* One edge of the ring.  req: a prediction is offered; rdy: the cache grants;
\* stall: the instruction buffer has no room; commit: the entry that the ROB
\* passes; wb: the entries that branch units write.
Ring(req, rdy, stall, commit, wb) ==
  /\ IF Squashed THEN SquashRing(commit) ELSE PredRing(req) /\ FetchRing(req, rdy, stall)
  /\ CommitRing(req, commit)
  /\ EntryWrites(req, wb)

-----------------------------------------------------------------------------
\* mutant: a false prediction does not flush the blocks behind it
Fetcher_NotFlushed(req, rdy, stall, bad) ==
  IF Squashed
  THEN s1' = << >> /\ s2' = << >> /\ new_inst' = << >> /\ falsepred' = << >>
  ELSE /\ s1' = IF DoFetch(req, stall) /\ rdy /\ ~stall THEN <<Asked(req)>> ELSE << >>
       /\ s2' = IF stall THEN << >> ELSE s1
       /\ falsepred' = IF bad THEN s2 ELSE << >>
       /\ new_inst' = IF stall THEN new_inst ELSE s2

\* The fetcher at the same edge.  bad: s2_falsepred, the pre-decoder disagrees
\* with the prediction of the block in s2.
Fetcher(req, rdy, stall, bad) ==
  IF Squashed \/ falsepred # << >>
  THEN s1' = << >> /\ s2' = << >> /\ new_inst' = << >> /\ falsepred' = << >>
  ELSE /\ s1' = IF DoFetch(req, stall) /\ rdy /\ ~stall THEN <<Asked(req)>> ELSE << >>
       /\ s2' = IF stall THEN << >> ELSE s1
       /\ falsepred' = IF bad THEN s2 ELSE << >>
       /\ new_inst' = IF stall THEN new_inst ELSE s2

\* the instruction buffer takes o_fetch_inst
Delivered(stall) == IF stall THEN << >> ELSE new_inst

\* a stall drops a block that fetching then goes on behind: the block that the
\* pre-decoder has just corrected, in s2 or already in new_inst
Skips(stall, bad) ==
  stall /\ IF falsepred = << >> THEN bad ELSE new_inst # << >>

History(stall, bad, resume) ==
  IF Squashed THEN want' = resume /\ lost' = FALSE
  ELSE /\ want' = IF Delivered(stall) = << >> THEN want ELSE Following(new_inst[1].pos)
       /\ lost' = (lost \/ Skips(stall, bad))

\* the BPU, external: it goes on, or starts again where it is told to
Predictor(req, resume) ==
  next' = IF Squashed THEN resume
          ELSE IF falsepred # << >> THEN Following(falsepred[1].pos)
          ELSE IF DoPred(req) THEN Following(next) ELSE next

-----------------------------------------------------------------------------
(* The backend, external.  back[1] is the block of the last committed      *)
(* instruction, or the first delivered one.  A commit passes the entry of  *)
(* the block it ends in; behind a mispredicted branch it passes the entry  *)
(* that follows, and a squash comes in the next cycle.  So it does after   *)
(* an exception, which commits nothing.                                    *)

Unwritten == {j \in DOMAIN back : ~back[j].wrote}

\* blocks S have their branch written back, and m says what came of it
Executed(S, m) ==
  [j \in DOMAIN back |-> IF j \in S THEN [back[j] EXCEPT !.wrote = TRUE, !.mispred = m] ELSE back[j]]

EntriesOf(S) == {back[j].idx : j \in S}

NoMispredBefore(k) == \A j \in 1 .. k - 1 : ~back[j].mispred

Cycle(req, rdy, stall, bad, commit, wb, resume) ==
  /\ Ring(req, rdy, stall, commit, wb)
  /\ Fetcher(req, rdy, stall, bad) /\ History(stall, bad, resume) /\ Predictor(req, resume)

\* nothing commits, or instructions up to some of block k
Normal(req, rdy, stall, bad, S, m) ==
  /\ ~Squashed
  /\ \E k \in {j \in 0 .. Len(back) : NoMispredBefore(j)} :
       /\ Cycle(req, rdy, stall, bad, IF k = 0 THEN << >> ELSE <<back[k].idx>>, EntriesOf(S), 0)
       /\ back' = SubSeq(Executed(S, m), IF k = 0 THEN 1 ELSE k, Len(back)) \o Delivered(stall)
       /\ squash' \in {"no"} \union {r \in {"except"} : back # << >>}

\* the mispredicted branch that ends block k commits
CommitMispred(req, rdy, stall, bad, S, m) ==
  /\ ~Squashed
  /\ \E k \in DOMAIN back :
       /\ NoMispredBefore(k) /\ back[k].mispred
       /\ Cycle(req, rdy, stall, bad, <<After(back[k].idx)>>, EntriesOf(S), 0)
       /\ back' = SubSeq(Executed(S, m), k, Len(back)) \o Delivered(stall)
       /\ squash' = "mispred"

\* The cycle of the squash.  Finished blocks of the wrong path, behind back[1],
\* still report a commit: ROB.sv masks o_rename_commit but not o_commit_ftq_vld.
SquashCycle(req, S) ==
  /\ Squashed
  /\ LET resume == IF squash = "mispred" THEN Following(back[1].pos) ELSE back[1].pos
         wrong == IF squash = "mispred" THEN {<<back[j].idx>> : j \in 2 .. Len(back)} ELSE {}
     IN \E commit \in {<< >>} \union wrong :
          Cycle(req, FALSE, FALSE, FALSE, commit, EntriesOf(S), resume)
  /\ back' = << >> /\ squash' = "no"

\* Inputs that nothing looks at in a cycle are left FALSE: a prediction for a
\* full ring, a grant without a request, a block flushed from s2.
Next ==
  \E req \in {b \in BOOLEAN : b => ~ftqFull} : \E S \in {{}} \union {{j} : j \in Unwritten} :
    \/ \E stall \in BOOLEAN :
         \E rdy \in {b \in BOOLEAN : b => DoFetch(req, stall) /\ ~stall} :
           \E bad \in {b \in BOOLEAN : b => s2 # << >> /\ falsepred = << >>} :
             \E m \in {b \in BOOLEAN : b => S # {}} :
               Normal(req, rdy, stall, bad, S, m) \/ CommitMispred(req, rdy, stall, bad, S, m)
    \/ SquashCycle(req, S)

Spec == Init /\ [][Next]_vars

-----------------------------------------------------------------------------
Blocks == [idx : Slots, pos : 0 .. POS - 1, wrote : BOOLEAN, mispred : BOOLEAN]
AtMostOne == {<< >>} \union {<<b>> : b \in Blocks}

\* The pointers and entry numbers stay on the ring, and the positions of blocks
\* among those that the predictor gives.
TypeOK ==
  /\ {pred_ptr, fetch_ptr, commit_ptr, commit_ptr_thre} \subseteq Slots
  /\ {pptr_flipped, fptr_flipped, cptr_flipped, lost} \subseteq BOOLEAN
  /\ buffer_vld \subseteq Slots /\ wasWrote \subseteq Slots
  /\ buf_baseInfo \in [Slots -> 0 .. POS - 1]
  /\ {s1, s2, new_inst, falsepred} \subseteq AtMostOne
  /\ {next, want} \subseteq 0 .. POS - 1
  /\ back \in Seq(Blocks)
  /\ squash \in {"no", "mispred", "except"} /\ (Squashed => back # << >>)

\* slots from commit_ptr to pred_ptr by the pointers and their flip bits
Window == IF ftqFull THEN Slots ELSE From(commit_ptr, pred_ptr)

\* The pointers, their flip bits and the valid bits describe one window of the
\* ring, and the commit limit and the fetch pointer lie in it: squashes of both
\* kinds set pointers back and recompute the bits by comparisons.
ValidIsWindow ==
  /\ (commit_ptr # pred_ptr => (cptr_flipped = pptr_flipped) = (commit_ptr < pred_ptr))
  /\ buffer_vld = Window
  /\ {fetch_ptr, commit_ptr_thre} \subseteq Window \union {pred_ptr}

\* The assertions of FTQ.sv: an entry that commits is valid; a branch writes a
\* valid entry, and each entry once.
RingAssertions ==
  /\ (DoCommit => commit_ptr \in buffer_vld)
  /\ (~Squashed /\ ~ftqFull => pred_ptr \notin buffer_vld)
  /\ \A j \in Unwritten : back[j].idx \in buffer_vld \ wasWrote
  /\ \A i, j \in Unwritten : back[i].idx = back[j].idx => i = j

\* The ring is consistent: its pointers and bits among themselves, and with the
\* blocks that the backend still names.
RingConsistent == TypeOK /\ ValidIsWindow /\ RingAssertions

\* While a block is fetched, corrected or executed, its entry still holds it:
\* that is where the branch units and the trap logic read its addresses.
ReadsOwn ==
  \A b \in ToSet(s1 \o s2 \o new_inst \o falsepred \o back) : buf_baseInfo[b.idx] = b.pos

\* The blocks reach the instruction buffer one after the other, none left out
\* and none twice, whatever the pre-decoder corrects.
StreamInOrder == new_inst # << >> => new_inst[1].pos = want

\* They do unless a stall meets a false prediction.
OnlyStallLoses == ~lost => StreamInOrder

\* the ring as a sequence of predicted blocks
Count == IF ftqFull THEN FTQ_SIZE ELSE (pred_ptr + FTQ_SIZE - commit_ptr) % FTQ_SIZE
InRing == [i \in 1 .. Count |-> buf_baseInfo[(commit_ptr + i - 1) % FTQ_SIZE]]
Queue == INSTANCE FetchQueue WITH Size <- FTQ_SIZE, Positions <- 0 .. POS - 1, queue <- InRing

\* The ring is a queue of predicted blocks: in a cycle the oldest may leave,
\* the youngest may be taken back and a new one may join, and no other changes.
ImplementsQueue == Queue!Spec
=============================================================================
