------------------------------ MODULE DataQue ------------------------------
(***************************************************************************)
(* dataQue.sv: a ring whose entries go in in order, are marked "can clear" *)
(* in any order, and leave in order, up to COMMIT_WID of them a cycle.  The *)
(* reorder buffer is one (ISROB) and so is the buffer of immediates.       *)
(*                                                                         *)
(* One step is one clock cycle.  Port j's pointer always stands j slots     *)
(* after port 0's, so one variable holds port 0's.  The entry of a slot    *)
(* that is not valid is never read; it is Empty here.                      *)
(***************************************************************************)
EXTENDS Integers, Sequences, FiniteSets

CONSTANTS
  DEPTH,          \* slots
  INPORT_NUM,     \* entries that one cycle may bring
  COMMIT_WID,     \* entries that one cycle may clear
  Data,           \* what an entry holds (dtype)
  Empty           \* the entry of an invalid slot

ASSUME DepthAssumption == DEPTH \in Nat \ {0}
ASSUME InportAssumption == INPORT_NUM \in 1 .. DEPTH
ASSUME CommitWidAssumption == COMMIT_WID \in 1 .. DEPTH
ASSUME EmptyAssumption == Empty \notin Data

VARIABLES
  buffer,
  vld_bits,
  clear_bits,
  flip_bits,          \* the flipped bit each slot's entry was given as its age
  head_ptr,
  enq_ptr,
  enq_ptr_flipped,    \* flips whenever enq_ptr wraps around
  count

vars == <<buffer, vld_bits, clear_bits, flip_bits, head_ptr, enq_ptr, enq_ptr_flipped, count>>

Slots == 0 .. DEPTH - 1

Wrap(p) == IF p < DEPTH THEN p ELSE p - DEPTH

Init ==
  /\ buffer = [s \in Slots |-> Empty]
  /\ vld_bits = [s \in Slots |-> FALSE]
  /\ clear_bits = [s \in Slots |-> FALSE]
  /\ flip_bits = [s \in Slots |-> FALSE]
  /\ head_ptr = 0
  /\ enq_ptr = 0
  /\ enq_ptr_flipped = FALSE
  /\ count = 0

-----------------------------------------------------------------------------
\* Combinational outputs.

\* mutant: counts the entries leaving this cycle as room
CanEnq_Late(n) == n <= DEPTH - count + COMMIT_WID

\* o_can_enq: entries leaving in this very cycle are not counted as room
CanEnq(n) == n <= DEPTH - count

Entering(enq) == IF CanEnq(Len(enq)) THEN enq ELSE << >>

\* the slot of entry j, counted from the head
Slot(j) == Wrap(head_ptr + j)

\* mutant: counts the marks of the window, not the run from the head
ClearNum_Gaps(stall) ==
  IF stall THEN 0 ELSE Cardinality({k \in 0 .. COMMIT_WID - 1 : clear_bits[Slot(k)]})

\* can_clear_vld: how many entries leave, an unbroken run from the head
ClearNum(stall) ==
  IF stall THEN 0
  ELSE CHOOSE n \in 0 .. COMMIT_WID :
         /\ \A k \in 0 .. n - 1 : clear_bits[Slot(k)]
         /\ n = COMMIT_WID \/ ~clear_bits[Slot(n)]

\* o_alloc_id, o_ptr_flipped: the age given to the j-th entry of a group
AllocId(j) == [idx |-> Wrap(enq_ptr + j), flipped |-> IF enq_ptr + j < DEPTH
                                                      THEN enq_ptr_flipped
                                                      ELSE ~enq_ptr_flipped]

\* the macro OLDER_THAN of core_comm.svh
OlderThan(a, b) == IF a.flipped = b.flipped THEN a.idx < b.idx ELSE a.idx > b.idx

-----------------------------------------------------------------------------
\* A clock edge: the group "enq" arrives, of which the places in "marks" are
\* finished on arrival, the slots in "finished" are marked, and stall holds
\* every entry back.

\* mutant: the bit is compared with the old pointer only
FlipAfter_Early(n) == IF enq_ptr = DEPTH - 1 THEN ~enq_ptr_flipped ELSE enq_ptr_flipped

FlipAfter(n) == IF enq_ptr + n < DEPTH THEN enq_ptr_flipped ELSE ~enq_ptr_flipped

\* mutant: a mark survives the entry that had it
NextClear_Sticky(new, marks, gone, finished) ==
  [s \in Slots |-> \/ clear_bits[s]
                   \/ s \in finished
                   \/ \E k \in new : s = Wrap(enq_ptr + k - 1) /\ k \in marks]

\* leaving is written last in the code, so it overrides a mark
NextClear(new, marks, gone, finished) ==
  [s \in Slots |-> /\ \A k \in gone : s # Slot(k)
                   /\ \/ clear_bits[s]
                      \/ s \in finished
                      \/ \E k \in new : s = Wrap(enq_ptr + k - 1) /\ k \in marks]

Cycle(enq, marks, finished, stall) ==
  LET in == Entering(enq)
      new == 1 .. Len(in)
      gone == 0 .. ClearNum(stall) - 1
      at(s) == {k \in new : s = Wrap(enq_ptr + k - 1)}
      leaves(s) == \E k \in gone : s = Slot(k)
  IN /\ count' = count + Len(in) - ClearNum(stall)
     /\ head_ptr' = Slot(ClearNum(stall))
     /\ enq_ptr' = Wrap(enq_ptr + Len(in))
     /\ enq_ptr_flipped' = FlipAfter(Len(in))
     /\ vld_bits' = [s \in Slots |-> ~leaves(s) /\ (vld_bits[s] \/ at(s) # {})]
     /\ clear_bits' = NextClear(new, marks, gone, finished)
     /\ buffer' = [s \in Slots |-> IF leaves(s) THEN Empty
                                   ELSE IF at(s) = {} THEN buffer[s]
                                   ELSE in[CHOOSE k \in at(s) : TRUE]]
     /\ flip_bits' = [s \in Slots |-> IF at(s) = {} THEN flip_bits[s]
                                      ELSE AllocId((CHOOSE k \in at(s) : TRUE) - 1).flipped]

\* rst, which is also what a squash does to the reorder buffer
Reset ==
  /\ buffer' = [s \in Slots |-> Empty]
  /\ vld_bits' = [s \in Slots |-> FALSE]
  /\ clear_bits' = [s \in Slots |-> FALSE]
  /\ flip_bits' = [s \in Slots |-> FALSE]
  /\ head_ptr' = 0
  /\ enq_ptr' = 0
  /\ enq_ptr_flipped' = FALSE
  /\ count' = 0

-----------------------------------------------------------------------------
(***************************************************************************)
(* The environment.  Only entries that are there are marked (the assertion *)
(* of dataQue.sv 168), and a marked one may be marked again.               *)
(***************************************************************************)
Groups == UNION {[1 .. n -> Data] : n \in 0 .. INPORT_NUM}

Advance ==
  \E enq \in Groups, finished \in SUBSET {s \in Slots : vld_bits[s]}, stall \in BOOLEAN :
    \E marks \in SUBSET (1 .. Len(enq)) : Cycle(enq, marks, finished, stall)

Next == Advance \/ Reset

Spec == Init /\ [][Next]_vars

-----------------------------------------------------------------------------
\* The pointers stay in the ring and the counter between empty and full; a slot
\* holds an entry or none (dataQue.sv:128-180).
TypeOK ==
  /\ buffer \in [Slots -> Data \union {Empty}]
  /\ vld_bits \in [Slots -> BOOLEAN]
  /\ clear_bits \in [Slots -> BOOLEAN]
  /\ flip_bits \in [Slots -> BOOLEAN]
  /\ head_ptr \in Slots
  /\ enq_ptr \in Slots
  /\ enq_ptr_flipped \in BOOLEAN
  /\ count \in 0 .. DEPTH

\* The counter, the two pointers, the valid bits and the marks tell one story:
\* the valid slots are the count slots from head_ptr on, enq_ptr is the next,
\* and only a valid slot is marked.  can_clear_vld (dataQue.sv 190-195) looks
\* at marks only, so a mark left on a slot would make an entry leave unfinished.
WindowAgrees ==
  /\ enq_ptr = Slot(count)
  /\ \A j \in 0 .. DEPTH - 1 : vld_bits[Slot(j)] <=> j < count
  /\ \A s \in Slots : clear_bits[s] => vld_bits[s]

AgeAt(j) == [idx |-> Slot(j), flipped |-> flip_bits[Slot(j)]]

\* The ages tell the order of arrival, wherever the ring wraps: of two entries
\* the one nearer the head is OLDER_THAN the other, and not the other way round.
AgesInOrder ==
  \A i, j \in 0 .. count - 1 :
    i < j => OlderThan(AgeAt(i), AgeAt(j)) /\ ~OlderThan(AgeAt(j), AgeAt(i))

-----------------------------------------------------------------------------
(***************************************************************************)
(* What it promises: a queue whose head waits for its mark.                *)
(***************************************************************************)
Queue == [j \in 1 .. count |-> [data |-> buffer[Slot(j - 1)], done |-> clear_bits[Slot(j - 1)]]]

Abs == INSTANCE DataQueAbs WITH queue <- Queue

\* Entries leave in the order they came, only when they and all before them are
\* marked, and none is lost, whatever the order of the marks.
ImplementsAbs == Abs!Spec
=============================================================================
