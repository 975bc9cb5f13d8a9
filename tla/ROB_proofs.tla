----------------------------- MODULE ROB_proofs -----------------------------
(***************************************************************************)
(* The invariants of ROB, for any size, any widths and any kinds, and that *)
(* it implements precise retirement.                                       *)
(*                                                                         *)
(* Two invariants, because two things must not be mixed.  MachineInv says  *)
(* that the ring, the squash control and the pipelines of the memory block *)
(* agree, and needs nothing.  ReasonInv says that shr names an instruction *)
(* in the buffer and that nothing older which must redirect or trap has    *)
(* been forgotten; it is kept as long as no violating load retires, since  *)
(* the age of one that did is soon the age of another instruction.  One    *)
(* does only in a commit group with a store in front of it                 *)
(* (RetiresOnlyBehindStore), whatever the widths.                          *)
(*                                                                         *)
(* Instructions are counted from the head: place p is in the buffer, or is *)
(* to come with the group dispatched, and PlaceAge is the age it has or    *)
(* gets.  The lemmas of the ring say that ages order places (PlaceOrder)   *)
(* and what a cycle does to each (Places); the rest is about places.       *)
(***************************************************************************)
EXTENDS ROB, FiniteSetTheorems, SequenceTheorems, TLAPS

\* the ring again, with what is proved of it
Ring == INSTANCE DataQue_proofs WITH
          DEPTH <- ROB_SIZE, INPORT_NUM <- RENAME_WIDTH, COMMIT_WID <- COMMIT_WIDTH,
          Data <- Kinds

\* a valid slot holds an instruction
Filled == \A s \in Slots : vld_bits[s] => buffer[s] \in Kinds

\* commit stalls for the cycle in which a trap is processed, and only then
Control == commit_stall <=> status = "trapProcess"

\* Loads in the pipeline are in the buffer and unfinished, so are faulting
\* stores; behind a load found to have read too early stands the store that
\* found it, still unfinished.
Pipes ==
  /\ s2 \subseteq Unfinished({"load", "lfault"})
  /\ s3 \subseteq Unfinished({"load", "lfault"})
  /\ s2 \intersect s3 = {}
  /\ st_except \subseteq Unfinished({"sfault"})
  /\ \A v \in violation : /\ v \in Here({"load"})
                          /\ \E r \in Unfinished({"store"}) : v \in Younger(r)

\* The memory block reports one thing at a time, about an instruction in the
\* buffer, and a load that faults is reported, or something older is, when it
\* finishes.
Reports ==
  /\ mem_except = {} \/ \E e \in [age : Ages, vio : BOOLEAN] : mem_except = {e}
  /\ \A e \in mem_except : \E s \in Slots :
       /\ e.age = Age(s)
       /\ e.vio => s \in Here({"load"}) /\ \E r \in Here({"store"}) : s \in Younger(r)
       /\ ~e.vio => s \in Unfinished({"lfault", "sfault"})
  /\ \A s \in s3 \intersect Here({"lfault"}) : \E e \in mem_except : ~DQ!OlderThan(Age(s), e.age)

\* the kinds of instruction that a reason is about
KindsOf(reason) ==
  IF reason.type = "mispred" THEN Redirecting ELSE IF reason.isViolation THEN {"load"} ELSE Faulting

\* The recorded reason is about an instruction in the buffer.
ReasonHere ==
  shr.type # "null" => \E s \in Here(KindsOf(shr)) : Age(s) = shr.rob_idx

\* Whatever is finished and must redirect or trap, or something older, is recorded.
Remembered ==
  \A s \in Here(Redirecting \union Faulting) :
    clear_bits[s] => shr.type # "null" /\ ~DQ!OlderThan(Age(s), shr.rob_idx)

\* what holds of the buffer, the squash and the pipelines, whatever retires
MachineInv == Ring!Inv /\ TypeOK /\ Filled /\ Control /\ Pipes /\ Reports

\* what holds of the reason if no violating load retires
ReasonInv == ~Pending => ReasonHere /\ Remembered

-----------------------------------------------------------------------------
(* The ring, as the reorder buffer sees it. *)

\* The two instances of the ring are one.
LEMMA SameRing ==
  /\ DQ!Slots = Ring!Slots
  /\ \A p : DQ!Slot(p) = Ring!Slot(p)
  /\ \A p : DQ!AllocId(p) = Ring!AllocId(p)
  /\ \A a, b : DQ!OlderThan(a, b) <=> Ring!OlderThan(a, b)
  /\ \A b : DQ!ClearNum(b) = Ring!ClearNum(b)
  /\ \A g : DQ!Entering(g) = Ring!Entering(g)
  /\ DQ!TypeOK <=> Ring!TypeOK
<1>1. \A p : DQ!Wrap(p) = Ring!Wrap(p)
  BY DEF DQ!Wrap, Ring!Wrap
<1>2. \A p : DQ!Slot(p) = Ring!Slot(p)
  BY <1>1 DEF DQ!Slot, Ring!Slot
<1>3. \A b : DQ!ClearNum(b) = Ring!ClearNum(b)
  BY DEF DQ!ClearNum, Ring!ClearNum, DQ!Slot, Ring!Slot, DQ!Wrap, Ring!Wrap
<1>4. \A g : DQ!Entering(g) = Ring!Entering(g)
  BY DEF DQ!Entering, Ring!Entering, DQ!CanEnq, Ring!CanEnq
<1>5. DQ!Slots = Ring!Slots
  BY DEF DQ!Slots, Ring!Slots
<1>6. \A p : DQ!AllocId(p) = Ring!AllocId(p)
  BY <1>1, Zenon DEF DQ!AllocId, Ring!AllocId
<1> QED
  BY <1>2, <1>3, <1>4, <1>5, <1>6 DEF DQ!OlderThan, Ring!OlderThan, DQ!TypeOK, Ring!TypeOK

\* A cycle of the one is a cycle of the other.
LEMMA SameCycle ==
  ASSUME NEW enq, NEW marks, NEW finished, NEW stall, DQ!Cycle(enq, marks, finished, stall)
  PROVE  Ring!Cycle(enq, marks, finished, stall)
  BY DEF DQ!Cycle, Ring!Cycle, DQ!NextClear, Ring!NextClear, DQ!FlipAfter, Ring!FlipAfter, DQ!Slots, Ring!Slots, DQ!Wrap, Ring!Wrap, DQ!Slot, Ring!Slot, DQ!ClearNum, Ring!ClearNum, DQ!Entering, Ring!Entering, DQ!CanEnq, Ring!CanEnq, DQ!AllocId, Ring!AllocId

\* the age of place p, counted from the head, in the buffer or to be given
PlaceAge(p) == IF p < count THEN Age(DQ!Slot(p)) ELSE DQ!AllocId(p - count)

\* Places are ordered by their ages.
LEMMA PlaceOrder ==
  ASSUME Ring!Inv, NEW p \in 0 .. ROB_SIZE - 1, NEW q \in 0 .. ROB_SIZE - 1
  PROVE  DQ!OlderThan(PlaceAge(p), PlaceAge(q)) <=> p < q
<1>1. \A i : PlaceAge(i) = Ring!WindowAge(i)
  BY SameRing, Zenon DEF PlaceAge, Ring!WindowAge, Age, Ring!AgeAt
<1>2. Ring!OlderThan(Ring!WindowAge(p), Ring!WindowAge(q)) <=> p < q
  BY SizeAssumption, RenameWidthAssumption, CommitWidthAssumption, EmptyNotKind, Ring!WindowOrder
<1> QED
  BY <1>1, <1>2, SameRing

\* The slots in use are those of the first count places.
LEMMA PlaceOf ==
  ASSUME Ring!Inv
  PROVE  /\ count \in Nat /\ count <= ROB_SIZE /\ ROB_SIZE \in Nat
         /\ head_ptr = DQ!Slot(0)
         /\ \A p \in 0 .. ROB_SIZE - 1 : DQ!Slot(p) \in Slots
         /\ \A p \in 0 .. count - 1 : vld_bits[DQ!Slot(p)] /\ PlaceAge(p) = Age(DQ!Slot(p))
         /\ \A s \in Slots : vld_bits[s] => \E p \in 0 .. count - 1 : s = DQ!Slot(p)
<1>1. /\ count \in Nat /\ count <= ROB_SIZE /\ ROB_SIZE \in Nat /\ ROB_SIZE > 0
      /\ head_ptr \in Ring!Slots /\ head_ptr \in Nat /\ head_ptr < ROB_SIZE
  BY SizeAssumption, RenameWidthAssumption, CommitWidthAssumption DEF Ring!Inv, Ring!TypeOK, Ring!Slots
<1>2. head_ptr = DQ!Slot(0)
  BY <1>1 DEF DQ!Slot, DQ!Wrap
<1>3. \A p \in 0 .. ROB_SIZE - 1 : /\ Ring!Slot(p) \in Ring!Slots
                                   /\ vld_bits[Ring!Slot(p)] <=> p < count
  <2> TAKE p \in 0 .. ROB_SIZE - 1
  <2>1. p \in 0 .. ROB_SIZE
    BY <1>1
  <2>2. Ring!Wrap(head_ptr + p) \in Ring!Slots
    BY <1>1, <2>1, SizeAssumption, RenameWidthAssumption, CommitWidthAssumption, EmptyNotKind, Ring!WrapType
  <2> QED
    BY <2>2 DEF Ring!Slot, Ring!Inv, Ring!WindowAgrees
<1>4. ASSUME NEW s \in Ring!Slots, vld_bits[s] PROVE \E p \in 0 .. count - 1 : s = Ring!Slot(p)
  <2>1. PICK p \in 0 .. ROB_SIZE - 1 : s = Ring!Wrap(head_ptr + p)
    BY <1>1, SizeAssumption, RenameWidthAssumption, CommitWidthAssumption, EmptyNotKind, Ring!WrapOnto
  <2>2. p \in 0 .. count - 1
    BY <1>1, <1>3, <1>4, <2>1 DEF Ring!Slot
  <2> QED
    BY <2>1, <2>2 DEF Ring!Slot
<1>5. \A p \in 0 .. count - 1 : p \in 0 .. ROB_SIZE - 1 /\ p < count
  BY <1>1
<1> QED
  BY <1>1, <1>2, <1>3, <1>4, <1>5, SameRing DEF Slots, PlaceAge

\* The oldest of some places of the window is the one nearest the head.
LEMMA OldestPlace ==
  ASSUME Ring!Inv, NEW P \in SUBSET (0 .. ROB_SIZE - 1), P # {},
         NEW ages, ages = {PlaceAge(p) : p \in P}
  PROVE  \E q \in P : Oldest(ages) = PlaceAge(q) /\ \A p \in P : q <= p
<1>1. ROB_SIZE \in Nat /\ P \in SUBSET Nat
  BY SizeAssumption, RenameWidthAssumption, CommitWidthAssumption
<1>2. PICK q \in P : \A p \in P : q <= p
  BY <1>1, SizeAssumption, RenameWidthAssumption, CommitWidthAssumption, EmptyNotKind, Ring!LeastElement
<1>3. PlaceAge(q) \in ages /\ \A b \in ages \ {PlaceAge(q)} : DQ!OlderThan(PlaceAge(q), b)
  <2>1. ASSUME NEW p \in P, PlaceAge(p) # PlaceAge(q)
        PROVE  DQ!OlderThan(PlaceAge(q), PlaceAge(p))
    <3>1. q # p
      BY <2>1
    <3>2. q < p
      BY <1>1, <1>2, <3>1
    <3> QED
      BY <3>2, PlaceOrder
  <2> QED
    BY <2>1
<1>4. PICK a : a = Oldest(ages)
  OBVIOUS
<1>5. a \in ages /\ \A b \in ages \ {a} : DQ!OlderThan(a, b)
  BY <1>3, <1>4 DEF Oldest
<1>6. PICK r \in P : a = PlaceAge(r)
  BY <1>5
<1>7. ASSUME NEW p \in P PROVE r <= p
  <2>1. CASE PlaceAge(p) = a
    <3>1. ~DQ!OlderThan(PlaceAge(p), PlaceAge(r)) 
      <4>1. DQ!OlderThan(PlaceAge(r), PlaceAge(r)) <=> r < r
        BY PlaceOrder
      <4> QED
        BY <1>1, <1>6, <2>1, <4>1
    <3>2. ~(p < r)
      BY <3>1, PlaceOrder
    <3> QED
      BY <1>1, <3>2
  <2>2. CASE PlaceAge(p) # a
    <3>1. DQ!OlderThan(PlaceAge(r), PlaceAge(p))
      BY <1>5, <1>6, <2>2
    <3> QED
      BY <1>1, <3>1, PlaceOrder
  <2> QED
    BY <2>1, <2>2
<1> QED
  BY <1>4, <1>6, <1>7

-----------------------------------------------------------------------------
(* What leaves and what is squashed. *)

\* The entries that leave are finished ones.
LEMMA WillFacts ==
  ASSUME Ring!Inv, commit_stall \in BOOLEAN
  PROVE  /\ WillNum \in Nat /\ WillNum <= count
         /\ \A k \in 0 .. WillNum - 1 : clear_bits[DQ!Slot(k)]
         /\ commit_stall => WillNum = 0
<1>1. WillNum = Ring!ClearNum(commit_stall)
  BY SameRing DEF WillNum
<1>2. Ring!ClearNum(commit_stall) \in 0 .. count
  BY SizeAssumption, RenameWidthAssumption, CommitWidthAssumption, EmptyNotKind, Ring!ClearNumFacts DEF Ring!Inv
<1>3. \A k \in 0 .. Ring!ClearNum(commit_stall) - 1 : clear_bits[Ring!Slot(k)]
  BY SizeAssumption, RenameWidthAssumption, CommitWidthAssumption, EmptyNotKind, Ring!ClearNumDefined
<1>4. commit_stall => WillNum = 0
  BY DEF WillNum, DQ!ClearNum
<1>5. count \in Nat
  BY PlaceOf
<1> QED
  BY <1>1, <1>2, <1>3, <1>4, <1>5, SameRing

\* Of these, the ones before the first that is stopped commit.
LEMMA CommitFacts ==
  ASSUME WillNum \in Nat
  PROVE  /\ CommitNum \in 0 .. WillNum
         /\ \A k \in 0 .. CommitNum - 1 : ~Stops(k)
         /\ CommitNum = WillNum \/ Stops(CommitNum)
<1> DEFINE T == {m \in 0 .. WillNum : m = WillNum \/ Stops(m)}
<1>1. T \in SUBSET Nat /\ WillNum \in T
  OBVIOUS
<1>2. PICK m \in T : \A k \in T : m <= k
  BY <1>1, SizeAssumption, RenameWidthAssumption, CommitWidthAssumption, EmptyNotKind, Ring!LeastElement
<1>3. ASSUME NEW k \in 0 .. m - 1 PROVE ~Stops(k)
  <2>1. k \in 0 .. WillNum /\ ~(m <= k)
    BY <1>1, <1>2
  <2> QED
    BY <1>2, <2>1
<1>4. \E i \in 0 .. WillNum : /\ \A k \in 0 .. i - 1 : ~Stops(k)
                              /\ i = WillNum \/ Stops(i)
  BY <1>2, <1>3
<1> QED
  BY <1>4 DEF CommitNum

\* The types of what decides on the squash.
CommitType ==
  /\ shr.type # "null" => shr.type \in {"except", "mispred"}
  /\ squash_vld \in BOOLEAN
  /\ commit_stall \in BOOLEAN /\ do_except \in BOOLEAN
  /\ status \in {"normal", "trapProcess"}

\* What leaves with the reason of a squash among it makes a squash pending; so
\* does a stopped group; and a pending squash stays pending until it is taken.
LEMMA SquashPends ==
  ASSUME Ring!Inv, CommitType, Control, ~squash_vld, TakeSquash
  PROVE  /\ Control'
         /\ Pending => Pending'
         /\ ~Pending' => /\ CommitNum = WillNum
                         /\ \A k \in 0 .. WillNum - 1 : ~Match(k)
                         /\ UNCHANGED squash_vld
<1>1. /\ WillNum \in Nat
      /\ commit_stall => WillNum = 0
  BY WillFacts DEF CommitType
<1>2. /\ CommitNum \in 0 .. WillNum
      /\ CommitNum = WillNum \/ Stops(CommitNum)
  BY <1>1, CommitFacts
<1>3. (\E k \in 0 .. WillNum - 1 : Match(k)) <=> has_except \/ has_mispred
  BY DEF has_except, has_mispred, Squashing, Match, CommitType
<1>4. ~(has_except /\ has_mispred)
  BY DEF has_except, has_mispred, Squashing
<1>5. status = "trapProcess" => ~has_except /\ ~has_mispred
  BY <1>1, <1>3 DEF Control
<1>6. Control' /\ (Pending => Pending') /\ (has_except \/ has_mispred => Pending')
  BY <1>4, <1>5 DEF TakeSquash, Control, Pending, CommitType
<1>7. CommitNum # WillNum => has_except \/ has_mispred
  <2>1. ASSUME CommitNum # WillNum PROVE \E k \in 0 .. WillNum - 1 : Match(k)
    <3>1. CommitNum \in 0 .. WillNum - 1 /\ Stops(CommitNum)
      BY <1>1, <1>2, <2>1
    <3>2. PICK c \in 0 .. WillNum - 1 : Stops(c)
      BY <3>1
    <3>3. Match(c) \/ (c > 0 /\ Match(c - 1))
      BY <3>2 DEF Stops
    <3>4. c > 0 => c - 1 \in 0 .. WillNum - 1
      BY <1>1
    <3> QED
      BY <3>2, <3>3, <3>4
  <2> QED
    BY <1>3, <2>1
<1>8. ~Pending' => UNCHANGED squash_vld
  BY <1>6 DEF TakeSquash, Pending, CommitType
<1> QED
  BY <1>3, <1>6, <1>7, <1>8

-----------------------------------------------------------------------------
(* A cycle of the buffer. *)

\* A group that is dispatched enters.
LEMMA GroupEnters ==
  ASSUME Ring!Inv, NEW enq \in Groups
  PROVE  /\ enq \in Ring!Groups
         /\ Len(enq) \in Nat /\ enq \in [1 .. Len(enq) -> Kinds]
         /\ count + Len(enq) <= ROB_SIZE
         /\ DQ!Entering(enq) = enq
<1>1. RENAME_WIDTH \in Nat /\ count \in Nat /\ ROB_SIZE \in Nat
  BY SizeAssumption, RenameWidthAssumption, CommitWidthAssumption, PlaceOf
<1>2. PICK n \in 0 .. RENAME_WIDTH : enq \in [1 .. n -> Kinds] /\ DQ!CanEnq(n)
  BY DEF Groups
<1>3. n \in Nat /\ Len(enq) = n
  <2>1. n \in Nat /\ enq \in Seq(Kinds)
    BY <1>1, <1>2
  <2> QED
    BY <1>2, <2>1
<1> QED
  BY <1>1, <1>2, <1>3 DEF Ring!Groups, DQ!Entering, DQ!CanEnq

\* The places of a cycle: n leave, the old ones keep their instructions, the
\* new ones get theirs and the ages that were given.
LEMMA CyclePlaces ==
  ASSUME Ring!Inv, commit_stall \in BOOLEAN, NEW enq \in Groups, NEW marks \in SUBSET (1 .. Len(enq)),
         NEW finished \in SUBSET {s \in Slots : vld_bits[s]},
         DQ!Cycle(enq, marks, finished, commit_stall)
  PROVE  /\ Ring!Inv'
         /\ count' = count + Len(enq) - WillNum
         /\ \A p \in WillNum .. count + Len(enq) - 1 :
              /\ DQ!Slot(p) \in Slots
              /\ \A j : j = p - WillNum => DQ!Slot(j)' = DQ!Slot(p)
              /\ vld_bits'[DQ!Slot(p)]
              /\ \A s : s = DQ!Slot(p) => Age(s)' = PlaceAge(p)
              /\ p < count =>
                   /\ buffer'[DQ!Slot(p)] = buffer[DQ!Slot(p)]
                   /\ clear_bits'[DQ!Slot(p)] <=> clear_bits[DQ!Slot(p)] \/ DQ!Slot(p) \in finished
              /\ p >= count =>
                   /\ buffer'[DQ!Slot(p)] = enq[p - count + 1]
                   /\ clear_bits'[DQ!Slot(p)] <=> p - count + 1 \in marks
         /\ \A s \in Slots : vld_bits'[s] => \E p \in WillNum .. count + Len(enq) - 1 : s = DQ!Slot(p)
<1>1. enq \in Ring!Groups /\ DQ!Entering(enq) = enq
  BY GroupEnters
<1>2. Ring!Cycle(enq, marks, finished, commit_stall)
  BY SameCycle
<1>3. finished \in SUBSET {s \in Ring!Slots : vld_bits[s]}
  BY SameRing DEF Slots
<1>4. Ring!Inv'
  BY <1>1, <1>2, <1>3, SizeAssumption, RenameWidthAssumption, CommitWidthAssumption, EmptyNotKind, Ring!CycleInv
<1>5. LET n == Ring!ClearNum(commit_stall)
          m == Len(Ring!Entering(enq))
      IN /\ count' = count + m - n
         /\ \A p \in n .. count + m - 1 :
              /\ Ring!Slot(p) \in Ring!Slots
              /\ Ring!Wrap(head_ptr' + (p - n)) = Ring!Slot(p)
              /\ vld_bits'[Ring!Slot(p)]
              /\ [idx |-> Ring!Slot(p), flipped |-> flip_bits'[Ring!Slot(p)]] = Ring!WindowAge(p)
              /\ p < count =>
                   /\ buffer'[Ring!Slot(p)] = buffer[Ring!Slot(p)]
                   /\ clear_bits'[Ring!Slot(p)] <=> clear_bits[Ring!Slot(p)] \/ Ring!Slot(p) \in finished
              /\ p >= count =>
                   /\ buffer'[Ring!Slot(p)] = Ring!Entering(enq)[p - count + 1]
                   /\ clear_bits'[Ring!Slot(p)] <=> p - count + 1 \in marks
         /\ \A s \in Ring!Slots : vld_bits'[s] => \E p \in n .. count + m - 1 : s = Ring!Slot(p)
  BY <1>1, <1>2, <1>3, SizeAssumption, RenameWidthAssumption, CommitWidthAssumption, EmptyNotKind, Ring!CycleWindow, ZenonT(60)
<1>6. Ring!ClearNum(commit_stall) = WillNum /\ Ring!Entering(enq) = enq
  BY <1>1, SameRing DEF WillNum
<1>7. \A p : Ring!Slot(p) = DQ!Slot(p) /\ Ring!WindowAge(p) = PlaceAge(p)
  BY SameRing, Zenon DEF PlaceAge, Ring!WindowAge, Age, Ring!AgeAt
<1>8. Ring!Slots = Slots
  BY SameRing DEF Slots
<1> DEFINE n == WillNum
           m == Len(enq)
<1>9. n = WillNum /\ m = Len(enq)
  OBVIOUS
<1> HIDE DEF n, m
<1>10. /\ n \in Nat /\ n <= count /\ count \in Nat /\ m \in Nat /\ count + m <= ROB_SIZE
  BY <1>9, WillFacts, GroupEnters, PlaceOf
<1>11. count' = count + m - n
  BY <1>5, <1>6, <1>9
<1>12. ASSUME NEW p \in n .. count + m - 1
       PROVE  /\ DQ!Slot(p) \in Slots
              /\ \A j : j = p - n => DQ!Slot(j)' = DQ!Slot(p)
              /\ vld_bits'[DQ!Slot(p)]
              /\ \A s : s = DQ!Slot(p) => Age(s)' = PlaceAge(p)
              /\ p < count =>
                   /\ buffer'[DQ!Slot(p)] = buffer[DQ!Slot(p)]
                   /\ clear_bits'[DQ!Slot(p)] <=> clear_bits[DQ!Slot(p)] \/ DQ!Slot(p) \in finished
              /\ p >= count =>
                   /\ buffer'[DQ!Slot(p)] = enq[p - count + 1]
                   /\ clear_bits'[DQ!Slot(p)] <=> p - count + 1 \in marks
  <2>1. /\ Ring!Slot(p) \in Ring!Slots
        /\ Ring!Wrap(head_ptr' + (p - n)) = Ring!Slot(p)
        /\ vld_bits'[Ring!Slot(p)]
        /\ [idx |-> Ring!Slot(p), flipped |-> flip_bits'[Ring!Slot(p)]] = Ring!WindowAge(p)
        /\ p < count =>
             /\ buffer'[Ring!Slot(p)] = buffer[Ring!Slot(p)]
             /\ clear_bits'[Ring!Slot(p)] <=> clear_bits[Ring!Slot(p)] \/ Ring!Slot(p) \in finished
        /\ p >= count =>
             /\ buffer'[Ring!Slot(p)] = enq[p - count + 1]
             /\ clear_bits'[Ring!Slot(p)] <=> p - count + 1 \in marks
    BY <1>5, <1>6, <1>9, Zenon
  <2>2. Ring!Slot(p) = DQ!Slot(p) /\ Ring!WindowAge(p) = PlaceAge(p)
    BY <1>7
  <2>3. ASSUME NEW s, s = DQ!Slot(p) PROVE Age(s)' = [idx |-> s, flipped |-> flip_bits'[s]]
    BY DEF Age
  <2>4. ASSUME NEW j, j = p - n PROVE DQ!Slot(j)' = Ring!Wrap(head_ptr' + (p - n))
    BY <2>4 DEF DQ!Slot, DQ!Wrap, Ring!Wrap
  <2> QED
    BY <1>8, <2>1, <2>2, <2>3, <2>4, Zenon
<1>13. \A s \in Slots : vld_bits'[s] => \E p \in n .. count + m - 1 : s = DQ!Slot(p)
  <2>1. \A s \in Ring!Slots : vld_bits'[s] => \E p \in n .. count + m - 1 : s = Ring!Slot(p)
    BY <1>5, <1>6, <1>9, Zenon
  <2> QED
    BY <1>7, <1>8, <2>1, Zenon
<1> QED
  BY <1>4, <1>11, <1>12, <1>13, Zenon DEF n, m

\* the inputs of a cycle, as Advance draws them
Inputs(enq, moves, done, s1, stas, vios) ==
  /\ enq \in Groups /\ moves \in SUBSET {k \in DOMAIN enq : enq[k] = "plain"}
  /\ done \in SUBSET Unfinished({"plain", "branch", "eret", "store"})
  /\ s1 \in SUBSET IssuableLoads /\ stas \in SUBSET IssuableStores
  /\ vios \in SUBSET Here({"load"})
  /\ MayFinish(done) /\ MayViolate(vios, s1, stas)

Illegal(enq) == {k \in DOMAIN enq : enq[k] = "illegal"}

\* The ring's part of a cycle.
LEMMA RingPart ==
  ASSUME MachineInv, NEW enq, NEW moves, NEW done, NEW s1, NEW stas, NEW vios,
         Inputs(enq, moves, done, s1, stas, vios), Cycle(enq, moves, done, s1, stas, vios)
  PROVE  /\ DQ!Cycle(enq, moves \union Illegal(enq), done \union s3, commit_stall)
         /\ moves \union Illegal(enq) \in SUBSET (1 .. Len(enq))
         /\ done \union s3 \in SUBSET {s \in Slots : vld_bits[s]}
         /\ Len(enq) \in Nat /\ enq \in [1 .. Len(enq) -> Kinds]
         /\ count + Len(enq) <= ROB_SIZE
         /\ enq \in Groups /\ commit_stall \in BOOLEAN /\ ~squash_vld
<1>1. /\ Len(enq) \in Nat /\ enq \in [1 .. Len(enq) -> Kinds]
      /\ count + Len(enq) <= ROB_SIZE
      /\ DQ!Entering(enq) = enq
  BY GroupEnters DEF MachineInv, Inputs
<1>2. DQ!Cycle(enq, moves \union Illegal(enq), done \union s3, commit_stall)
  <2>1. DQ!Cycle(enq, moves \union {k \in DOMAIN DQ!Entering(enq) : DQ!Entering(enq)[k] = "illegal"},
                 done \union s3, commit_stall)
    BY Zenon DEF Cycle
  <2>2. {k \in DOMAIN DQ!Entering(enq) : DQ!Entering(enq)[k] = "illegal"} = Illegal(enq)
    BY <1>1 DEF Illegal
  <2> QED
    BY <2>1, <2>2, Zenon
<1>3. moves \union Illegal(enq) \in SUBSET (1 .. Len(enq))
  BY <1>1 DEF Inputs, Illegal
<1>4. done \union s3 \in SUBSET {s \in Slots : vld_bits[s]}
  BY DEF Inputs, MachineInv, Pipes, Unfinished, Here
<1> QED
  BY <1>1, <1>2, <1>3, <1>4 DEF Inputs, MachineInv, TypeOK, Cycle

\* Its places.
LEMMA Places ==
  ASSUME MachineInv, NEW enq, NEW moves, NEW done, NEW s1, NEW stas, NEW vios,
         Inputs(enq, moves, done, s1, stas, vios), Cycle(enq, moves, done, s1, stas, vios)
  PROVE  /\ Ring!Inv'
         /\ count' = count + Len(enq) - WillNum
         /\ \A p \in WillNum .. count + Len(enq) - 1 :
              /\ DQ!Slot(p) \in Slots
              /\ \A j : j = p - WillNum => DQ!Slot(j)' = DQ!Slot(p)
              /\ vld_bits'[DQ!Slot(p)]
              /\ \A s : s = DQ!Slot(p) => Age(s)' = PlaceAge(p)
              /\ p < count =>
                   /\ buffer'[DQ!Slot(p)] = buffer[DQ!Slot(p)]
                   /\ clear_bits'[DQ!Slot(p)] <=> clear_bits[DQ!Slot(p)] \/ DQ!Slot(p) \in done \union s3
              /\ p >= count =>
                   /\ buffer'[DQ!Slot(p)] = enq[p - count + 1]
                   /\ clear_bits'[DQ!Slot(p)] <=> p - count + 1 \in moves \union Illegal(enq)
         /\ \A s \in Slots : vld_bits'[s] => \E p \in WillNum .. count + Len(enq) - 1 : s = DQ!Slot(p)
<1> DEFINE marks == moves \union Illegal(enq)
           finished == done \union s3
<1>1. /\ Ring!Inv /\ commit_stall \in BOOLEAN /\ enq \in Groups
      /\ marks \in SUBSET (1 .. Len(enq))
      /\ finished \in SUBSET {s \in Slots : vld_bits[s]}
      /\ DQ!Cycle(enq, marks, finished, commit_stall)
  BY RingPart DEF MachineInv
<1> HIDE DEF marks, finished
<1>2. /\ Ring!Inv'
      /\ count' = count + Len(enq) - WillNum
      /\ \A p \in WillNum .. count + Len(enq) - 1 :
           /\ DQ!Slot(p) \in Slots
           /\ \A j : j = p - WillNum => DQ!Slot(j)' = DQ!Slot(p)
           /\ vld_bits'[DQ!Slot(p)]
           /\ \A s : s = DQ!Slot(p) => Age(s)' = PlaceAge(p)
           /\ p < count =>
                /\ buffer'[DQ!Slot(p)] = buffer[DQ!Slot(p)]
                /\ clear_bits'[DQ!Slot(p)] <=> clear_bits[DQ!Slot(p)] \/ DQ!Slot(p) \in finished
           /\ p >= count =>
                /\ buffer'[DQ!Slot(p)] = enq[p - count + 1]
                /\ clear_bits'[DQ!Slot(p)] <=> p - count + 1 \in marks
      /\ \A s \in Slots : vld_bits'[s] => \E p \in WillNum .. count + Len(enq) - 1 : s = DQ!Slot(p)
  BY <1>1, CyclePlaces, Zenon
<1> QED
  BY <1>2 DEF marks, finished

\* An instruction that is not finished stays where it is, and so does whatever
\* is behind it.
LEMMA Stays ==
  ASSUME MachineInv, NEW enq, NEW moves, NEW done, NEW s1, NEW stas, NEW vios,
         Inputs(enq, moves, done, s1, stas, vios), Cycle(enq, moves, done, s1, stas, vios),
         NEW r \in Slots, vld_bits[r], ~clear_bits[r],
         NEW s \in Slots, s = r \/ s \in Younger(r)
  PROVE  /\ vld_bits'[s] /\ buffer'[s] = buffer[s] /\ Age(s)' = Age(s)
         /\ clear_bits'[s] <=> clear_bits[s] \/ s \in done \union s3
         /\ \A k \in 0 .. WillNum - 1 : s # DQ!Slot(k) /\ Age(s) # Age(DQ!Slot(k))
<1>1. Ring!Inv /\ commit_stall \in BOOLEAN
  BY DEF MachineInv, TypeOK
<1>2. /\ count \in Nat /\ count <= ROB_SIZE /\ ROB_SIZE \in Nat
      /\ \A p \in 0 .. count - 1 : vld_bits[DQ!Slot(p)] /\ PlaceAge(p) = Age(DQ!Slot(p))
      /\ \A t \in Slots : vld_bits[t] => \E p \in 0 .. count - 1 : t = DQ!Slot(p)
  BY <1>1, PlaceOf
<1>3. /\ WillNum \in Nat /\ WillNum <= count
      /\ \A k \in 0 .. WillNum - 1 : clear_bits[DQ!Slot(k)]
  BY <1>1, WillFacts
<1>4. vld_bits[s]
  BY DEF Younger
<1>5. PICK i \in 0 .. count - 1 : r = DQ!Slot(i)
  BY <1>2
<1>6. PICK j \in 0 .. count - 1 : s = DQ!Slot(j)
  BY <1>2, <1>4
<1>7. WillNum <= i
  BY <1>2, <1>3, <1>5
<1>8. i <= j
  <2>1. CASE s = r
    <3>1. PlaceAge(i) = PlaceAge(j)
      BY <1>2, <1>5, <1>6, <2>1
    <3>2. i \in 0 .. ROB_SIZE - 1 /\ j \in 0 .. ROB_SIZE - 1
      BY <1>2
    <3>3. ~(j < i)
      <4>1. DQ!OlderThan(PlaceAge(j), PlaceAge(i)) <=> j < i
        BY <1>1, <3>2, PlaceOrder
      <4>2. DQ!OlderThan(PlaceAge(i), PlaceAge(i)) <=> i < i
        BY <1>1, <3>2, PlaceOrder
      <4> QED
        BY <1>2, <3>1, <4>1, <4>2
    <3> QED
      BY <1>2, <3>3
  <2>2. CASE s \in Younger(r)
    <3>1. DQ!OlderThan(PlaceAge(i), PlaceAge(j))
      BY <1>2, <1>5, <1>6, <2>2 DEF Younger
    <3>2. i \in 0 .. ROB_SIZE - 1 /\ j \in 0 .. ROB_SIZE - 1
      BY <1>2
    <3>3. i < j
      BY <1>1, <3>1, <3>2, PlaceOrder
    <3> QED
      BY <1>2, <3>3
  <2> QED
    BY <2>1, <2>2
<1>9. Len(enq) \in Nat
  BY RingPart
<1>10. j \in WillNum .. count + Len(enq) - 1 /\ j < count
  BY <1>2, <1>3, <1>7, <1>8, <1>9
<1>11. /\ vld_bits'[DQ!Slot(j)]
       /\ \A t : t = DQ!Slot(j) => Age(t)' = PlaceAge(j)
       /\ buffer'[DQ!Slot(j)] = buffer[DQ!Slot(j)]
       /\ clear_bits'[DQ!Slot(j)] <=> clear_bits[DQ!Slot(j)] \/ DQ!Slot(j) \in done \union s3
  BY <1>10, Places, Zenon
<1>12. ASSUME NEW k \in 0 .. WillNum - 1 PROVE s # DQ!Slot(k) /\ Age(s) # Age(DQ!Slot(k))
  <2>1. k < j /\ k \in 0 .. count - 1 /\ k \in 0 .. ROB_SIZE - 1 /\ j \in 0 .. ROB_SIZE - 1 /\ ~(j < j)
    BY <1>2, <1>3, <1>7, <1>8
  <2>2. DQ!OlderThan(PlaceAge(k), PlaceAge(j)) /\ ~DQ!OlderThan(PlaceAge(j), PlaceAge(j))
    BY <1>1, <2>1, PlaceOrder
  <2>3. PlaceAge(k) # PlaceAge(j)
    BY <2>2
  <2> QED
    BY <1>2, <1>6, <2>1, <2>3
<1>13. Age(s)' = PlaceAge(j)
  BY <1>6, <1>11, Zenon
<1>14. Age(s) = PlaceAge(j)
  BY <1>2, <1>6
<1> QED
  BY <1>6, <1>11, <1>12, <1>13, <1>14, Zenon

-----------------------------------------------------------------------------
(* The pipelines of the memory block. *)

\* A load found to have read too early is behind a store that has its address
\* only now, so one that cannot have finished.
LEMMA PipesNext ==
  ASSUME MachineInv, NEW enq, NEW moves, NEW done, NEW s1, NEW stas, NEW vios,
         Inputs(enq, moves, done, s1, stas, vios), Cycle(enq, moves, done, s1, stas, vios)
  PROVE  Pipes'
<1>0. s2' = s1 /\ s3' = s2 /\ violation' = vios /\ st_except' = {s \in stas : buffer[s] = "sfault"}
  BY DEF Cycle
<1>1. \A s \in Slots : vld_bits[s] /\ ~clear_bits[s] /\ s \notin done \union s3 =>
        /\ vld_bits'[s] /\ buffer'[s] = buffer[s] /\ ~clear_bits'[s] /\ Age(s)' = Age(s)
  BY Stays
<1>2. \A s \in s1 : /\ s \in Slots /\ vld_bits[s] /\ ~clear_bits[s]
                    /\ buffer[s] \in {"load", "lfault"} /\ s \notin s2 /\ s \notin s3 /\ s \notin done
  BY DEF Inputs, IssuableLoads, Unfinished, Here
<1>3. \A s \in s2 : /\ s \in Slots /\ vld_bits[s] /\ ~clear_bits[s]
                    /\ buffer[s] \in {"load", "lfault"} /\ s \notin s3 /\ s \notin done
  BY DEF MachineInv, Pipes, Inputs, Unfinished, Here
<1>4. \A s \in stas : /\ s \in Slots /\ vld_bits[s] /\ ~clear_bits[s]
                      /\ buffer[s] \in {"store", "sfault"} /\ s \notin s3 /\ s \notin done
  BY DEF MachineInv, Pipes, Inputs, MayFinish, IssuableStores, Unfinished, Here
<1>5. (s2 \subseteq Unfinished({"load", "lfault"}))'
  BY <1>0, <1>1, <1>2 DEF Unfinished, Here, Slots, DQ!Slots
<1>6. (s3 \subseteq Unfinished({"load", "lfault"}))'
  BY <1>0, <1>1, <1>3 DEF Unfinished, Here, Slots, DQ!Slots
<1>7. (s2 \intersect s3 = {})'
  BY <1>0, <1>2
<1>8. (st_except \subseteq Unfinished({"sfault"}))'
  BY <1>0, <1>1, <1>4 DEF Unfinished, Here, Slots, DQ!Slots
<1>9. ASSUME NEW v \in vios
      PROVE  (v \in Here({"load"}) /\ \E r \in Unfinished({"store"}) : v \in Younger(r))'
  <2>1. v \in Here({"load"})
    BY DEF Inputs
  <2>2. PICK r \in stas : buffer[r] = "store" /\ v \in Younger(r)
    BY DEF Inputs, MayViolate
  <2>3. /\ v \in Slots /\ r \in Slots /\ vld_bits[r] /\ ~clear_bits[r] /\ DQ!OlderThan(Age(r), Age(v))
        /\ buffer[v] = "load"
    BY <1>4, <2>1, <2>2 DEF Younger, Here
  <2>4. vld_bits'[v] /\ buffer'[v] = buffer[v] /\ Age(v)' = Age(v)
    BY <2>2, <2>3, Stays
  <2>5. vld_bits'[r] /\ buffer'[r] = buffer[r] /\ ~clear_bits'[r] /\ Age(r)' = Age(r)
    BY <1>1, <1>4, <2>3
  <2>6. (v \in Here({"load"}))'
    BY <2>3, <2>4 DEF Here, Slots, DQ!Slots
  <2>7. (r \in Unfinished({"store"}))'
    BY <2>2, <2>3, <2>5 DEF Unfinished, Here, Slots, DQ!Slots
  <2>8. DQ!OlderThan(Age(r), Age(v))'
    BY <2>3, <2>4, <2>5 DEF DQ!OlderThan
  <2>9. (v \in Younger(r))'
    BY <2>3, <2>4, <2>8 DEF Younger, Slots, DQ!Slots
  <2> QED
    BY <2>6, <2>7, <2>9
<1>10. (\A v \in violation : v \in Here({"load"}) /\ \E r \in Unfinished({"store"}) : v \in Younger(r))'
  BY <1>0, <1>9
<1> QED
  BY <1>5, <1>6, <1>7, <1>8, <1>10 DEF Pipes

\* What enters the buffer is an instruction.
LEMMA FilledNext ==
  ASSUME MachineInv, NEW enq, NEW moves, NEW done, NEW s1, NEW stas, NEW vios,
         Inputs(enq, moves, done, s1, stas, vios), Cycle(enq, moves, done, s1, stas, vios)
  PROVE  Filled'
<1>1. \A s \in Slots : vld_bits'[s] => \E p \in WillNum .. count + Len(enq) - 1 : s = DQ!Slot(p)
  BY Places, Zenon
<1>2. \A p \in WillNum .. count + Len(enq) - 1 :
        /\ p < count => buffer'[DQ!Slot(p)] = buffer[DQ!Slot(p)]
        /\ p >= count => buffer'[DQ!Slot(p)] = enq[p - count + 1]
  BY Places, Zenon
<1>3. /\ count \in Nat /\ count <= ROB_SIZE /\ ROB_SIZE \in Nat
      /\ \A p \in 0 .. count - 1 : vld_bits[DQ!Slot(p)]
      /\ \A p \in 0 .. ROB_SIZE - 1 : DQ!Slot(p) \in Slots
      /\ WillNum \in Nat /\ Len(enq) \in Nat /\ enq \in [1 .. Len(enq) -> Kinds]
  BY PlaceOf, WillFacts, RingPart DEF MachineInv
<1>4. ASSUME NEW p \in WillNum .. count + Len(enq) - 1 PROVE buffer'[DQ!Slot(p)] \in Kinds
  <2>1. CASE p < count
    <3>1. p \in 0 .. count - 1 /\ p \in 0 .. ROB_SIZE - 1
      BY <1>3, <2>1
    <3>2. buffer[DQ!Slot(p)] \in Kinds
      BY <1>3, <3>1 DEF MachineInv, Filled
    <3> QED
      BY <1>2, <2>1, <3>2
  <2>2. CASE p >= count
    <3>1. p - count + 1 \in 1 .. Len(enq)
      BY <1>3, <2>2
    <3> QED
      BY <1>2, <1>3, <2>2, <3>1
  <2> QED
    BY <1>3, <2>1, <2>2
<1> QED
  BY <1>1, <1>4 DEF Filled, Slots, DQ!Slots

\* The oldest age of some instructions in the buffer is that of one of them that
\* is behind none.
LEMMA OldestHere ==
  ASSUME Ring!Inv, NEW S \in SUBSET {s \in Slots : vld_bits[s]}, S # {}
  PROVE  \E s \in S : /\ Oldest({Age(t) : t \in S}) = Age(s)
                      /\ \A t \in S : ~DQ!OlderThan(Age(t), Age(s))
<1> DEFINE P == {p \in 0 .. count - 1 : DQ!Slot(p) \in S}
           ages == {Age(t) : t \in S}
<1>1. /\ count \in Nat /\ count <= ROB_SIZE /\ ROB_SIZE \in Nat
      /\ \A p \in 0 .. count - 1 : vld_bits[DQ!Slot(p)] /\ PlaceAge(p) = Age(DQ!Slot(p))
      /\ \A t \in Slots : vld_bits[t] => \E p \in 0 .. count - 1 : t = DQ!Slot(p)
  BY PlaceOf
<1>2. \A t \in S : \E p \in P : t = DQ!Slot(p) /\ PlaceAge(p) = Age(t)
  BY <1>1
<1>3. \A p \in P : DQ!Slot(p) \in S /\ PlaceAge(p) = Age(DQ!Slot(p))
  BY <1>1
<1>4. P \in SUBSET (0 .. ROB_SIZE - 1)
  BY <1>1
<1> HIDE DEF P
<1>5. ages = {PlaceAge(p) : p \in P}
  BY <1>2, <1>3
<1>6. P # {}
  BY <1>2
<1> HIDE DEF ages
<1>7. PICK q \in P : Oldest(ages) = PlaceAge(q) /\ \A p \in P : q <= p
  BY <1>4, <1>5, <1>6, OldestPlace
<1>8. ASSUME NEW t \in S PROVE ~DQ!OlderThan(Age(t), PlaceAge(q))
  <2>1. PICK p \in P : PlaceAge(p) = Age(t)
    BY <1>2
  <2>2. p \in 0 .. ROB_SIZE - 1 /\ q \in 0 .. ROB_SIZE - 1
    BY <1>4
  <2>3. ~(p < q)
    BY <1>1, <1>7, <2>2
  <2> QED
    BY <2>1, <2>2, <2>3, PlaceOrder
<1>9. DQ!Slot(q) \in S /\ PlaceAge(q) = Age(DQ!Slot(q))
  BY <1>3
<1> QED
  BY <1>7, <1>8, <1>9, Zenon DEF ages

\* What the memory block reports is one of what its units found, none of which
\* is older.
LEMMA ReportFacts ==
  ASSUME Ring!Inv, NEW V \in SUBSET {s \in Slots : vld_bits[s]}, NEW F \in SUBSET {s \in Slots : vld_bits[s]}
  PROVE  \/ Report(V, F) = {} /\ V \union F = {}
         \/ \E s \in V \union F : /\ Report(V, F) = {[age |-> Age(s), vio |-> s \notin F]}
                                  /\ \A t \in V \union F : ~DQ!OlderThan(Age(t), Age(s))
<1>1. CASE V \union F = {}
  BY <1>1, Zenon DEF Report, NoReport
<1>2. CASE V \union F # {}
  <2>1. PICK S \in SUBSET {s \in Slots : vld_bits[s]} : S = V \union F
    OBVIOUS
  <2>2. PICK s \in S : /\ Oldest({Age(t) : t \in S}) = Age(s)
                       /\ \A t \in S : ~DQ!OlderThan(Age(t), Age(s))
    BY <1>2, <2>1, OldestHere
  <2>3. Report(V, F) = {[age |-> Age(s), vio |-> Age(s).idx \notin F]}
    <3>1. Report(V, F) = {[age |-> Oldest({Age(t) : t \in S}), vio |-> Oldest({Age(t) : t \in S}).idx \notin F]}
      BY <1>2, <2>1, Zenon DEF Report
    <3> QED
      BY <2>2, <3>1, Zenon
  <2>4. Age(s).idx = s
    BY DEF Age
  <2> QED
    BY <2>1, <2>2, <2>3, <2>4, Zenon
<1> QED
  BY <1>1, <1>2

\* what the units of the memory block have for it in this cycle
Faults == st_except \union (s2 \intersect Here({"lfault"}))

\* The next report, and the instruction that it is about.
LEMMA ReportNext ==
  ASSUME MachineInv, NEW enq, NEW moves, NEW done, NEW s1, NEW stas, NEW vios,
         Inputs(enq, moves, done, s1, stas, vios), Cycle(enq, moves, done, s1, stas, vios)
  PROVE  \/ mem_except' = {} /\ violation \union Faults = {}
         \/ \E s \in violation \union Faults :
              /\ mem_except' = {[age |-> Age(s), vio |-> s \notin Faults]}
              /\ \A t \in violation \union Faults : ~DQ!OlderThan(Age(t), Age(s))
<1>1. mem_except' = Report(violation, Faults)
  BY DEF Cycle, Faults
<1>2. /\ violation \in SUBSET {s \in Slots : vld_bits[s]}
      /\ Faults \in SUBSET {s \in Slots : vld_bits[s]}
  BY DEF MachineInv, Pipes, Faults, Unfinished, Here
<1>3. Ring!Inv
  BY DEF MachineInv
<1> QED
  BY <1>1, <1>2, <1>3, ReportFacts, Zenon

\* Reports stay about instructions in the buffer: a fault about one that is not
\* finished, a violation about one behind the store that found it.
LEMMA ReportsNext ==
  ASSUME MachineInv, NEW enq, NEW moves, NEW done, NEW s1, NEW stas, NEW vios,
         Inputs(enq, moves, done, s1, stas, vios), Cycle(enq, moves, done, s1, stas, vios)
  PROVE  Reports'
<1>1. \A s \in Slots : vld_bits[s] /\ ~clear_bits[s] =>
        /\ vld_bits'[s] /\ buffer'[s] = buffer[s] /\ Age(s)' = Age(s)
        /\ clear_bits'[s] <=> s \in done \union s3
  BY Stays
<1>2. s3' = s2
  BY DEF Cycle
<1>3. \A s \in s2 : /\ s \in Slots /\ vld_bits[s] /\ ~clear_bits[s]
                    /\ buffer[s] \in {"load", "lfault"} /\ s \notin s3 /\ s \notin done
  BY DEF MachineInv, Pipes, Inputs, Unfinished, Here
<1>4. \A s \in st_except : /\ s \in Slots /\ vld_bits[s] /\ ~clear_bits[s]
                           /\ buffer[s] = "sfault" /\ s \notin s3 /\ s \notin done
  BY DEF MachineInv, Pipes, Inputs, Unfinished, Here
<1>5. ASSUME NEW s \in Faults
      PROVE  s \in Slots /\ Age(s)' = Age(s) /\ (s \in Unfinished({"lfault", "sfault"}))'
  <2>1. /\ s \in Slots /\ vld_bits[s] /\ ~clear_bits[s] /\ buffer[s] \in {"lfault", "sfault"}
        /\ s \notin s3 /\ s \notin done
    BY <1>3, <1>4 DEF Faults, Here
  <2> QED
    BY <1>1, <2>1 DEF Unfinished, Here, Slots, DQ!Slots
<1>6. ASSUME NEW v \in violation
      PROVE  /\ v \in Slots /\ Age(v)' = Age(v)
             /\ (v \in Here({"load"}) /\ \E r \in Here({"store"}) : v \in Younger(r))'
  <2>1. v \in Here({"load"})
    BY DEF MachineInv, Pipes
  <2>2. PICK r \in Unfinished({"store"}) : v \in Younger(r)
    BY DEF MachineInv, Pipes
  <2>3. /\ v \in Slots /\ r \in Slots /\ vld_bits[r] /\ ~clear_bits[r] /\ DQ!OlderThan(Age(r), Age(v))
        /\ buffer[v] = "load" /\ buffer[r] = "store"
    BY <2>1, <2>2 DEF Younger, Unfinished, Here
  <2>4. vld_bits'[v] /\ buffer'[v] = buffer[v] /\ Age(v)' = Age(v)
    BY <2>2, <2>3, Stays
  <2>5. vld_bits'[r] /\ buffer'[r] = buffer[r] /\ Age(r)' = Age(r)
    BY <1>1, <2>3
  <2>6. (v \in Here({"load"}))' /\ (r \in Here({"store"}))'
    BY <2>3, <2>4, <2>5 DEF Here, Slots, DQ!Slots
  <2>7. DQ!OlderThan(Age(r), Age(v))'
    BY <2>3, <2>4, <2>5 DEF DQ!OlderThan
  <2>8. (v \in Younger(r))'
    BY <2>3, <2>4, <2>7 DEF Younger, Slots, DQ!Slots
  <2> QED
    BY <2>3, <2>4, <2>6, <2>8
<1>7. CASE mem_except' = {} /\ violation \union Faults = {}
  <2>1. s2 \intersect Here({"lfault"}) = {}
    BY <1>7 DEF Faults
  <2>2. (s3 \intersect Here({"lfault"}))' = {}
    BY <1>1, <1>2, <1>3, <2>1 DEF Here, Slots, DQ!Slots
  <2> QED
    BY <1>7, <2>2, Zenon DEF Reports
<1>8. CASE \E s \in violation \union Faults :
             /\ mem_except' = {[age |-> Age(s), vio |-> s \notin Faults]}
             /\ \A t \in violation \union Faults : ~DQ!OlderThan(Age(t), Age(s))
  <2>1. PICK s \in violation \union Faults :
             /\ mem_except' = {[age |-> Age(s), vio |-> s \notin Faults]}
             /\ \A t \in violation \union Faults : ~DQ!OlderThan(Age(t), Age(s))
    BY <1>8
  <2>2. s \in Slots /\ Age(s)' = Age(s)
    BY <1>5, <1>6
  <2>3. \A e \in mem_except' : e.age = Age(s) /\ (e.vio <=> s \notin Faults)
    <3>1. PICK b \in BOOLEAN : b = (s \notin Faults)
      BY Zenon
    <3>2. mem_except' = {[age |-> Age(s), vio |-> b]}
      BY <2>1, <3>1, Zenon
    <3>3. \A e \in mem_except' : e.age = Age(s) /\ e.vio = b
      BY <3>2
    <3> QED
      BY <3>1, <3>3, Zenon
  <2>4. /\ s \notin Faults => (s \in Here({"load"}) /\ \E r \in Here({"store"}) : s \in Younger(r))'
        /\ s \in Faults => (s \in Unfinished({"lfault", "sfault"}))'
    BY <1>5, <1>6
  <2>5. (\A e \in mem_except : \E t \in Slots :
           /\ e.age = Age(t)
           /\ e.vio => t \in Here({"load"}) /\ \E r \in Here({"store"}) : t \in Younger(r)
           /\ ~e.vio => t \in Unfinished({"lfault", "sfault"}))'
    <3>1. Slots' = Slots
      BY DEF Slots, DQ!Slots
    <3>2. ASSUME NEW e \in mem_except'
          PROVE  (/\ e.age = Age(s)
                  /\ e.vio => s \in Here({"load"}) /\ \E r \in Here({"store"}) : s \in Younger(r)
                  /\ ~e.vio => s \in Unfinished({"lfault", "sfault"}))'
      BY <2>2, <2>3, <2>4
    <3> QED
      BY <2>2, <3>1, <3>2
  <2>6. ASSUME NEW t \in (s3 \intersect Here({"lfault"}))'
        PROVE  (\E e \in mem_except : ~DQ!OlderThan(Age(t), e.age))'
    <3>1. t \in s2 /\ buffer'[t] = "lfault"
      BY <1>2, <2>6 DEF Here
    <3>2. t \in Faults /\ Age(t)' = Age(t)
      BY <1>1, <1>3, <3>1 DEF Faults, Here
    <3>3. ~DQ!OlderThan(Age(t), Age(s))
      BY <2>1, <3>2
    <3>4. [age |-> Age(s), vio |-> s \notin Faults] \in mem_except'
      BY <2>1
    <3>5. PICK e \in mem_except' : e.age = Age(s)
      BY <3>4
    <3>6. (~DQ!OlderThan(Age(t), e.age))'
      BY <3>2, <3>3, <3>5 DEF DQ!OlderThan
    <3> QED
      BY <3>6
  <2>7. (mem_except = {} \/ \E e \in [age : Ages, vio : BOOLEAN] : mem_except = {e})'
    <3>1. PICK b \in BOOLEAN : b = (s \notin Faults)
      BY Zenon
    <3>2. Age(s) \in Ages
      BY <2>2 DEF MachineInv, TypeOK, DQ!TypeOK, Age, Ages, Slots, DQ!Slots
    <3>3. [age |-> Age(s), vio |-> b] \in [age : Ages, vio : BOOLEAN]
      BY <3>2
    <3>4. mem_except' = {[age |-> Age(s), vio |-> b]}
      BY <2>1, <3>1, Zenon
    <3>5. Ages' = Ages
      BY DEF Ages, Slots, DQ!Slots
    <3> QED
      BY <3>3, <3>4, <3>5, Zenon
  <2> QED
    BY <2>5, <2>6, <2>7 DEF Reports
<1> QED
  BY <1>7, <1>8, ReportNext

-----------------------------------------------------------------------------
(* Recording the oldest reason. *)

\* The places of the reports of a cycle: ps of what is recorded, the head of the
\* returns from traps, pe of the exception e, B of the branches.
ReportedAt(erets, excepts, branches, e, ps, pe, B) ==
  /\ ps \in 0 .. ROB_SIZE - 1 /\ pe \in 0 .. ROB_SIZE - 1
  /\ B \in SUBSET (0 .. ROB_SIZE - 1)
  /\ shr.type # "null" => shr.rob_idx = PlaceAge(ps)
  /\ erets = {} \/ erets = {PlaceAge(0)}
  /\ excepts = {} \/ (excepts = {e} /\ e.age = PlaceAge(pe))
  /\ branches = {PlaceAge(p) : p \in B}

\* reason is the oldest of them
OldestOfAll(reason, erets, excepts, e, ps, pe, B) ==
  \/ /\ reason = shr
     /\ erets = {}
     /\ excepts # {} => shr.type # "null" /\ ps <= pe
     /\ \A p \in B : shr.type # "null" /\ ps <= p
  \/ /\ reason = Mispred(PlaceAge(0))
     /\ erets # {}
  \/ /\ reason = Except(PlaceAge(pe), e.vio)
     /\ erets = {} /\ excepts # {}
     /\ shr.type # "null" => pe <= ps
     /\ \A p \in B : pe <= p
  \/ \E q \in B :
     /\ reason = Mispred(PlaceAge(q))
     /\ erets = {}
     /\ shr.type # "null" => q <= ps
     /\ excepts # {} => q <= pe
     /\ \A p \in B : q <= p

\* What is recorded next is the oldest of what is recorded and what is reported.
LEMMA NextReasonFacts ==
  ASSUME Ring!Inv,
         NEW erets, NEW excepts, NEW branches, NEW e, NEW ps, NEW pe, NEW B,
         ReportedAt(erets, excepts, branches, e, ps, pe, B)
  PROVE  OldestOfAll(NextReason(erets, excepts, branches), erets, excepts, e, ps, pe, B)
<1> USE DEF ReportedAt, OldestOfAll
<1> DEFINE R == NextReason(erets, excepts, branches)
<1>0. ROB_SIZE \in Nat /\ ROB_SIZE > 0 /\ 0 \in 0 .. ROB_SIZE - 1
  BY SizeAssumption
<1>1. CASE erets # {}
  <2>1. Oldest(erets) = PlaceAge(0)
    <3>1. PICK P \in SUBSET (0 .. ROB_SIZE - 1) : P = {0}
      BY <1>0
    <3>2. erets = {PlaceAge(p) : p \in P} /\ P # {}
      BY <1>1, <3>1
    <3>3. PICK q \in P : Oldest(erets) = PlaceAge(q)
      BY <3>2, OldestPlace, Zenon
    <3> QED
      BY <3>1, <3>3
  <2>2. R = Mispred(Oldest(erets))
    BY <1>1, Zenon DEF NextReason
  <2> QED
    BY <1>1, <2>1, <2>2, Zenon
<1>2. CASE erets = {} /\ B = {}
  <2>1. branches = {}
    BY <1>2
  <2>2. CASE excepts = {}
    <3>1. R = shr
      BY <1>2, <2>1, <2>2, Zenon DEF NextReason
    <3> QED
      BY <1>2, <2>2, <3>1
  <2>3. CASE excepts # {}
    <3>1. excepts = {e} /\ e.age = PlaceAge(pe)
      BY <2>3
    <3>2. (CHOOSE d \in excepts : TRUE) = e
      BY <3>1
    <3>3. R = Recorded(Except(PlaceAge(pe), e.vio))
      BY <1>2, <2>1, <3>1, <3>2, Zenon DEF NextReason
    <3>4. Except(PlaceAge(pe), e.vio).rob_idx = PlaceAge(pe)
      BY DEF Except
    <3>5. \/ R = shr /\ shr.type # "null" /\ ~(pe < ps)
          \/ R = Except(PlaceAge(pe), e.vio) /\ (shr.type # "null" => pe < ps)
      BY <3>3, <3>4, PlaceOrder DEF Recorded
    <3> QED
      BY <1>0, <1>2, <2>3, <3>5
  <2> QED
    BY <2>2, <2>3
<1>3. CASE erets = {} /\ B # {}
  <2>1. PICK q \in B : Oldest(branches) = PlaceAge(q) /\ \A p \in B : q <= p
    BY <1>3, OldestPlace
  <2>2. q \in 0 .. ROB_SIZE - 1 /\ branches # {}
    BY <1>3
  <2>3. CASE excepts # {} /\ pe < q
    <3>1. excepts = {e} /\ e.age = PlaceAge(pe)
      BY <2>3
    <3>2. (CHOOSE d \in excepts : TRUE) = e
      BY <3>1
    <3>3. DQ!OlderThan(PlaceAge(pe), PlaceAge(q))
      BY <2>2, <2>3, PlaceOrder
    <3>4. R = Recorded(Except(PlaceAge(pe), e.vio))
      BY <1>3, <2>1, <2>3, <3>1, <3>2, <3>3, Zenon DEF NextReason
    <3>5. Except(PlaceAge(pe), e.vio).rob_idx = PlaceAge(pe)
      BY DEF Except
    <3>6. \/ R = shr /\ shr.type # "null" /\ ~(pe < ps)
          \/ R = Except(PlaceAge(pe), e.vio) /\ (shr.type # "null" => pe < ps)
      BY <3>4, <3>5, PlaceOrder DEF Recorded
    <3>7. \A p \in B : p \in Nat /\ pe <= p
      BY <1>0, <2>1, <2>2, <2>3
    <3>8. ~(pe < ps) => ps <= pe /\ \A p \in B : ps <= p
      BY <1>0, <3>7
    <3>9. CASE R = shr /\ shr.type # "null" /\ ~(pe < ps)
      BY <1>3, <3>8, <3>9
    <3>10. CASE R = Except(PlaceAge(pe), e.vio) /\ (shr.type # "null" => pe < ps)
      BY <1>0, <1>3, <2>3, <3>7, <3>10
    <3> QED
      BY <3>6, <3>9, <3>10
  <2>4. CASE ~(excepts # {} /\ pe < q)
    <3>1. R = Recorded(Mispred(PlaceAge(q)))
      <4>1. excepts # {} => ~DQ!OlderThan(PlaceAge(pe), PlaceAge(q))
        BY <2>2, <2>4, PlaceOrder
      <4>2. ~(/\ excepts # {}
              /\ \A d \in excepts : branches # {} => DQ!OlderThan(d.age, Oldest(branches)))
        BY <2>1, <2>2, <4>1
      <4> QED
        BY <1>3, <2>1, <2>2, <4>2, Zenon DEF NextReason
    <3>2. Mispred(PlaceAge(q)).rob_idx = PlaceAge(q)
      BY DEF Mispred
    <3>3. \/ R = shr /\ shr.type # "null" /\ ~(q < ps)
          \/ R = Mispred(PlaceAge(q)) /\ (shr.type # "null" => q < ps)
      BY <2>2, <3>1, <3>2, PlaceOrder DEF Recorded
    <3>4. excepts # {} => q <= pe
      BY <1>0, <2>2, <2>4
    <3>5. \A p \in B : p \in Nat /\ q <= p
      BY <1>0, <2>1
    <3>6. ~(q < ps) => ps <= q /\ (excepts # {} => ps <= pe) /\ \A p \in B : ps <= p
      BY <1>0, <2>2, <3>4, <3>5
    <3>7. CASE R = shr /\ shr.type # "null" /\ ~(q < ps)
      BY <1>3, <3>6, <3>7
    <3>8. CASE R = Mispred(PlaceAge(q)) /\ (shr.type # "null" => q < ps)
      <4>1. shr.type # "null" => q <= ps
        BY <1>0, <2>2, <3>8
      <4> QED
        BY <1>3, <2>1, <3>4, <3>8, <4>1, Zenon
    <3> QED
      BY <3>3, <3>7, <3>8
  <2> QED
    BY <2>3, <2>4
<1> QED
  BY <1>1, <1>2, <1>3 DEF OldestOfAll

\* the exceptions that reach the ROB in a cycle
Excepts(enq) ==
  IF mem_except # NoReport THEN mem_except
  ELSE {[age |-> DQ!AllocId(k - 1), vio |-> FALSE] :
          k \in {i \in Illegal(enq) : \A j \in Illegal(enq) : i <= j}}

\* The place of the exception reported in a cycle: it is still there in the next
\* unless a squash comes, and nothing else that faults now is before it.
LEMMA ExceptPlace ==
  ASSUME MachineInv, NEW enq, NEW moves, NEW done, NEW s1, NEW stas, NEW vios,
         Inputs(enq, moves, done, s1, stas, vios), Cycle(enq, moves, done, s1, stas, vios),
         ViolatingLoadNeverRetires, CommitNum = WillNum
  PROVE  \/ Excepts(enq) = {} /\ s3 \intersect Here({"lfault"}) = {} /\ Illegal(enq) = {}
         \/ \E e, pe :
              /\ pe \in WillNum .. count + Len(enq) - 1
              /\ Excepts(enq) = {e} /\ e.age = PlaceAge(pe) /\ e.vio \in BOOLEAN
              /\ pe < count => /\ e.vio => buffer[DQ!Slot(pe)] = "load"
                               /\ ~e.vio => buffer[DQ!Slot(pe)] \in Faulting
              /\ pe >= count => ~e.vio /\ enq[pe - count + 1] = "illegal"
              /\ \A p \in 0 .. count - 1 : DQ!Slot(p) \in s3 \intersect Here({"lfault"}) => pe <= p
              /\ \A k \in Illegal(enq) : pe <= count + k - 1
<1>1. Ring!Inv /\ commit_stall \in BOOLEAN /\ ~squash_vld
  BY DEF MachineInv, TypeOK, Cycle
<1>2. /\ count \in Nat /\ count <= ROB_SIZE /\ ROB_SIZE \in Nat
      /\ \A p \in 0 .. count - 1 : vld_bits[DQ!Slot(p)] /\ PlaceAge(p) = Age(DQ!Slot(p))
      /\ \A t \in Slots : vld_bits[t] => \E p \in 0 .. count - 1 : t = DQ!Slot(p)
  BY <1>1, PlaceOf
<1>3. /\ WillNum \in Nat /\ WillNum <= count
      /\ \A k \in 0 .. WillNum - 1 : clear_bits[DQ!Slot(k)]
  BY <1>1, WillFacts
<1>4. Len(enq) \in Nat /\ count + Len(enq) <= ROB_SIZE
  BY RingPart
<1>5. Illegal(enq) \in SUBSET (1 .. Len(enq)) /\ \A k \in Illegal(enq) : enq[k] = "illegal"
  <2>1. enq \in [1 .. Len(enq) -> Kinds]
    BY RingPart
  <2> QED
    BY <2>1 DEF Illegal
<1>6. CASE mem_except # {}
  <2>1. PICK e \in [age : Ages, vio : BOOLEAN] : mem_except = {e}
    BY <1>6 DEF MachineInv, Reports
  <2>2. PICK s \in Slots :
           /\ e.age = Age(s)
           /\ e.vio => s \in Here({"load"}) /\ \E r \in Here({"store"}) : s \in Younger(r)
           /\ ~e.vio => s \in Unfinished({"lfault", "sfault"})
    BY <2>1 DEF MachineInv, Reports
  <2>3. vld_bits[s]
    BY <2>2 DEF Unfinished, Here
  <2>4. PICK pe \in 0 .. count - 1 : s = DQ!Slot(pe)
    BY <1>2, <2>3
  <2>5. e.age = PlaceAge(pe)
    BY <1>2, <2>2, <2>4
  <2>6. WillNum <= pe
    <3>1. CASE e.vio
      <4>1. \A k \in 0 .. WillNum - 1 : e.age # Age(DQ!Slot(k))
        <5>1. RenameCommits = WillNum
          BY <1>1 DEF RenameCommits
        <5> QED
          BY <2>1, <3>1, <5>1 DEF ViolatingLoadNeverRetires
      <4>2. pe \notin 0 .. WillNum - 1
        BY <2>2, <2>4, <4>1
      <4> QED
        BY <1>2, <1>3, <4>2
    <3>2. CASE ~e.vio
      <4>1. ~clear_bits[DQ!Slot(pe)]
        BY <2>2, <2>4, <3>2 DEF Unfinished
      <4> QED
        BY <1>2, <1>3, <4>1
    <3> QED
      BY <3>1, <3>2
  <2>7. /\ e.vio => buffer[DQ!Slot(pe)] = "load"
        /\ ~e.vio => buffer[DQ!Slot(pe)] \in Faulting
    BY <2>2, <2>4 DEF Unfinished, Here, Faulting
  <2>8. ASSUME NEW p \in 0 .. count - 1, DQ!Slot(p) \in s3 \intersect Here({"lfault"}) PROVE pe <= p
    <3>1. ~DQ!OlderThan(Age(DQ!Slot(p)), e.age)
      BY <2>1, <2>8 DEF MachineInv, Reports
    <3>2. ~DQ!OlderThan(PlaceAge(p), PlaceAge(pe))
      BY <1>2, <2>5, <3>1
    <3>3. p \in 0 .. ROB_SIZE - 1 /\ pe \in 0 .. ROB_SIZE - 1
      BY <1>2
    <3>4. ~(p < pe)
      BY <1>1, <3>2, <3>3, PlaceOrder
    <3> QED
      BY <1>2, <3>4
  <2>9. \A k \in Illegal(enq) : pe <= count + k - 1
    BY <1>2, <1>4, <1>5
  <2>10. pe \in WillNum .. count + Len(enq) - 1 /\ pe < count /\ ~(pe >= count)
    BY <1>2, <1>3, <1>4, <2>6
  <2>11. Excepts(enq) = {e} /\ e.vio \in BOOLEAN
    BY <1>6, <2>1 DEF Excepts, NoReport
  <2> QED
    BY <2>5, <2>7, <2>8, <2>9, <2>10, <2>11
<1>7. CASE mem_except = {} /\ Illegal(enq) = {}
  <2>1. s3 \intersect Here({"lfault"}) = {}
    BY <1>7 DEF MachineInv, Reports
  <2>2. Excepts(enq) = {}
    BY <1>7 DEF Excepts, NoReport
  <2> QED
    BY <1>7, <2>1, <2>2
<1>8. CASE mem_except = {} /\ Illegal(enq) # {}
  <2>1. Illegal(enq) \in SUBSET Nat
    BY <1>4, <1>5
  <2>2. PICK k0 \in Illegal(enq) : \A j \in Illegal(enq) : k0 <= j
    BY <1>8, <2>1, SizeAssumption, RenameWidthAssumption, CommitWidthAssumption, EmptyNotKind, Ring!LeastElement
  <2>3. {i \in Illegal(enq) : \A j \in Illegal(enq) : i <= j} = {k0}
    BY <2>1, <2>2
  <2> DEFINE e == [age |-> DQ!AllocId(k0 - 1), vio |-> FALSE]
             pe == count + k0 - 1
  <2>4. Excepts(enq) = {e}
    BY <1>8, <2>3 DEF Excepts, NoReport
  <2>5. /\ pe \in WillNum .. count + Len(enq) - 1 /\ pe >= count /\ ~(pe < count)
        /\ pe - count = k0 - 1 /\ pe - count + 1 = k0
    BY <1>2, <1>3, <1>4, <1>5
  <2>6. PlaceAge(pe) = DQ!AllocId(k0 - 1)
    BY <2>5 DEF PlaceAge
  <2>7. e.age = DQ!AllocId(k0 - 1) /\ ~e.vio /\ e.vio \in BOOLEAN
    OBVIOUS
  <2>8. s3 \intersect Here({"lfault"}) = {}
    BY <1>8 DEF MachineInv, Reports
  <2>9. \A k \in Illegal(enq) : pe <= count + k - 1
    BY <1>2, <2>1, <2>2
  <2>10. enq[pe - count + 1] = "illegal"
    BY <1>5, <2>5
  <2> HIDE DEF e, pe
  <2> QED
    BY <2>4, <2>5, <2>6, <2>7, <2>8, <2>9, <2>10
<1> QED
  BY <1>6, <1>7, <1>8

\* the returns from traps and the mispredicted branches reported in a cycle
Erets(done) == {Age(s) : s \in done \intersect Here({"eret"})}
Branches(done) == {Age(s) : s \in done \intersect Here({"branch"})}
BranchPlaces(done) == {p \in 0 .. count - 1 : DQ!Slot(p) \in done \intersect Here({"branch"})}

\* A return from a trap is at the head, a branch where it is; none is leaving.
LEMMA RedirectPlaces ==
  ASSUME MachineInv, NEW done, done \in SUBSET Unfinished({"plain", "branch", "eret", "store"}), MayFinish(done)
  PROVE  /\ Erets(done) # {} => /\ Erets(done) = {PlaceAge(0)} /\ count > 0 /\ WillNum = 0
                                /\ buffer[DQ!Slot(0)] = "eret"
         /\ Branches(done) = {PlaceAge(p) : p \in BranchPlaces(done)}
         /\ \A p \in BranchPlaces(done) : WillNum <= p /\ buffer[DQ!Slot(p)] = "branch"
<1>1. Ring!Inv /\ commit_stall \in BOOLEAN
  BY DEF MachineInv, TypeOK
<1>2. /\ count \in Nat /\ count <= ROB_SIZE /\ ROB_SIZE \in Nat /\ head_ptr = DQ!Slot(0)
      /\ \A p \in 0 .. count - 1 : vld_bits[DQ!Slot(p)] /\ PlaceAge(p) = Age(DQ!Slot(p))
      /\ \A t \in Slots : vld_bits[t] => \E p \in 0 .. count - 1 : t = DQ!Slot(p)
  BY <1>1, PlaceOf
<1>3. /\ WillNum \in Nat /\ WillNum <= count
      /\ \A k \in 0 .. WillNum - 1 : clear_bits[DQ!Slot(k)]
  BY <1>1, WillFacts
<1>4. \A s \in done : s \in Slots /\ vld_bits[s] /\ ~clear_bits[s]
  BY DEF Unfinished, Here
<1>5. ASSUME Erets(done) # {}
      PROVE  /\ Erets(done) = {PlaceAge(0)} /\ count > 0 /\ WillNum = 0
             /\ buffer[DQ!Slot(0)] = "eret"
  <2>1. PICK s \in done : buffer[s] = "eret"
    BY <1>5 DEF Erets, Here
  <2>2. \A t \in done \intersect Here({"eret"}) : t = head_ptr
    BY DEF MayFinish, Here
  <2>3. s \in Here({"eret"}) /\ s = head_ptr
    BY <1>4, <2>1, <2>2 DEF Here
  <2>4. PICK i \in 0 .. count - 1 : s = DQ!Slot(i)
    BY <1>2, <1>4
  <2>5. count > 0 /\ 0 \in 0 .. count - 1
    BY <1>2
  <2>6. PlaceAge(0) = Age(s)
    BY <1>2, <2>3, <2>5
  <2>7. Erets(done) = {Age(s)}
    BY <2>2, <2>3 DEF Erets
  <2>8. WillNum = 0
    <3>1. 0 \notin 0 .. WillNum - 1
      BY <1>2, <1>3, <1>4, <2>3
    <3> QED
      BY <1>3, <3>1
  <2> QED
    BY <1>2, <2>1, <2>3, <2>5, <2>6, <2>7, <2>8
<1>6. Branches(done) = {PlaceAge(p) : p \in BranchPlaces(done)}
  <2>1. \A s \in done \intersect Here({"branch"}) : \E p \in BranchPlaces(done) : PlaceAge(p) = Age(s)
    BY <1>2, <1>4 DEF BranchPlaces
  <2>2. \A p \in BranchPlaces(done) : PlaceAge(p) = Age(DQ!Slot(p)) /\ DQ!Slot(p) \in done \intersect Here({"branch"})
    BY <1>2 DEF BranchPlaces
  <2> QED
    BY <2>1, <2>2 DEF Branches
<1>7. ASSUME NEW p \in BranchPlaces(done) PROVE WillNum <= p /\ buffer[DQ!Slot(p)] = "branch"
  <2>1. p \in 0 .. count - 1 /\ DQ!Slot(p) \in done /\ buffer[DQ!Slot(p)] = "branch"
    BY DEF BranchPlaces, Here
  <2>2. p \notin 0 .. WillNum - 1
    BY <1>3, <1>4, <2>1
  <2> QED
    BY <1>2, <1>3, <2>1, <2>2
<1> QED
  BY <1>5, <1>6, <1>7

\* What shr takes in a cycle, from the reports named above.
LEMMA RecordedNext ==
  ASSUME MachineInv, NEW enq, NEW moves, NEW done, NEW s1, NEW stas, NEW vios,
         Inputs(enq, moves, done, s1, stas, vios), Cycle(enq, moves, done, s1, stas, vios)
  PROVE  shr' = NextReason(Erets(done), Excepts(enq), Branches(done))
<1>1. DQ!Entering(enq) = enq
  BY GroupEnters DEF MachineInv, Inputs
<1>2. shr' = NextReason({Age(s) : s \in done \intersect Here({"eret"})},
                        IF mem_except # NoReport THEN mem_except
                        ELSE {[age |-> DQ!AllocId(k - 1), vio |-> FALSE] :
                                k \in {i \in {k \in DOMAIN DQ!Entering(enq) : DQ!Entering(enq)[k] = "illegal"} :
                                         \A j \in {k \in DOMAIN DQ!Entering(enq) : DQ!Entering(enq)[k] = "illegal"} : i <= j}},
                        {Age(s) : s \in done \intersect Here({"branch"})})
  BY Zenon DEF Cycle
<1>3. {k \in DOMAIN DQ!Entering(enq) : DQ!Entering(enq)[k] = "illegal"} = Illegal(enq)
  BY <1>1 DEF Illegal
<1> QED
  BY <1>2, <1>3, Zenon DEF Erets, Branches, Excepts

\* a reason fits the instruction at a place, in the buffer or coming
FitsPlace(reason, q, enq) ==
  /\ q < count => buffer[DQ!Slot(q)] \in KindsOf(reason)
  /\ q >= count => enq[q - count + 1] \in KindsOf(reason)

\* What is recorded after a cycle without a squash is about a place that has not
\* left and is before everything that was recorded or is reported now.
LEMMA RecordedPlace ==
  ASSUME MachineInv, ReasonInv, ~Pending, NEW enq, NEW moves, NEW done, NEW s1, NEW stas, NEW vios,
         Inputs(enq, moves, done, s1, stas, vios), Cycle(enq, moves, done, s1, stas, vios),
         ViolatingLoadNeverRetires, CommitNum = WillNum,
         \A k \in 0 .. WillNum - 1 : ~Match(k)
  PROVE  \/ /\ shr' = shr /\ shr.type = "null"
            /\ Erets(done) = {} /\ BranchPlaces(done) = {}
            /\ s3 \intersect Here({"lfault"}) = {} /\ Illegal(enq) = {}
         \/ \E q \in WillNum .. count + Len(enq) - 1 :
              /\ shr'.type # "null" /\ shr'.rob_idx = PlaceAge(q)
              /\ FitsPlace(shr', q, enq)
              /\ Erets(done) # {} => q = 0
              /\ \A p \in 0 .. count - 1 :
                   \/ DQ!Slot(p) \in s3 \intersect Here({"lfault"})
                   \/ p \in BranchPlaces(done)
                   \/ /\ clear_bits[DQ!Slot(p)]
                      /\ buffer[DQ!Slot(p)] \in Redirecting \union Faulting
                   => q <= p
              /\ \A k \in Illegal(enq) : q <= count + k - 1
<1>1. Ring!Inv /\ commit_stall \in BOOLEAN /\ ReasonHere /\ Remembered
  BY DEF MachineInv, TypeOK, ReasonInv
<1>2. /\ count \in Nat /\ count <= ROB_SIZE /\ ROB_SIZE \in Nat /\ ROB_SIZE > 0
      /\ \A p \in 0 .. ROB_SIZE - 1 : DQ!Slot(p) \in Slots
      /\ \A p \in 0 .. count - 1 : vld_bits[DQ!Slot(p)] /\ PlaceAge(p) = Age(DQ!Slot(p))
      /\ \A t \in Slots : vld_bits[t] => \E p \in 0 .. count - 1 : t = DQ!Slot(p)
  BY <1>1, PlaceOf, SizeAssumption
<1>3. /\ WillNum \in Nat /\ WillNum <= count
      /\ \A k \in 0 .. WillNum - 1 : clear_bits[DQ!Slot(k)]
  BY <1>1, WillFacts
<1>4. Len(enq) \in Nat /\ count + Len(enq) <= ROB_SIZE
  BY RingPart
<1>5. Illegal(enq) \in SUBSET (1 .. Len(enq))
  <2>1. enq \in [1 .. Len(enq) -> Kinds]
    BY RingPart
  <2> QED
    BY <2>1 DEF Illegal
<1>6. shr' = NextReason(Erets(done), Excepts(enq), Branches(done))
  BY RecordedNext
<1>7. /\ Erets(done) # {} => /\ Erets(done) = {PlaceAge(0)} /\ count > 0 /\ WillNum = 0
                             /\ buffer[DQ!Slot(0)] = "eret"
      /\ Branches(done) = {PlaceAge(p) : p \in BranchPlaces(done)}
      /\ \A p \in BranchPlaces(done) : WillNum <= p /\ buffer[DQ!Slot(p)] = "branch"
  <2>1. done \in SUBSET Unfinished({"plain", "branch", "eret", "store"}) /\ MayFinish(done)
    BY DEF Inputs
  <2> QED
    BY <2>1, RedirectPlaces
<1>8. PICK ps \in 0 .. ROB_SIZE - 1 :
        shr.type # "null" =>
          /\ shr.rob_idx = PlaceAge(ps) /\ ps \in WillNum .. count - 1
          /\ buffer[DQ!Slot(ps)] \in KindsOf(shr)
  <2>1. CASE shr.type = "null"
    BY <1>2, <2>1
  <2>2. CASE shr.type # "null"
    <3>1. PICK s \in Here(KindsOf(shr)) : Age(s) = shr.rob_idx
      BY <1>1, <2>2 DEF ReasonHere
    <3>2. s \in Slots /\ vld_bits[s] /\ buffer[s] \in KindsOf(shr)
      BY <3>1 DEF Here
    <3>3. PICK p \in 0 .. count - 1 : s = DQ!Slot(p)
      BY <1>2, <3>2
    <3>4. shr.rob_idx = PlaceAge(p) /\ shr.rob_idx.idx = DQ!Slot(p)
      BY <1>2, <3>1, <3>3 DEF Age
    <3>5. p \notin 0 .. WillNum - 1
      BY <2>2, <3>4 DEF Match
    <3>6. p \in WillNum .. count - 1 /\ p \in 0 .. ROB_SIZE - 1
      BY <1>2, <1>3, <3>5
    <3> QED
      BY <3>2, <3>3, <3>4, <3>6
  <2> QED
    BY <2>1, <2>2
<1>9. \/ Excepts(enq) = {} /\ s3 \intersect Here({"lfault"}) = {} /\ Illegal(enq) = {}
      \/ \E e, pe :
           /\ pe \in WillNum .. count + Len(enq) - 1
           /\ Excepts(enq) = {e} /\ e.age = PlaceAge(pe) /\ e.vio \in BOOLEAN
           /\ pe < count => /\ e.vio => buffer[DQ!Slot(pe)] = "load"
                            /\ ~e.vio => buffer[DQ!Slot(pe)] \in Faulting
           /\ pe >= count => ~e.vio /\ enq[pe - count + 1] = "illegal"
           /\ \A p \in 0 .. count - 1 : DQ!Slot(p) \in s3 \intersect Here({"lfault"}) => pe <= p
           /\ \A k \in Illegal(enq) : pe <= count + k - 1
  BY ExceptPlace, Zenon
<1>10. PICK e, pe :
         /\ pe \in 0 .. ROB_SIZE - 1
         /\ Excepts(enq) = {} => s3 \intersect Here({"lfault"}) = {} /\ Illegal(enq) = {}
         /\ Excepts(enq) # {} =>
              /\ pe \in WillNum .. count + Len(enq) - 1
              /\ Excepts(enq) = {e} /\ e.age = PlaceAge(pe) /\ e.vio \in BOOLEAN
              /\ pe < count => /\ e.vio => buffer[DQ!Slot(pe)] = "load"
                               /\ ~e.vio => buffer[DQ!Slot(pe)] \in Faulting
              /\ pe >= count => ~e.vio /\ enq[pe - count + 1] = "illegal"
              /\ \A p \in 0 .. count - 1 : DQ!Slot(p) \in s3 \intersect Here({"lfault"}) => pe <= p
              /\ \A k \in Illegal(enq) : pe <= count + k - 1
  <2>1. CASE Excepts(enq) = {} /\ s3 \intersect Here({"lfault"}) = {} /\ Illegal(enq) = {}
    <3>1. 0 \in 0 .. ROB_SIZE - 1
      BY <1>2
    <3> QED
      BY <2>1, <3>1, Zenon
  <2>2. CASE \E e, pe :
           /\ pe \in WillNum .. count + Len(enq) - 1
           /\ Excepts(enq) = {e} /\ e.age = PlaceAge(pe) /\ e.vio \in BOOLEAN
           /\ pe < count => /\ e.vio => buffer[DQ!Slot(pe)] = "load"
                            /\ ~e.vio => buffer[DQ!Slot(pe)] \in Faulting
           /\ pe >= count => ~e.vio /\ enq[pe - count + 1] = "illegal"
           /\ \A p \in 0 .. count - 1 : DQ!Slot(p) \in s3 \intersect Here({"lfault"}) => pe <= p
           /\ \A k \in Illegal(enq) : pe <= count + k - 1
    <3>1. \A i \in WillNum .. count + Len(enq) - 1 : i \in 0 .. ROB_SIZE - 1
      BY <1>2, <1>3, <1>4
    <3> QED
      BY <2>2, <3>1, Zenon
  <2> QED
    BY <1>9, <2>1, <2>2
<1> DEFINE B == BranchPlaces(done)
<1>11. B \in SUBSET (0 .. count - 1) /\ B \in SUBSET (0 .. ROB_SIZE - 1)
  BY <1>2 DEF BranchPlaces
<1>12. OldestOfAll(shr', Erets(done), Excepts(enq), e, ps, pe, B)
  <2>1. ps \in 0 .. ROB_SIZE - 1 /\ (shr.type # "null" => shr.rob_idx = PlaceAge(ps))
    BY <1>8
  <2>2. Excepts(enq) = {} \/ (Excepts(enq) = {e} /\ e.age = PlaceAge(pe))
    BY <1>10
  <2>3. Erets(done) = {} \/ Erets(done) = {PlaceAge(0)}
    BY <1>7
  <2>4. ReportedAt(Erets(done), Excepts(enq), Branches(done), e, ps, pe, B)
    BY <1>7, <1>10, <1>11, <2>1, <2>2, <2>3, Zenon DEF ReportedAt
  <2> HIDE DEF B
  <2>5. OldestOfAll(NextReason(Erets(done), Excepts(enq), Branches(done)), Erets(done), Excepts(enq), e, ps, pe, B)
    BY <1>1, <2>4, NextReasonFacts, Zenon
  <2> QED
    BY <1>6, <2>5, Zenon
<1> HIDE DEF B
\* what was finished is not before what is recorded
<1>13. \A p \in 0 .. count - 1 :
         clear_bits[DQ!Slot(p)] /\ buffer[DQ!Slot(p)] \in Redirecting \union Faulting
           => shr.type # "null" /\ ps <= p
  <2> SUFFICES ASSUME NEW p \in 0 .. count - 1, clear_bits[DQ!Slot(p)],
                      buffer[DQ!Slot(p)] \in Redirecting \union Faulting
               PROVE  shr.type # "null" /\ ps <= p
    OBVIOUS
  <2>1. p \in 0 .. ROB_SIZE - 1
    BY <1>2
  <2>2. DQ!Slot(p) \in Here(Redirecting \union Faulting)
    BY <1>2, <2>1 DEF Here
  <2>3. shr.type # "null" /\ ~DQ!OlderThan(Age(DQ!Slot(p)), shr.rob_idx)
    BY <1>1, <2>2 DEF Remembered
  <2>4. ~(p < ps)
    BY <1>1, <1>2, <1>8, <2>1, <2>3, PlaceOrder
  <2> QED
    BY <1>2, <2>3, <2>4
\* the place q of the next reason
<1> DEFINE Leads(q) ==
             /\ shr.type # "null" => q <= ps
             /\ Excepts(enq) # {} => q <= pe
             /\ \A p \in B : q <= p
<1>14. ASSUME NEW q \in WillNum .. count + Len(enq) - 1, Leads(q),
              shr.type # "null" \/ ~(\E p \in 0 .. count - 1 :
                 clear_bits[DQ!Slot(p)] /\ buffer[DQ!Slot(p)] \in Redirecting \union Faulting)
       PROVE  /\ \A p \in 0 .. count - 1 :
                   \/ DQ!Slot(p) \in s3 \intersect Here({"lfault"})
                   \/ p \in BranchPlaces(done)
                   \/ /\ clear_bits[DQ!Slot(p)]
                      /\ buffer[DQ!Slot(p)] \in Redirecting \union Faulting
                   => q <= p
              /\ \A k \in Illegal(enq) : q <= count + k - 1
  <2>1. q \in Nat /\ ps \in Nat /\ pe \in Nat
    BY <1>2, <1>3, <1>4, <1>10
  <2>2. ASSUME NEW p \in 0 .. count - 1, DQ!Slot(p) \in s3 \intersect Here({"lfault"}) PROVE q <= p
    <3>1. Excepts(enq) # {} /\ pe <= p
      BY <1>10, <2>2
    <3> QED
      BY <1>2, <1>14, <2>1, <3>1
  <2>3. ASSUME NEW p \in 0 .. count - 1, p \in BranchPlaces(done) PROVE q <= p
    BY <1>14, <2>3 DEF B
  <2>4. ASSUME NEW p \in 0 .. count - 1, clear_bits[DQ!Slot(p)],
               buffer[DQ!Slot(p)] \in Redirecting \union Faulting
        PROVE  q <= p
    <3>1. shr.type # "null" /\ ps <= p
      BY <1>13, <2>4
    <3> QED
      BY <1>2, <1>14, <2>1, <3>1
  <2>5. ASSUME NEW k \in Illegal(enq) PROVE q <= count + k - 1
    <3>1. Excepts(enq) # {} /\ pe <= count + k - 1 /\ k \in Nat
      BY <1>4, <1>5, <1>10, <2>5
    <3> QED
      BY <1>2, <1>14, <2>1, <3>1
  <2> QED
    BY <2>2, <2>3, <2>4, <2>5
<1>15. CASE shr' = shr /\ shr.type = "null" /\ Erets(done) = {} /\ Excepts(enq) = {} /\ B = {}
  BY <1>10, <1>15 DEF B
<1>16. CASE /\ shr' = shr /\ shr.type # "null" /\ Erets(done) = {}
            /\ Excepts(enq) # {} => ps <= pe
            /\ \A p \in B : ps <= p
  <2>1. ps \in WillNum .. count + Len(enq) - 1 /\ ps < count /\ ~(ps >= count) /\ ps <= ps
    BY <1>2, <1>3, <1>4, <1>8, <1>16
  <2>2. Leads(ps)
    BY <1>16, <2>1
  <2>3. FitsPlace(shr', ps, enq)
    BY <1>8, <1>16, <2>1 DEF FitsPlace
  <2>4. shr'.type # "null" /\ shr'.rob_idx = PlaceAge(ps)
    BY <1>8, <1>16
  <2> HIDE DEF Leads
  <2> QED
    BY <1>14, <1>16, <2>1, <2>2, <2>3, <2>4, Zenon
<1>17. CASE shr' = Mispred(PlaceAge(0)) /\ Erets(done) # {}
  <2>1. 0 \in WillNum .. count + Len(enq) - 1 /\ 0 < count /\ ~(0 >= count)
    BY <1>2, <1>3, <1>4, <1>7, <1>17
  <2>2. \A p \in 0 .. count - 1 : 0 <= p
    BY <1>2
  <2>3. FitsPlace(shr', 0, enq)
    BY <1>7, <1>17, <2>1 DEF FitsPlace, KindsOf, Mispred, Redirecting
  <2>4. shr'.type # "null" /\ shr'.rob_idx = PlaceAge(0)
    BY <1>17 DEF Mispred
  <2>5. \A k \in Illegal(enq) : 0 <= count + k - 1
    BY <1>2, <1>4, <1>5
  <2> QED
    BY <2>1, <2>2, <2>3, <2>4, <2>5, Zenon
<1>18. CASE /\ shr' = Except(PlaceAge(pe), e.vio)
            /\ Erets(done) = {} /\ Excepts(enq) # {}
            /\ shr.type # "null" => pe <= ps
            /\ \A p \in B : pe <= p
  <2>1. pe \in WillNum .. count + Len(enq) - 1 /\ pe <= pe /\ pe \in Nat
    BY <1>2, <1>3, <1>4, <1>10, <1>18
  <2>2. Leads(pe)
    BY <1>18, <2>1
  <2>3. FitsPlace(shr', pe, enq)
    <3>1. shr'.type = "except" /\ shr'.isViolation = e.vio
      BY <1>18 DEF Except
    <3>2. CASE e.vio
      <4>1. KindsOf(shr') = {"load"}
        BY <3>1, <3>2 DEF KindsOf
      <4> QED
        BY <1>10, <1>18, <3>2, <4>1 DEF FitsPlace
    <3>3. CASE ~e.vio
      <4>1. KindsOf(shr') = Faulting
        BY <3>1, <3>3 DEF KindsOf
      <4> QED
        BY <1>10, <1>18, <3>3, <4>1 DEF FitsPlace, Faulting
    <3> QED
      BY <3>2, <3>3
  <2>4. shr'.type # "null" /\ shr'.rob_idx = PlaceAge(pe)
    BY <1>18 DEF Except
  <2>5. shr.type # "null" \/ ~(\E p \in 0 .. count - 1 :
                 clear_bits[DQ!Slot(p)] /\ buffer[DQ!Slot(p)] \in Redirecting \union Faulting)
    BY <1>13
  <2> HIDE DEF Leads
  <2> QED
    BY <1>14, <1>18, <2>1, <2>2, <2>3, <2>4, <2>5, Zenon
<1>19. CASE \E q \in B :
              /\ shr' = Mispred(PlaceAge(q))
              /\ Erets(done) = {}
              /\ shr.type # "null" => q <= ps
              /\ Excepts(enq) # {} => q <= pe
              /\ \A p \in B : q <= p
  <2>1. PICK q \in B :
              /\ shr' = Mispred(PlaceAge(q))
              /\ Erets(done) = {}
              /\ shr.type # "null" => q <= ps
              /\ Excepts(enq) # {} => q <= pe
              /\ \A p \in B : q <= p
    BY <1>19
  <2>2. q \in 0 .. count - 1 /\ WillNum <= q /\ buffer[DQ!Slot(q)] = "branch"
    BY <1>7, <1>11 DEF B
  <2>3. q \in WillNum .. count + Len(enq) - 1 /\ q < count /\ ~(q >= count)
    BY <1>2, <1>3, <1>4, <2>2
  <2>4. Leads(q)
    BY <2>1
  <2>5. FitsPlace(shr', q, enq)
    BY <2>1, <2>2, <2>3 DEF FitsPlace, KindsOf, Mispred, Redirecting
  <2>6. shr'.type # "null" /\ shr'.rob_idx = PlaceAge(q)
    BY <2>1 DEF Mispred
  <2>7. shr.type # "null" \/ ~(\E p \in 0 .. count - 1 :
                 clear_bits[DQ!Slot(p)] /\ buffer[DQ!Slot(p)] \in Redirecting \union Faulting)
    BY <1>13
  <2> HIDE DEF Leads
  <2> QED
    BY <1>14, <2>1, <2>3, <2>4, <2>5, <2>6, <2>7, Zenon
<1> QED
  BY <1>12, <1>15, <1>16, <1>17, <1>18, <1>19, Zenon DEF OldestOfAll

\* A cycle without a squash leaves what is recorded about an instruction in the
\* buffer and no later than any that is finished and must redirect or trap.
LEMMA ReasonNext ==
  ASSUME MachineInv, ReasonInv, NEW enq, NEW moves, NEW done, NEW s1, NEW stas, NEW vios,
         Inputs(enq, moves, done, s1, stas, vios), Cycle(enq, moves, done, s1, stas, vios),
         ViolatingLoadNeverRetires, ~Pending'
  PROVE  ReasonHere' /\ Remembered'
<1>1. Ring!Inv /\ commit_stall \in BOOLEAN /\ CommitType /\ Control
  BY DEF MachineInv, TypeOK, CommitType, NoReason
<1>2. ~Pending /\ CommitNum = WillNum /\ \A k \in 0 .. WillNum - 1 : ~Match(k)
  <2>1. ~squash_vld /\ TakeSquash
    BY DEF Cycle
  <2> QED
    BY <1>1, <2>1, SquashPends
<1>3. /\ count \in Nat /\ count <= ROB_SIZE /\ ROB_SIZE \in Nat
      /\ \A p \in 0 .. count - 1 : vld_bits[DQ!Slot(p)]
      /\ \A p \in 0 .. ROB_SIZE - 1 : DQ!Slot(p) \in Slots
      /\ WillNum \in Nat /\ WillNum <= count
      /\ Len(enq) \in Nat /\ count + Len(enq) <= ROB_SIZE
  BY <1>1, PlaceOf, WillFacts, RingPart
<1> DEFINE Kept == WillNum .. count + Len(enq) - 1
           Lasts(p) ==
             \/ DQ!Slot(p) \in s3 \intersect Here({"lfault"})
             \/ p \in BranchPlaces(done)
             \/ /\ clear_bits[DQ!Slot(p)]
                /\ buffer[DQ!Slot(p)] \in Redirecting \union Faulting
<1>4. \A p \in Kept :
        /\ DQ!Slot(p) \in Slots
        /\ vld_bits'[DQ!Slot(p)]
        /\ \A s : s = DQ!Slot(p) => Age(s)' = PlaceAge(p)
        /\ p < count =>
             /\ buffer'[DQ!Slot(p)] = buffer[DQ!Slot(p)]
             /\ clear_bits'[DQ!Slot(p)] <=> clear_bits[DQ!Slot(p)] \/ DQ!Slot(p) \in done \union s3
        /\ p >= count =>
             /\ buffer'[DQ!Slot(p)] = enq[p - count + 1]
             /\ clear_bits'[DQ!Slot(p)] <=> p - count + 1 \in moves \union Illegal(enq)
  BY Places, Zenon
<1>5. \A s \in Slots : vld_bits'[s] => \E p \in Kept : s = DQ!Slot(p)
  BY Places, Zenon
\* the finished instructions that matter
<1>6. ASSUME NEW p \in Kept, buffer'[DQ!Slot(p)] \in Redirecting \union Faulting,
             clear_bits'[DQ!Slot(p)]
      PROVE  \/ Erets(done) # {}
             \/ p \in 0 .. count - 1 /\ Lasts(p)
             \/ \E k \in Illegal(enq) : p = count + k - 1
  <2>1. CASE p < count
    <3>1. p \in 0 .. count - 1 /\ p \in 0 .. ROB_SIZE - 1
      BY <1>3, <2>1
    <3>2. /\ buffer[DQ!Slot(p)] \in Redirecting \union Faulting
          /\ clear_bits[DQ!Slot(p)] \/ DQ!Slot(p) \in done \union s3
          /\ DQ!Slot(p) \in Slots /\ vld_bits[DQ!Slot(p)]
      BY <1>3, <1>4, <1>6, <2>1, <3>1
    <3>3. CASE DQ!Slot(p) \in done
      <4>1. buffer[DQ!Slot(p)] \in {"plain", "branch", "eret", "store"}
        BY <3>3 DEF Inputs, Unfinished, Here
      <4>2. buffer[DQ!Slot(p)] \in {"branch", "eret"}
        BY <3>2, <4>1 DEF Redirecting, Faulting
      <4>3. CASE buffer[DQ!Slot(p)] = "eret"
        BY <3>2, <3>3, <4>3 DEF Erets, Here
      <4>4. CASE buffer[DQ!Slot(p)] = "branch"
        BY <3>1, <3>2, <3>3, <4>4 DEF BranchPlaces, Here
      <4> QED
        BY <3>1, <4>2, <4>3, <4>4
    <3>4. CASE DQ!Slot(p) \in s3
      <4>1. buffer[DQ!Slot(p)] \in {"load", "lfault"}
        BY <3>4 DEF MachineInv, Pipes, Unfinished, Here
      <4>2. buffer[DQ!Slot(p)] = "lfault"
        BY <3>2, <4>1 DEF Redirecting, Faulting
      <4> QED
        BY <3>1, <3>2, <3>4, <4>2 DEF Here
    <3> QED
      BY <3>1, <3>2, <3>3, <3>4
  <2>2. CASE p >= count
    <3>1. /\ enq[p - count + 1] \in Redirecting \union Faulting
          /\ p - count + 1 \in moves \union Illegal(enq)
      BY <1>4, <1>6, <2>2
    <3>2. p - count + 1 \notin moves
      BY <3>1 DEF Inputs, Redirecting, Faulting
    <3>3. p = count + (p - count + 1) - 1
      BY <1>3
    <3> QED
      BY <3>1, <3>2, <3>3
  <2> QED
    BY <1>3, <2>1, <2>2
<1>7. \/ /\ shr' = shr /\ shr.type = "null"
         /\ Erets(done) = {} /\ BranchPlaces(done) = {}
         /\ s3 \intersect Here({"lfault"}) = {} /\ Illegal(enq) = {}
      \/ \E q \in WillNum .. count + Len(enq) - 1 :
           /\ shr'.type # "null" /\ shr'.rob_idx = PlaceAge(q)
           /\ FitsPlace(shr', q, enq)
           /\ Erets(done) # {} => q = 0
           /\ \A p \in 0 .. count - 1 :
                \/ DQ!Slot(p) \in s3 \intersect Here({"lfault"})
                \/ p \in BranchPlaces(done)
                \/ /\ clear_bits[DQ!Slot(p)]
                   /\ buffer[DQ!Slot(p)] \in Redirecting \union Faulting
                => q <= p
           /\ \A k \in Illegal(enq) : q <= count + k - 1
  BY <1>2, RecordedPlace, Zenon
<1>8. ASSUME NEW s \in Slots, vld_bits'[s], buffer'[s] \in Redirecting \union Faulting, clear_bits'[s]
      PROVE  \E p \in Kept : /\ s = DQ!Slot(p)
                                /\ \/ Erets(done) # {}
                                   \/ p \in 0 .. count - 1 /\ Lasts(p)
                                   \/ \E k \in Illegal(enq) : p = count + k - 1
  <2>1. PICK p \in Kept : s = DQ!Slot(p)
    BY <1>5, <1>8
  <2> QED
    BY <1>6, <1>8, <2>1
<1>9. CASE /\ shr' = shr /\ shr.type = "null"
           /\ Erets(done) = {} /\ BranchPlaces(done) = {}
           /\ s3 \intersect Here({"lfault"}) = {} /\ Illegal(enq) = {}
  <2>1. ReasonHere'
    BY <1>9 DEF ReasonHere
  <2>2. ASSUME NEW p \in 0 .. count - 1, clear_bits[DQ!Slot(p)],
               buffer[DQ!Slot(p)] \in Redirecting \union Faulting
        PROVE FALSE
    <3>1. p \in 0 .. ROB_SIZE - 1
      BY <1>3
    <3>2. DQ!Slot(p) \in Here(Redirecting \union Faulting)
      BY <1>3, <2>2, <3>1 DEF Here
    <3> QED
      BY <1>2, <1>9, <2>2, <3>2 DEF ReasonInv, Remembered
  <2>3. ASSUME NEW s \in Slots, vld_bits'[s], buffer'[s] \in Redirecting \union Faulting, clear_bits'[s]
        PROVE  FALSE
    BY <1>8, <1>9, <2>2, <2>3
  <2>4. Remembered'
    BY <2>3 DEF Remembered, Here, Slots, DQ!Slots
  <2> QED
    BY <2>1, <2>4
<1>10. CASE \E q \in WillNum .. count + Len(enq) - 1 :
           /\ shr'.type # "null" /\ shr'.rob_idx = PlaceAge(q)
           /\ FitsPlace(shr', q, enq)
           /\ Erets(done) # {} => q = 0
           /\ \A p \in 0 .. count - 1 :
                \/ DQ!Slot(p) \in s3 \intersect Here({"lfault"})
                \/ p \in BranchPlaces(done)
                \/ /\ clear_bits[DQ!Slot(p)]
                   /\ buffer[DQ!Slot(p)] \in Redirecting \union Faulting
                => q <= p
           /\ \A k \in Illegal(enq) : q <= count + k - 1
  <2>1. PICK q \in Kept :
           /\ shr'.type # "null" /\ shr'.rob_idx = PlaceAge(q)
           /\ FitsPlace(shr', q, enq)
           /\ Erets(done) # {} => q = 0
           /\ \A p \in 0 .. count - 1 : Lasts(p) => q <= p
           /\ \A k \in Illegal(enq) : q <= count + k - 1
    BY <1>10
  <2>2. q \in 0 .. ROB_SIZE - 1 /\ (q < count \/ q >= count)
    BY <1>3
  <2>3. PICK t \in Slots : t = DQ!Slot(q)
    BY <1>4, <2>1
  <2>4. vld_bits'[t] /\ Age(t)' = shr'.rob_idx /\ buffer'[t] \in KindsOf(shr')
    <3>1. vld_bits'[t] /\ Age(t)' = PlaceAge(q)
      BY <1>4, <2>1, <2>3
    <3>2. buffer'[t] \in KindsOf(shr')
      BY <1>4, <2>1, <2>2, <2>3 DEF FitsPlace
    <3> QED
      BY <2>1, <3>1, <3>2
  <2>5. ReasonHere'
    <3>1. KindsOf(shr)' = KindsOf(shr')
      BY DEF KindsOf
    <3>2. (t \in Here(KindsOf(shr)))'
      BY <2>3, <2>4, <3>1 DEF Here, Slots, DQ!Slots
    <3> QED
      BY <2>4, <3>2 DEF ReasonHere
  <2>6. ASSUME NEW s \in Slots, vld_bits'[s], buffer'[s] \in Redirecting \union Faulting, clear_bits'[s]
        PROVE  ~DQ!OlderThan(Age(s)', shr'.rob_idx)
    <3>1. PICK p \in Kept : /\ s = DQ!Slot(p)
                               /\ \/ Erets(done) # {}
                                  \/ p \in 0 .. count - 1 /\ Lasts(p)
                                  \/ \E k \in Illegal(enq) : p = count + k - 1
      BY <1>8, <2>6
    <3>2. q <= p
      <4>1. p \in Nat
        BY <1>3
      <4>2. Erets(done) # {} => q <= p
        BY <2>1, <4>1
      <4>3. p \in 0 .. count - 1 /\ Lasts(p) => q <= p
        BY <2>1
      <4>4. (\E k \in Illegal(enq) : p = count + k - 1) => q <= p
        BY <2>1
      <4> QED
        BY <3>1, <4>2, <4>3, <4>4
    <3>3. p \in 0 .. ROB_SIZE - 1 /\ ~(p < q)
      BY <1>3, <3>2
    <3>4. ~DQ!OlderThan(PlaceAge(p), PlaceAge(q))
      BY <1>1, <2>2, <3>3, PlaceOrder
    <3>5. Age(s)' = PlaceAge(p)
      BY <1>4, <3>1
    <3> QED
      BY <2>1, <3>4, <3>5
  <2>7. Remembered'
    <3> SUFFICES ASSUME NEW s \in Slots, vld_bits'[s], buffer'[s] \in Redirecting \union Faulting,
                        clear_bits'[s]
                 PROVE  shr'.type # "null" /\ ~DQ!OlderThan(Age(s), shr.rob_idx)'
      BY DEF Remembered, Here, Slots, DQ!Slots
    <3>1. ~DQ!OlderThan(Age(s)', shr'.rob_idx)
      BY <2>6
    <3> QED
      BY <2>1, <3>1 DEF DQ!OlderThan
  <2> QED
    BY <2>5, <2>7
<1> QED
  BY <1>7, <1>9, <1>10

-----------------------------------------------------------------------------
(* Types. *)

\* The age of a place of the window is an age.
LEMMA PlaceAgeType ==
  ASSUME Ring!Inv, NEW p \in 0 .. ROB_SIZE - 1
  PROVE  PlaceAge(p) \in Ages
<1>1. /\ count \in Nat /\ count <= ROB_SIZE /\ ROB_SIZE \in Nat /\ ROB_SIZE > 0
      /\ flip_bits \in [Slots -> BOOLEAN] /\ enq_ptr \in 0 .. ROB_SIZE - 1 /\ enq_ptr_flipped \in BOOLEAN
  BY SizeAssumption DEF Ring!Inv, Ring!TypeOK, Ring!Slots, Slots, DQ!Slots
<1>2. CASE p < count
  <2>1. DQ!Slot(p) \in Slots
    BY <1>1, PlaceOf
  <2> QED
    BY <1>1, <1>2, <2>1 DEF PlaceAge, Age, Ages
<1>3. CASE p >= count
  <2>1. \A j \in Nat : j < ROB_SIZE => DQ!Wrap(enq_ptr + j) \in Slots
    BY <1>1 DEF DQ!Wrap, Slots, DQ!Slots
  <2>2. p - count \in Nat /\ p - count < ROB_SIZE
    BY <1>1, <1>3
  <2>3. DQ!AllocId(p - count) \in Ages
    BY <1>1, <2>1, <2>2 DEF DQ!AllocId, Ages
  <2> QED
    BY <1>1, <1>3, <2>3 DEF PlaceAge
<1> QED
  BY <1>1, <1>2, <1>3

\* a reason, or none
ReasonType ==
  {NoReason} \union [type : {"except", "mispred"}, rob_idx : Ages, isViolation : BOOLEAN]

\* What is recorded next is a reason or none, whatever is reported.
LEMMA ReasonTypeNext ==
  ASSUME MachineInv, NEW enq, NEW moves, NEW done, NEW s1, NEW stas, NEW vios,
         Inputs(enq, moves, done, s1, stas, vios), Cycle(enq, moves, done, s1, stas, vios)
  PROVE  shr' \in ReasonType
<1>1. Ring!Inv /\ shr \in ReasonType /\ mem_except \subseteq [age : Ages, vio : BOOLEAN]
  BY DEF MachineInv, TypeOK, ReasonType
<1>2. /\ count \in Nat /\ count <= ROB_SIZE /\ ROB_SIZE \in Nat /\ ROB_SIZE > 0
      /\ Len(enq) \in Nat /\ count + Len(enq) <= ROB_SIZE
      /\ Illegal(enq) \in SUBSET (1 .. Len(enq))
  <2>1. /\ enq \in [1 .. Len(enq) -> Kinds]
        /\ Len(enq) \in Nat /\ count + Len(enq) <= ROB_SIZE
    BY RingPart
  <2>2. count \in Nat /\ count <= ROB_SIZE /\ ROB_SIZE \in Nat /\ ROB_SIZE > 0
    BY <1>1, PlaceOf, SizeAssumption
  <2>3. Illegal(enq) \in SUBSET (1 .. Len(enq))
    BY <2>1 DEF Illegal
  <2> QED
    BY <2>1, <2>2, <2>3
<1>3. shr' = NextReason(Erets(done), Excepts(enq), Branches(done))
  BY RecordedNext
<1>4. Erets(done) # {} => Oldest(Erets(done)) \in Ages
  <2>1. Erets(done) # {} => Erets(done) = {PlaceAge(p) : p \in {0}}
    BY RedirectPlaces DEF Inputs
  <2>2. {0} \in SUBSET (0 .. ROB_SIZE - 1) /\ {0} # {}
    BY <1>2
  <2>3. Erets(done) # {} => \E q \in {0} : Oldest(Erets(done)) = PlaceAge(q)
    BY <1>1, <2>1, <2>2, OldestPlace, Zenon
  <2> QED
    BY <1>1, <2>2, <2>3, PlaceAgeType
<1>5. Branches(done) # {} => Oldest(Branches(done)) \in Ages
  <2>1. Branches(done) = {PlaceAge(p) : p \in BranchPlaces(done)}
    BY RedirectPlaces DEF Inputs
  <2>2. BranchPlaces(done) \in SUBSET (0 .. ROB_SIZE - 1)
    BY <1>2 DEF BranchPlaces
  <2>3. Branches(done) # {} => BranchPlaces(done) # {}
    BY <2>1
  <2>4. Branches(done) # {} => \E q \in BranchPlaces(done) : Oldest(Branches(done)) = PlaceAge(q)
    BY <1>1, <2>1, <2>2, <2>3, OldestPlace, Zenon
  <2> QED
    BY <1>1, <2>2, <2>4, PlaceAgeType
<1>6. Excepts(enq) \subseteq [age : Ages, vio : BOOLEAN]
  <2>1. ASSUME NEW k \in Illegal(enq) PROVE DQ!AllocId(k - 1) \in Ages
    <3>1. count + k - 1 \in 0 .. ROB_SIZE - 1 /\ ~(count + k - 1 < count) /\ (count + k - 1) - count = k - 1
      BY <1>2
    <3>2. PlaceAge(count + k - 1) = DQ!AllocId(k - 1)
      BY <3>1 DEF PlaceAge
    <3> QED
      BY <1>1, <3>1, <3>2, PlaceAgeType
  <2>2. \A k \in Illegal(enq) : [age |-> DQ!AllocId(k - 1), vio |-> FALSE] \in [age : Ages, vio : BOOLEAN]
    BY <2>1
  <2>3. {[age |-> DQ!AllocId(k - 1), vio |-> FALSE] :
           k \in {i \in Illegal(enq) : \A j \in Illegal(enq) : i <= j}} \subseteq [age : Ages, vio : BOOLEAN]
    BY <2>2, Zenon
  <2> QED
    BY <1>1, <2>3, Zenon DEF Excepts
<1>7. /\ \A a \in Ages : Mispred(a) \in ReasonType
      /\ \A a \in Ages, v \in BOOLEAN : Except(a, v) \in ReasonType
      /\ \A r \in ReasonType : Recorded(r) \in ReasonType
  BY <1>1 DEF Mispred, Except, ReasonType, Recorded
<1>8. ASSUME Excepts(enq) # {}
      PROVE  Recorded(LET e == CHOOSE e \in Excepts(enq) : TRUE IN Except(e.age, e.vio)) \in ReasonType
  <2>1. PICK d : d = CHOOSE e \in Excepts(enq) : TRUE
    OBVIOUS
  <2>2. d \in Excepts(enq)
    BY <1>8, <2>1
  <2>3. d.age \in Ages /\ d.vio \in BOOLEAN
    BY <1>6, <2>2
  <2> QED
    BY <1>7, <2>1, <2>3
<1> QED
  BY <1>1, <1>3, <1>4, <1>5, <1>7, <1>8, Zenon DEF NextReason

\* Every variable keeps its type in a cycle.
LEMMA TypeNext ==
  ASSUME MachineInv, NEW enq, NEW moves, NEW done, NEW s1, NEW stas, NEW vios,
         Inputs(enq, moves, done, s1, stas, vios), Cycle(enq, moves, done, s1, stas, vios)
  PROVE  TypeOK'
<1>1. DQ!TypeOK'
  <2>1. Ring!TypeOK'
    BY Places DEF Ring!Inv
  <2>2. (DQ!TypeOK <=> Ring!TypeOK)'
    BY SameRing, PTL
  <2> QED
    BY <2>1, <2>2
<1>2. Slots' = Slots /\ Ages' = Ages
  BY DEF Slots, DQ!Slots, Ages
<1>3. shr' \in {NoReason} \union [type : {"except", "mispred"}, rob_idx : Ages, isViolation : BOOLEAN]
  BY ReasonTypeNext DEF ReasonType
<1>4. /\ squash_vld' \in BOOLEAN
      /\ squashInfo' \in {"none", "violation", "trap", "mispred"}
      /\ commit_stall' \in BOOLEAN /\ do_except' \in BOOLEAN
      /\ status' \in {"normal", "trapProcess"}
  BY DEF Cycle, TakeSquash, MachineInv, TypeOK
<1>5. /\ s2' \in SUBSET Slots /\ s3' \in SUBSET Slots /\ sta_done' \in SUBSET Slots
      /\ violation' \in SUBSET Slots /\ st_except' \in SUBSET Slots
  <2>1. s1 \in SUBSET Slots /\ stas \in SUBSET Slots /\ vios \in SUBSET Slots
    BY DEF Inputs, IssuableLoads, IssuableStores, Unfinished, Here
  <2>2. s2 \in SUBSET Slots /\ sta_done \in SUBSET Slots
    BY DEF MachineInv, TypeOK, SlotSets
  <2> QED
    BY <2>1, <2>2 DEF Cycle
<1>6. mem_except' \subseteq [age : Ages, vio : BOOLEAN] /\ Cardinality(mem_except') <= 1
  <2>1. mem_except' = {} \/ \E e \in [age : Ages, vio : BOOLEAN] : mem_except' = {e}
    BY <1>2, ReportsNext DEF Reports
  <2>2. CASE mem_except' = {}
    BY <2>2, FS_EmptySet
  <2>3. CASE \E e \in [age : Ages, vio : BOOLEAN] : mem_except' = {e}
    <3>1. PICK e \in [age : Ages, vio : BOOLEAN] : mem_except' = {e}
      BY <2>3
    <3>2. Cardinality({e}) = 1
      BY FS_Singleton, Zenon
    <3>3. Cardinality(mem_except') <= 1
      BY <3>1, <3>2
    <3> QED
      BY <3>1, <3>3, Zenon
  <2> QED
    BY <2>1, <2>2, <2>3
<1> QED
  BY <1>1, <1>2, <1>3, <1>4, <1>5, <1>6 DEF TypeOK, SlotSets, NoReason

-----------------------------------------------------------------------------
(* The invariants. *)

\* The buffer starts empty.
LEMMA InitInv == Init => MachineInv /\ ReasonInv
<1> SUFFICES ASSUME Init PROVE MachineInv /\ ReasonInv
  OBVIOUS
<1>1. Ring!Inv
  <2>1. Ring!Init
    BY DEF Init, DQ!Init, Ring!Init, DQ!Slots, Ring!Slots
  <2> QED
    BY <2>1, SizeAssumption, RenameWidthAssumption, CommitWidthAssumption, EmptyNotKind, Ring!InitInv
<1>2. TypeOK
  <2>1. DQ!TypeOK
    BY <1>1, SameRing DEF Ring!Inv
  <2>2. Cardinality(mem_except) <= 1
    BY FS_EmptySet DEF Init, MemInit, NoReport
  <2> QED
    BY <2>1, <2>2 DEF TypeOK, Init, CommitInit, MemInit, NoReport, SlotSets
<1>3. Control
  BY DEF Init, CommitInit, Control
<1>4. Pipes /\ Reports
  BY DEF Init, MemInit, NoReport, Pipes, Reports
<1>5. ReasonHere
  BY DEF Init, CommitInit, ReasonHere, NoReason
<1>6. Remembered /\ Filled
  BY DEF Init, DQ!Init, Remembered, Filled, Here, Slots
<1> QED
  BY <1>1, <1>2, <1>3, <1>4, <1>5, <1>6 DEF MachineInv, ReasonInv

\* A squash leaves everything as it was at the start.
LEMMA SquashInit == Squash => Init'
  BY DEF Squash, DQ!Reset, Init, DQ!Init, CommitInit, MemInit, DQ!Slots, NoReason, NoReport

\* A squash keeps the invariants.
LEMMA SquashInv == Squash => MachineInv' /\ ReasonInv'
<1>1. (Init => MachineInv /\ ReasonInv)'
  BY InitInv, PTL
<1> QED
  BY <1>1, SquashInit

\* The inputs that Advance draws are inputs of a cycle.
LEMMA AdvanceInputs ==
  Advance(FALSE) <=> \E enq, moves, done, s1, stas, vios :
    Inputs(enq, moves, done, s1, stas, vios) /\ Cycle(enq, moves, done, s1, stas, vios)
  BY DEF Advance, Inputs

\* A cycle keeps the buffer, the squash and the pipelines consistent.
LEMMA CycleMachine ==
  ASSUME MachineInv, NEW enq, NEW moves, NEW done, NEW s1, NEW stas, NEW vios,
         Inputs(enq, moves, done, s1, stas, vios), Cycle(enq, moves, done, s1, stas, vios)
  PROVE  MachineInv'
<1>1. Ring!Inv'
  BY Places
<1>2. Control'
  <2>1. Ring!Inv /\ CommitType /\ Control /\ ~squash_vld /\ TakeSquash
    BY DEF MachineInv, TypeOK, CommitType, NoReason, Cycle
  <2> QED
    BY <2>1, SquashPends
<1> QED
  BY <1>1, <1>2, TypeNext, FilledNext, PipesNext, ReportsNext DEF MachineInv

\* Nothing changes.
LEMMA Stutter == UNCHANGED vars => (MachineInv => MachineInv') /\ (ReasonInv => ReasonInv')
<1> SUFFICES ASSUME UNCHANGED vars PROVE (MachineInv => MachineInv') /\ (ReasonInv => ReasonInv')
  OBVIOUS
<1> USE DEF vars, dqVars, commitVars, memVars
<1>1. Ring!Inv => Ring!Inv'
  BY DEF Ring!Inv, Ring!TypeOK, Ring!WindowAgrees, Ring!FlipsAgree, Ring!Slot
<1>2. Slots' = Slots /\ Ages' = Ages /\ SlotSets' = SlotSets
  BY DEF Slots, DQ!Slots, Ages, SlotSets
<1>3. TypeOK => TypeOK'
  BY <1>2 DEF TypeOK, DQ!TypeOK
<1>4. /\ \A kinds : Here(kinds)' = Here(kinds) /\ Unfinished(kinds)' = Unfinished(kinds)
      /\ \A s : Age(s)' = Age(s) /\ Younger(s)' = Younger(s)
  BY <1>2 DEF Here, Unfinished, Age, Younger, DQ!OlderThan
<1>5. (Control => Control') /\ (Filled => Filled')
  BY <1>2 DEF Control, Filled
<1>6. Pipes => Pipes'
  BY <1>4 DEF Pipes
<1>7. Reports => Reports'
  BY <1>2, <1>4 DEF Reports, DQ!OlderThan
<1>8. KindsOf(shr)' = KindsOf(shr)
  BY DEF KindsOf
<1>9. ReasonInv => ReasonInv'
  BY <1>4, <1>8 DEF ReasonInv, Pending, ReasonHere, Remembered, DQ!OlderThan
<1> QED
  BY <1>1, <1>3, <1>5, <1>6, <1>7, <1>9 DEF MachineInv

\* The buffer, the squash control and the pipelines of the memory block are
\* consistent in every reachable state: what a report names is in the buffer.
THEOREM MachineInvariance == Spec => []MachineInv
<1>1. Init => MachineInv
  BY InitInv
<1>2. ASSUME MachineInv, [Next]_vars PROVE MachineInv'
  <2>1. CASE Advance(FALSE)
    BY <1>2, <2>1, AdvanceInputs, CycleMachine
  <2>2. CASE Squash
    BY <2>2, SquashInv
  <2>3. CASE UNCHANGED vars
    BY <1>2, <2>3, Stutter
  <2> QED
    BY <1>2, <2>1, <2>2, <2>3 DEF Next
<1> QED
  BY <1>1, <1>2, PTL DEF Spec

\* The types are kept, and of two instructions in the buffer the one nearer the
\* head is OLDER_THAN the other by the ages the units hold.
THEOREM AgeInvariance == Spec => []TypeOK /\ []DQ!AgesInOrder
<1>1. MachineInv => TypeOK
  BY DEF MachineInv
<1>2. ASSUME MachineInv PROVE DQ!AgesInOrder
  <2>1. ASSUME NEW i \in 0 .. count - 1, NEW j \in 0 .. count - 1, i < j
        PROVE  DQ!OlderThan(DQ!AgeAt(i), DQ!AgeAt(j)) /\ ~DQ!OlderThan(DQ!AgeAt(j), DQ!AgeAt(i))
    <3>1. Ring!Inv
      BY <1>2 DEF MachineInv
    <3>2. i \in 0 .. ROB_SIZE - 1 /\ j \in 0 .. ROB_SIZE - 1 /\ i < j /\ ~(j < i)
      BY <2>1, <3>1, PlaceOf
    <3>3. DQ!AgeAt(i) = PlaceAge(i) /\ DQ!AgeAt(j) = PlaceAge(j)
      BY <3>1, PlaceOf DEF DQ!AgeAt, Age
    <3> QED
      BY <3>1, <3>2, <3>3, PlaceOrder
  <2> QED
    BY <2>1 DEF DQ!AgesInOrder
<1> QED
  BY <1>1, <1>2, MachineInvariance, PTL

\* As long as no violating load retires, an instruction that is finished and must
\* redirect or trap is known to shr, or something older is, until its squash is
\* on its way, and what shr names is in the buffer and of the kind it says.
THEOREM ReasonInvariance == Spec /\ []ViolatingLoadNeverRetires => []ReasonInv
<1>1. Init => ReasonInv
  BY InitInv
<1>2. ASSUME MachineInv, ReasonInv, ViolatingLoadNeverRetires, [Next]_vars PROVE ReasonInv'
  <2>1. CASE Advance(FALSE)
    BY <1>2, <2>1, AdvanceInputs, ReasonNext DEF ReasonInv
  <2>2. CASE Squash
    BY <2>2, SquashInv
  <2>3. CASE UNCHANGED vars
    BY <1>2, <2>3, Stutter
  <2> QED
    BY <1>2, <2>1, <2>2, <2>3 DEF Next
<1> QED
  BY <1>1, <1>2, MachineInvariance, PTL DEF Spec

\* The same, as the runs check it.
THEOREM ReasonsKept == Spec /\ []ViolatingLoadNeverRetires => []ReasonsRemembered
<1>1. MachineInv /\ ReasonInv => ReasonsRemembered
  BY DEF MachineInv, ReasonInv, Remembered, ReasonsRemembered
<1> QED
  BY <1>1, MachineInvariance, ReasonInvariance, PTL

-----------------------------------------------------------------------------
(* How a violating load retires. *)

\* A load is in violation only while the store that found it is unfinished, so
\* it does not retire then; in the cycle after, when it is in mem_except and not
\* yet in shr, it retires only together with a store, which goes in front of it.
RetiresBehindItsStore ==
  \A k \in 0 .. RenameCommits - 1 :
    /\ DQ!Slot(k) \notin violation
    /\ (\E e \in mem_except : e.vio /\ e.age = Age(DQ!Slot(k))) =>
         \E j \in 0 .. k - 1 : KindAt(j) = "store"

\* No load retires in one cycle with a store in front of it.
StoresApart ==
  \A j, k \in 0 .. RenameCommits - 1 : j < k /\ KindAt(j) = "store" => KindAt(k) # "load"

\* A violating load has in front of it the store it overtook: still unfinished
\* as long as the load is in violation.
LEMMA ViolatingBehind ==
  ASSUME MachineInv, NEW k \in 0 .. count - 1
  PROVE  /\ DQ!Slot(k) \in violation => \E j \in 0 .. k - 1 : ~clear_bits[DQ!Slot(j)]
         /\ (\E e \in mem_except : e.vio /\ e.age = Age(DQ!Slot(k))) =>
              KindAt(k) = "load" /\ \E j \in 0 .. k - 1 : KindAt(j) = "store"
<1>1. Ring!Inv
  BY DEF MachineInv
<1>2. /\ count \in Nat /\ count <= ROB_SIZE /\ ROB_SIZE \in Nat
      /\ \A p \in 0 .. count - 1 : vld_bits[DQ!Slot(p)] /\ PlaceAge(p) = Age(DQ!Slot(p))
      /\ \A t \in Slots : vld_bits[t] => \E p \in 0 .. count - 1 : t = DQ!Slot(p)
      /\ \A p \in 0 .. count - 1 : p \in 0 .. ROB_SIZE - 1
  BY <1>1, PlaceOf
<1>3. ASSUME NEW s \in Slots, Age(s) = Age(DQ!Slot(k)), NEW r \in Slots, vld_bits[r], s \in Younger(r)
      PROVE  \E j \in 0 .. k - 1 : r = DQ!Slot(j)
  <2>1. PICK i \in 0 .. count - 1 : r = DQ!Slot(i)
    BY <1>2, <1>3
  <2>2. DQ!OlderThan(PlaceAge(i), PlaceAge(k))
    BY <1>2, <1>3, <2>1 DEF Younger
  <2>3. i < k
    BY <1>1, <1>2, <2>2, PlaceOrder
  <2> QED
    BY <1>2, <2>1, <2>3
<1>4. ASSUME DQ!Slot(k) \in violation PROVE \E j \in 0 .. k - 1 : ~clear_bits[DQ!Slot(j)]
  <2>1. DQ!Slot(k) \in Slots /\ \E r \in Slots : vld_bits[r] /\ ~clear_bits[r] /\ DQ!Slot(k) \in Younger(r)
    BY <1>4 DEF MachineInv, Pipes, Unfinished, Here
  <2> QED
    BY <1>3, <2>1
<1>5. ASSUME NEW e \in mem_except, e.vio, e.age = Age(DQ!Slot(k))
      PROVE  KindAt(k) = "load" /\ \E j \in 0 .. k - 1 : KindAt(j) = "store"
  <2>1. PICK s \in Slots : /\ e.age = Age(s) /\ vld_bits[s] /\ buffer[s] = "load"
                           /\ \E r \in Slots : vld_bits[r] /\ buffer[r] = "store" /\ s \in Younger(r)
    BY <1>5 DEF MachineInv, Reports, Here
  <2>2. DQ!Slot(k) = s
    BY <1>5, <2>1 DEF Age
  <2> QED
    BY <1>3, <1>5, <2>1, <2>2 DEF KindAt
<1> QED
  BY <1>4, <1>5

\* What retires is at the front and finished.
LEMMA RetiringFacts ==
  ASSUME MachineInv
  PROVE  \A k \in 0 .. RenameCommits - 1 : /\ k \in 0 .. count - 1
                                           /\ \A j \in 0 .. k : /\ j \in 0 .. RenameCommits - 1
                                                                /\ clear_bits[DQ!Slot(j)]
<1>1. Ring!Inv /\ commit_stall \in BOOLEAN
  BY DEF MachineInv, TypeOK
<1>2. /\ WillNum \in Nat /\ WillNum <= count /\ count \in Nat
      /\ \A k \in 0 .. WillNum - 1 : clear_bits[DQ!Slot(k)]
  BY <1>1, WillFacts, PlaceOf
<1>3. CommitNum \in 0 .. WillNum
  BY <1>2, CommitFacts
<1>4. RenameCommits \in 0 .. WillNum
  BY <1>2, <1>3 DEF RenameCommits
<1>5. ASSUME NEW k \in 0 .. RenameCommits - 1, NEW j \in 0 .. k
      PROVE  k \in 0 .. count - 1 /\ j \in 0 .. RenameCommits - 1 /\ j \in 0 .. WillNum - 1
  BY <1>2, <1>4
<1>6. \A k \in 0 .. RenameCommits - 1 : 0 \in 0 .. k
  BY <1>2, <1>4
<1> QED
  BY <1>2, <1>5, <1>6

\* A load that a store has found to have read too early retires in one way only,
\* however many instructions commit in a cycle: with the report in mem_except,
\* in the commit group of a store in front of it.
THEOREM RetiresOnlyBehindStore == Spec => []RetiresBehindItsStore
<1>1. ASSUME MachineInv, NEW k \in 0 .. RenameCommits - 1
      PROVE  /\ DQ!Slot(k) \notin violation
             /\ (\E e \in mem_except : e.vio /\ e.age = Age(DQ!Slot(k))) =>
                  \E j \in 0 .. k - 1 : KindAt(j) = "store"
  <2>1. k \in 0 .. count - 1 /\ \A j \in 0 .. k : clear_bits[DQ!Slot(j)]
    BY <1>1, RetiringFacts
  <2>2. \A j \in 0 .. k - 1 : j \in 0 .. k
    BY <2>1
  <2> QED
    BY <1>1, <2>1, <2>2, ViolatingBehind
<1>2. MachineInv => RetiresBehindItsStore
  BY <1>1 DEF RetiresBehindItsStore
<1> QED
  BY <1>2, MachineInvariance, PTL

\* So none retires while no load retires in one cycle with a store in front of
\* it: with one commit a cycle never.
THEOREM StoresApartOrder == Spec /\ []StoresApart => []ViolatingLoadNeverRetires
<1>1. ASSUME MachineInv, StoresApart, NEW k \in 0 .. RenameCommits - 1
      PROVE  /\ DQ!Slot(k) \notin violation
             /\ \A e \in mem_except : e.vio => e.age # Age(DQ!Slot(k))
  <2>1. /\ k \in 0 .. count - 1
        /\ \A j \in 0 .. k : j \in 0 .. RenameCommits - 1 /\ clear_bits[DQ!Slot(j)]
    BY <1>1, RetiringFacts
  <2>2. \A j \in 0 .. k - 1 : j \in 0 .. k /\ j < k
    BY <2>1
  <2>3. DQ!Slot(k) \notin violation
    BY <1>1, <2>1, <2>2, ViolatingBehind
  <2>4. ASSUME NEW e \in mem_except, e.vio, e.age = Age(DQ!Slot(k)) PROVE FALSE
    <3>1. KindAt(k) = "load" /\ \E j \in 0 .. k - 1 : KindAt(j) = "store"
      BY <1>1, <2>1, <2>4, ViolatingBehind
    <3> QED
      BY <1>1, <2>1, <2>2, <3>1 DEF StoresApart
  <2> QED
    BY <2>3, <2>4
<1>2. MachineInv /\ StoresApart => ViolatingLoadNeverRetires
  BY <1>1 DEF ViolatingLoadNeverRetires
<1> QED
  BY <1>2, MachineInvariance, PTL

\* And then every reason that matters is remembered.
THEOREM ReasonsAlwaysKept == Spec /\ []StoresApart => []ReasonsRemembered
  BY StoresApartOrder, ReasonsKept, PTL

-----------------------------------------------------------------------------
(***************************************************************************)
(* The reorder buffer retires precisely: it implements Retirement, as long *)
(* as no violating load retires.                                           *)
(*                                                                         *)
(* Front reads one state: how what the buffer holds, cut at CommitNum,     *)
(* shows as Retiring and Waiting, and why a cut queue has a cause at its   *)
(* front.  A cycle that leaves no squash pending hands Waiting, with the   *)
(* group dispatched behind it, to the next state; and Front of that state  *)
(* is the abstract step.  While a squash is pending nothing is shown.      *)
(***************************************************************************)

\* the kinds of what the buffer holds, oldest first
InFlight == [j \in 1 .. count |-> KindAt(j - 1)]

\* They are kinds.
LEMMA InFlightType ==
  ASSUME MachineInv
  PROVE  /\ count \in Nat /\ count <= ROB_SIZE
         /\ \A p \in 0 .. count - 1 : KindAt(p) \in Kinds
         /\ InFlight \in [1 .. count -> Kinds]
         /\ InFlight \in Seq(Kinds) /\ Len(InFlight) = count
         /\ \A i \in 1 .. count : InFlight[i] = KindAt(i - 1)
<1>1. /\ count \in Nat /\ count <= ROB_SIZE /\ ROB_SIZE \in Nat
      /\ \A p \in 0 .. ROB_SIZE - 1 : DQ!Slot(p) \in Slots
      /\ \A p \in 0 .. count - 1 : vld_bits[DQ!Slot(p)]
  BY PlaceOf DEF MachineInv
<1>2. ASSUME NEW p \in 0 .. count - 1 PROVE KindAt(p) \in Kinds
  <2>1. p \in 0 .. ROB_SIZE - 1
    BY <1>1
  <2> QED
    BY <1>1, <2>1 DEF KindAt, MachineInv, Filled
<1>3. \A i \in 1 .. count : i - 1 \in 0 .. count - 1
  BY <1>1
<1>4. InFlight \in [1 .. count -> Kinds]
  BY <1>2, <1>3 DEF InFlight
<1>5. \A i \in 1 .. count : InFlight[i] = KindAt(i - 1)
  BY DEF InFlight
<1>6. InFlight \in Seq(Kinds) /\ Len(InFlight) = count
  BY <1>1, <1>4
<1> QED
  BY <1>1, <1>2, <1>4, <1>5, <1>6

\* Nothing is shown while a squash is pending.
LEMMA PendingShows ==
  ASSUME MachineInv, Pending
  PROVE  Waiting = << >> /\ Retiring = << >>
<1>1. Waiting = << >>
  BY DEF Waiting
<1>2. RenameCommits = 0
  <2>1. CASE squash_vld
    BY <2>1 DEF RenameCommits
  <2>2. CASE ~squash_vld
    <3>1. Ring!Inv /\ commit_stall \in BOOLEAN /\ commit_stall
      BY <2>2 DEF MachineInv, TypeOK, Control, Pending
    <3>2. WillNum = 0
      BY <3>1, WillFacts
    <3>3. CommitNum \in 0 .. 0
      BY <3>2, CommitFacts
    <3> QED
      BY <2>2, <3>3 DEF RenameCommits
  <2> QED
    BY <2>1, <2>2
<1>3. Retiring = [j \in 1 .. 0 |-> KindAt(j - 1)]
  BY <1>2 DEF Retiring
<1> QED
  BY <1>1, <1>3

\* The reason stands at a place of the buffer, of a kind it is about, and no
\* finished instruction that must redirect or trap is before it.
LEMMA ReasonPlace ==
  ASSUME MachineInv, ReasonInv, ~Pending
  PROVE  /\ \A p \in 0 .. count - 1 :
              clear_bits[DQ!Slot(p)] /\ KindAt(p) \in Redirecting \union Faulting => shr.type # "null"
         /\ shr.type # "null" => \E q \in 0 .. count - 1 :
              /\ KindAt(q) \in KindsOf(shr)
              /\ \A p \in 0 .. count - 1 : Match(p) <=> p = q
              /\ \A p \in 0 .. count - 1 :
                   clear_bits[DQ!Slot(p)] /\ KindAt(p) \in Redirecting \union Faulting => q <= p
<1>1. Ring!Inv /\ ReasonHere /\ Remembered
  BY DEF MachineInv, ReasonInv
<1>2. /\ count \in Nat /\ count <= ROB_SIZE /\ ROB_SIZE \in Nat
      /\ \A p \in 0 .. ROB_SIZE - 1 : DQ!Slot(p) \in Slots
      /\ \A p \in 0 .. count - 1 : vld_bits[DQ!Slot(p)] /\ PlaceAge(p) = Age(DQ!Slot(p))
      /\ \A t \in Slots : vld_bits[t] => \E p \in 0 .. count - 1 : t = DQ!Slot(p)
  BY <1>1, PlaceOf
<1>3. \A p \in 0 .. count - 1 : p \in 0 .. ROB_SIZE - 1 /\ p \in Nat
  BY <1>2
<1>4. ASSUME NEW p \in 0 .. count - 1, clear_bits[DQ!Slot(p)], KindAt(p) \in Redirecting \union Faulting
      PROVE  shr.type # "null" /\ ~DQ!OlderThan(PlaceAge(p), shr.rob_idx)
  <2>1. DQ!Slot(p) \in Here(Redirecting \union Faulting)
    BY <1>2, <1>3, <1>4 DEF Here, KindAt
  <2> QED
    BY <1>1, <1>2, <1>4, <2>1 DEF Remembered
<1>5. ASSUME shr.type # "null"
      PROVE  \E q \in 0 .. count - 1 :
              /\ KindAt(q) \in KindsOf(shr)
              /\ \A p \in 0 .. count - 1 : Match(p) <=> p = q
              /\ \A p \in 0 .. count - 1 :
                   clear_bits[DQ!Slot(p)] /\ KindAt(p) \in Redirecting \union Faulting => q <= p
  <2>1. PICK s \in Here(KindsOf(shr)) : Age(s) = shr.rob_idx
    BY <1>1, <1>5 DEF ReasonHere
  <2>2. PICK q \in 0 .. count - 1 : s = DQ!Slot(q)
    BY <1>2, <2>1 DEF Here
  <2>3. KindAt(q) \in KindsOf(shr) /\ shr.rob_idx = PlaceAge(q) /\ shr.rob_idx.idx = DQ!Slot(q)
    BY <1>2, <2>1, <2>2 DEF KindAt, Here, Age
  <2>4. ASSUME NEW p \in 0 .. count - 1 PROVE Match(p) <=> p = q
    <3>1. DQ!Slot(p) = DQ!Slot(q) => PlaceAge(p) = PlaceAge(q)
      BY <1>2
    <3>2. PlaceAge(p) = PlaceAge(q) => ~(p < q) /\ ~(q < p)
      <4>1. /\ DQ!OlderThan(PlaceAge(p), PlaceAge(q)) <=> p < q
            /\ DQ!OlderThan(PlaceAge(q), PlaceAge(p)) <=> q < p
            /\ DQ!OlderThan(PlaceAge(p), PlaceAge(p)) <=> p < p
        BY <1>1, <1>3, PlaceOrder
      <4> QED
        BY <1>3, <4>1
    <3>3. DQ!Slot(p) = DQ!Slot(q) <=> p = q
      BY <1>3, <3>1, <3>2
    <3> QED
      BY <1>5, <2>3, <3>3 DEF Match
  <2>5. ASSUME NEW p \in 0 .. count - 1, clear_bits[DQ!Slot(p)], KindAt(p) \in Redirecting \union Faulting
        PROVE  q <= p
    <3>1. ~(p < q)
      BY <1>1, <1>3, <1>4, <2>3, <2>5, PlaceOrder
    <3> QED
      BY <1>3, <3>1
  <2> QED
    BY <2>3, <2>4, <2>5
<1> QED
  BY <1>4, <1>5

\* What commits is finished, and is cut behind the reason that is among it or,
\* if it is an exception, before it.
LEMMA CutAtReason ==
  ASSUME MachineInv, ReasonInv, ~Pending
  PROVE  /\ CommitNum \in 0 .. COMMIT_WIDTH /\ CommitNum <= count /\ CommitNum \in Nat
         /\ \A p \in 0 .. CommitNum - 1 : KindAt(p) \notin Faulting
         /\ \A p \in 0 .. CommitNum - 2 : KindAt(p) \notin Redirecting
         /\ \/ /\ ~has_except /\ ~has_mispred
               /\ CommitNum > 0 => KindAt(CommitNum - 1) \notin Redirecting
            \/ /\ has_mispred
               /\ CommitNum > 0 /\ KindAt(CommitNum - 1) \in Redirecting
            \/ /\ has_except
               /\ CommitNum < count /\ KindAt(CommitNum) \in Faulting \union {"load"}
<1>1. Ring!Inv /\ commit_stall \in BOOLEAN /\ (shr.type # "null" => shr.type \in {"except", "mispred"})
  BY DEF MachineInv, TypeOK, NoReason
<1>2. /\ WillNum \in Nat /\ WillNum <= count /\ count \in Nat
      /\ \A k \in 0 .. WillNum - 1 : clear_bits[DQ!Slot(k)]
  BY <1>1, WillFacts, PlaceOf
<1>3. /\ CommitNum \in 0 .. WillNum
      /\ \A k \in 0 .. CommitNum - 1 : ~Stops(k)
      /\ CommitNum = WillNum \/ Stops(CommitNum)
  BY <1>2, CommitFacts
<1>4. WillNum \in 0 .. COMMIT_WIDTH
  <2>1. WillNum = Ring!ClearNum(commit_stall)
    BY SameRing DEF WillNum
  <2>2. Ring!ClearNum(commit_stall) \in 0 .. COMMIT_WIDTH
    BY <1>1, SizeAssumption, RenameWidthAssumption, CommitWidthAssumption, EmptyNotKind, Ring!ClearNumDefined
  <2> QED
    BY <2>1, <2>2
<1>5. COMMIT_WIDTH \in Nat
  BY CommitWidthAssumption, SizeAssumption
<1>6. CommitNum \in 0 .. COMMIT_WIDTH /\ CommitNum <= count /\ CommitNum \in Nat
  BY <1>2, <1>3, <1>4, <1>5
<1>7. \A p \in 0 .. CommitNum - 1 : p \in 0 .. WillNum - 1 /\ p \in 0 .. count - 1 /\ clear_bits[DQ!Slot(p)]
  BY <1>2, <1>3
<1>8. CASE shr.type = "null"
  <2>1. ~has_except /\ ~has_mispred
    BY <1>8 DEF has_except, has_mispred, Squashing
  <2>2. \A p \in 0 .. CommitNum - 1 : KindAt(p) \notin Redirecting \union Faulting
    BY <1>7, <1>8, ReasonPlace
  <2>3. /\ \A p \in 0 .. CommitNum - 2 : p \in 0 .. CommitNum - 1
        /\ CommitNum > 0 => CommitNum - 1 \in 0 .. CommitNum - 1
    BY <1>6
  <2> QED
    BY <1>6, <2>1, <2>2, <2>3
<1>9. CASE shr.type # "null"
  <2>1. PICK q \in 0 .. count - 1 :
          /\ KindAt(q) \in KindsOf(shr)
          /\ \A p \in 0 .. count - 1 : Match(p) <=> p = q
          /\ \A p \in 0 .. count - 1 :
               clear_bits[DQ!Slot(p)] /\ KindAt(p) \in Redirecting \union Faulting => q <= p
    BY <1>9, ReasonPlace
  <2>2. q \in Nat
    BY <1>2
  <2>3. \A p \in 0 .. WillNum - 1 : Match(p) <=> p = q
    BY <1>2, <2>1
  <2>4. \A p \in 0 .. CommitNum - 1 : KindAt(p) \in Redirecting \union Faulting => q <= p
    BY <1>7, <2>1
  <2>5. CASE q >= WillNum
    <3>1. ~has_except /\ ~has_mispred
      BY <1>2, <2>2, <2>3, <2>5 DEF has_except, has_mispred, Squashing
    <3>2. \A p \in 0 .. CommitNum - 1 : ~(q <= p)
      BY <1>2, <1>3, <2>2, <2>5
    <3>3. /\ \A p \in 0 .. CommitNum - 2 : p \in 0 .. CommitNum - 1
          /\ CommitNum > 0 => CommitNum - 1 \in 0 .. CommitNum - 1
      BY <1>6
    <3> QED
      BY <1>6, <2>4, <3>1, <3>2, <3>3
  <2>6. CASE q < WillNum /\ shr.type = "except"
    <3>1. q \in 0 .. WillNum - 1 /\ Match(q)
      BY <1>2, <2>2, <2>3, <2>6
    <3>2. has_except
      BY <2>6, <3>1 DEF has_except, Squashing
    <3>3. \A k \in 0 .. WillNum - 1 : Stops(k) <=> k = q
      BY <2>3, <2>6 DEF Stops
    <3>4. CommitNum = q
      BY <1>2, <1>3, <2>2, <2>6, <3>1, <3>3
    <3>5. \A p \in 0 .. CommitNum - 1 : KindAt(p) \notin Redirecting \union Faulting
      BY <2>2, <2>4, <3>4
    <3>6. /\ \A p \in 0 .. CommitNum - 2 : p \in 0 .. CommitNum - 1
      BY <1>6
    <3>7. KindAt(q) \in Faulting \union {"load"}
      BY <2>1, <2>6 DEF KindsOf
    <3>8. CommitNum < count
      BY <1>2, <2>1, <3>4
    <3> QED
      BY <1>6, <3>2, <3>4, <3>5, <3>6, <3>7, <3>8
  <2>7. CASE q < WillNum /\ shr.type = "mispred"
    <3>1. q \in 0 .. WillNum - 1 /\ Match(q)
      BY <1>2, <2>2, <2>3, <2>7
    <3>2. has_mispred
      BY <2>7, <3>1 DEF has_mispred, Squashing
    <3>3. \A k \in 0 .. WillNum - 1 : Stops(k) <=> k = q + 1
      <4> TAKE k \in 0 .. WillNum - 1
      <4>1. k > 0 => k - 1 \in 0 .. WillNum - 1
        BY <1>2
      <4>2. k > 0 => (Match(k - 1) <=> k - 1 = q)
        BY <2>3, <4>1
      <4>3. Stops(k) <=> k > 0 /\ Match(k - 1)
        BY <2>7 DEF Stops
      <4> QED
        BY <1>2, <2>2, <4>2, <4>3
    <3>4. CommitNum = q + 1
      BY <1>2, <1>3, <2>2, <2>7, <3>1, <3>3
    <3>5. KindAt(q) \in Redirecting
      BY <2>1, <2>7 DEF KindsOf
    <3>6. KindAt(q) \notin Faulting
      BY <3>5 DEF Redirecting, Faulting
    <3>7. \A p \in 0 .. CommitNum - 2 : p \in 0 .. CommitNum - 1 /\ ~(q <= p)
      BY <2>2, <3>4
    <3>8. \A p \in 0 .. CommitNum - 1 : p \in 0 .. CommitNum - 2 \/ p = q
      BY <2>2, <3>4
    <3>9. CommitNum > 0 /\ CommitNum - 1 = q
      BY <2>2, <3>4
    <3> QED
      BY <1>6, <2>4, <3>2, <3>5, <3>6, <3>7, <3>8, <3>9
  <2> QED
    BY <1>1, <1>2, <1>9, <2>2, <2>5, <2>6, <2>7
<1> QED
  BY <1>8, <1>9

\* How a state shows what is in flight.
LEMMA Front ==
  ASSUME MachineInv, ReasonInv, ~Pending
  PROVE  /\ CommitNum \in 0 .. COMMIT_WIDTH /\ CommitNum <= Len(InFlight)
         /\ Precise!MayRetire(InFlight, CommitNum)
         /\ Retiring = SubSeq(InFlight, 1, CommitNum)
         /\ \/ /\ ~Precise!Redirects(InFlight, CommitNum)
               /\ Waiting = SubSeq(InFlight, CommitNum + 1, Len(InFlight))
            \/ /\ Precise!Redirects(InFlight, CommitNum) \/ Precise!Restarts(InFlight, CommitNum)
               /\ Waiting = << >>
<1> DEFINE n == CommitNum
           p == InFlight
<1>1. /\ n \in 0 .. COMMIT_WIDTH /\ n <= count /\ n \in Nat
      /\ \A i \in 0 .. n - 1 : KindAt(i) \notin Faulting
      /\ \A i \in 0 .. n - 2 : KindAt(i) \notin Redirecting
      /\ \/ /\ ~has_except /\ ~has_mispred
            /\ n > 0 => KindAt(n - 1) \notin Redirecting
         \/ /\ has_mispred
            /\ n > 0 /\ KindAt(n - 1) \in Redirecting
         \/ /\ has_except
            /\ n < count /\ KindAt(n) \in Faulting \union {"load"}
  BY CutAtReason
<1>2. /\ count \in Nat
      /\ \A i \in 0 .. count - 1 : KindAt(i) \in Kinds
      /\ p \in Seq(Kinds) /\ Len(p) = count
      /\ \A i \in 1 .. count : p[i] = KindAt(i - 1)
  BY InFlightType
<1>3. /\ RenameCommits = n
      /\ Waiting = IF has_except \/ has_mispred THEN << >>
                   ELSE [j \in 1 .. count - n |-> KindAt(n + j - 1)]
  BY DEF RenameCommits, Pending, Waiting
<1> HIDE DEF n, p
<1>4. Precise!MayRetire(p, n)
  <2>1. ASSUME NEW i \in 1 .. n PROVE p[i] \notin Faulting
    <3>1. i \in 1 .. count /\ i - 1 \in 0 .. n - 1
      BY <1>1, <1>2
    <3> QED
      BY <1>1, <1>2, <3>1
  <2>2. ASSUME NEW i \in 1 .. n - 1 PROVE p[i] \notin Redirecting
    <3>1. i \in 1 .. count /\ i - 1 \in 0 .. n - 2
      BY <1>1, <1>2
    <3> QED
      BY <1>1, <1>2, <3>1
  <2> QED
    BY <2>1, <2>2 DEF Precise!MayRetire
<1>5. Retiring = SubSeq(p, 1, n)
  <2>1. \A i \in 1 .. n : p[i] \in Kinds
    BY <1>1, <1>2
  <2>2. /\ SubSeq(p, 1, n) \in Seq(Kinds) /\ Len(SubSeq(p, 1, n)) = n
        /\ \A i \in 1 .. n : SubSeq(p, 1, n)[i] = p[i]
    <3>1. /\ SubSeq(p, 1, n) \in Seq(Kinds)
          /\ Len(SubSeq(p, 1, n)) = IF 1 <= n THEN n - 1 + 1 ELSE 0
          /\ \A i \in 1 .. n - 1 + 1 : SubSeq(p, 1, n)[i] = p[1 + i - 1]
      BY <1>1, <2>1, SubSeqProperties
    <3> QED
      BY <1>1, <3>1
  <2>3. Retiring \in [1 .. n -> Kinds] /\ \A i \in 1 .. n : Retiring[i] = p[i]
    <3>1. \A i \in 1 .. n : i \in 1 .. count /\ KindAt(i - 1) = p[i]
      BY <1>1, <1>2
    <3> QED
      BY <1>3, <2>1, <3>1 DEF Retiring
  <2>4. Retiring \in Seq(Kinds) /\ Len(Retiring) = n
    BY <1>1, <2>3
  <2> QED
    BY <2>2, <2>3, <2>4, SeqEqual
<1>6. CASE ~has_except /\ ~has_mispred
  <2>1. ~Precise!Redirects(p, n)
    <3>1. n > 0 => n \in 1 .. count /\ KindAt(n - 1) \notin Redirecting
      BY <1>1, <1>2, <1>6
    <3> QED
      BY <1>2, <3>1 DEF Precise!Redirects
  <2>2. Waiting = [j \in 1 .. count - n |-> KindAt(n + j - 1)]
    BY <1>3, <1>6
  <2>3. ASSUME NEW j \in 1 .. count - n PROVE KindAt(n + j - 1) = p[n + j] /\ p[n + j] \in Kinds
    <3>1. n + j \in 1 .. count /\ n + j - 1 \in 0 .. count - 1
      BY <1>1, <1>2
    <3>2. p[n + j] = KindAt(n + j - 1)
      <4>1. PICK i \in 1 .. count : i = n + j
        BY <3>1
      <4>2. p[i] = KindAt(i - 1)
        BY <1>2
      <4>3. n + j - 1 = i - 1
        BY <1>1, <1>2, <4>1
      <4> QED
        BY <4>1, <4>2, <4>3, Zenon
    <3>3. KindAt(n + j - 1) \in Kinds
      BY <1>2, <3>1, Zenon
    <3> QED
      BY <3>2, <3>3, Zenon
  <2>4. Waiting \in [1 .. count - n -> Kinds] /\ \A j \in 1 .. count - n : Waiting[j] = p[n + j]
    BY <2>2, <2>3
  <2>5. Waiting \in Seq(Kinds) /\ Len(Waiting) = count - n
    <3>1. count - n \in Nat
      BY <1>1, <1>2
    <3>2. PICK m \in Nat : m = count - n
      BY <3>1
    <3>3. Waiting \in [1 .. m -> Kinds]
      BY <2>4, <3>2
    <3>4. Waiting \in Seq(Kinds) /\ Len(Waiting) = m
      BY <3>3
    <3> QED
      BY <3>2, <3>4
  <2>6. /\ SubSeq(p, n + 1, count) \in Seq(Kinds) /\ Len(SubSeq(p, n + 1, count)) = count - n
        /\ \A j \in 1 .. count - n : SubSeq(p, n + 1, count)[j] = p[n + j]
    <3>1. \A i \in n + 1 .. count : p[i] \in Kinds
      BY <1>1, <1>2
    <3>2. /\ SubSeq(p, n + 1, count) \in Seq(Kinds)
          /\ Len(SubSeq(p, n + 1, count)) = IF n + 1 <= count THEN count - (n + 1) + 1 ELSE 0
          /\ \A j \in 1 .. count - (n + 1) + 1 : SubSeq(p, n + 1, count)[j] = p[n + 1 + j - 1]
      BY <1>1, <1>2, <3>1, SubSeqProperties
    <3> QED
      BY <1>1, <1>2, <3>2
  <2>7. Waiting = SubSeq(p, n + 1, count)
    BY <2>4, <2>5, <2>6, SeqEqual
  <2> QED
    BY <1>1, <1>2, <1>4, <1>5, <2>1, <2>7 DEF n, p
<1>7. CASE has_except \/ has_mispred
  <2>1. Waiting = << >>
    BY <1>3, <1>7
  <2>2. Precise!Redirects(p, n) \/ Precise!Restarts(p, n)
    <3>1. CASE n > 0 /\ KindAt(n - 1) \in Redirecting
      <4>1. n \in 1 .. count
        BY <1>1, <1>2, <3>1
      <4> QED
        BY <1>2, <3>1, <4>1 DEF Precise!Redirects
    <3>2. CASE n < count /\ KindAt(n) \in Faulting \union {"load"}
      <4>1. n + 1 \in 1 .. count /\ (n + 1) - 1 = n
        BY <1>1, <1>2, <3>2
      <4> QED
        BY <1>2, <3>2, <4>1 DEF Precise!Restarts
    <3> QED
      BY <1>1, <1>7, <3>1, <3>2
  <2> QED
    BY <1>1, <1>2, <1>4, <1>5, <2>1, <2>2 DEF n, p
<1> QED
  BY <1>6, <1>7

\* A cycle that leaves no squash pending hands on what waits, with the group
\* behind it.
LEMMA HandedOn ==
  ASSUME MachineInv, NEW enq, NEW moves, NEW done, NEW s1, NEW stas, NEW vios,
         Inputs(enq, moves, done, s1, stas, vios), Cycle(enq, moves, done, s1, stas, vios),
         MachineInv', ~Pending'
  PROVE  /\ InFlight' = Waiting \o enq
         /\ Waiting \in Seq(Kinds)
         /\ \E k \in 0 .. RENAME_WIDTH : enq \in [1 .. k -> Kinds]
<1>1. /\ Ring!Inv /\ commit_stall \in BOOLEAN /\ CommitType /\ Control /\ ~squash_vld /\ TakeSquash
  BY DEF MachineInv, TypeOK, CommitType, NoReason, Cycle
<1>2. ~Pending /\ CommitNum = WillNum /\ ~has_except /\ ~has_mispred
  BY <1>1, SquashPends DEF has_except, has_mispred, Squashing
<1> DEFINE n == WillNum
           m == Len(enq)
<1>3. /\ n \in Nat /\ n <= count /\ count \in Nat
      /\ m \in Nat /\ enq \in [1 .. m -> Kinds]
  BY <1>1, WillFacts, PlaceOf, RingPart
<1>4. Waiting = [j \in 1 .. count - n |-> KindAt(n + j - 1)]
  BY <1>2 DEF Waiting
<1>5. /\ count' = count + m - n
      /\ \A p \in n .. count + m - 1 :
           /\ \A j : j = p - n => KindAt(j)' = buffer'[DQ!Slot(p)]
           /\ p < count => buffer'[DQ!Slot(p)] = KindAt(p)
           /\ p >= count => buffer'[DQ!Slot(p)] = enq[p - count + 1]
  <2>1. /\ count' = count + Len(enq) - WillNum
        /\ \A p \in WillNum .. count + Len(enq) - 1 :
             /\ \A j : j = p - WillNum => DQ!Slot(j)' = DQ!Slot(p)
             /\ p < count => buffer'[DQ!Slot(p)] = buffer[DQ!Slot(p)]
             /\ p >= count => buffer'[DQ!Slot(p)] = enq[p - count + 1]
    BY Places, Zenon
  <2> QED
    BY <2>1, Zenon DEF KindAt
<1>6. /\ count' \in Nat
      /\ \A i \in 0 .. count' - 1 : KindAt(i)' \in Kinds
      /\ InFlight' \in Seq(Kinds) /\ Len(InFlight') = count'
      /\ \A i \in 1 .. count' : InFlight'[i] = KindAt(i - 1)'
  <2>1. (MachineInv => /\ count \in Nat /\ count <= ROB_SIZE
                       /\ \A p \in 0 .. count - 1 : KindAt(p) \in Kinds
                       /\ InFlight \in [1 .. count -> Kinds]
                       /\ InFlight \in Seq(Kinds) /\ Len(InFlight) = count
                       /\ \A i \in 1 .. count : InFlight[i] = KindAt(i - 1))'
    BY InFlightType, PTL
  <2> QED
    BY <2>1
<1> HIDE DEF n, m
<1>7. \A j \in 1 .. count - n : KindAt(n + j - 1) \in Kinds
  <2>1. \A p \in 0 .. count - 1 : KindAt(p) \in Kinds
    BY InFlightType
  <2>2. ASSUME NEW j \in 1 .. count - n PROVE n + j - 1 \in 0 .. count - 1
    BY <1>3
  <2> QED
    BY <2>1, <2>2
<1>8. Waiting \in Seq(Kinds) /\ Len(Waiting) = count - n
  <2>1. PICK c \in Nat : c = count - n
    BY <1>3
  <2>2. Waiting \in [1 .. c -> Kinds]
    BY <1>4, <1>7, <2>1
  <2> QED
    BY <2>1, <2>2
<1>9. enq \in Seq(Kinds) /\ Len(enq) = m
  BY <1>3 DEF m
<1>10. /\ Waiting \o enq \in Seq(Kinds)
       /\ Len(Waiting \o enq) = count - n + m
       /\ \A i \in 1 .. count - n + m :
            (Waiting \o enq)[i] = IF i <= count - n THEN Waiting[i] ELSE enq[i - (count - n)]
  <2>1. /\ Waiting \o enq \in Seq(Kinds)
        /\ Len(Waiting \o enq) = Len(Waiting) + Len(enq)
        /\ \A i \in 1 .. Len(Waiting) + Len(enq) :
             (Waiting \o enq)[i] = IF i <= Len(Waiting) THEN Waiting[i] ELSE enq[i - Len(Waiting)]
    BY <1>8, <1>9, ConcatProperties, Zenon
  <2> QED
    BY <1>8, <1>9, <2>1, Zenon
<1>11. ASSUME NEW i \in 1 .. count' PROVE InFlight'[i] = (Waiting \o enq)[i]
  <2> DEFINE p == n + i - 1
  <2>1. p \in n .. count + m - 1 /\ i - 1 = p - n /\ i \in 1 .. count - n + m /\ p \in Nat
    BY <1>3, <1>5
  <2>2. InFlight'[i] = KindAt(i - 1)'
    BY <1>6
  <2>3. KindAt(i - 1)' = buffer'[DQ!Slot(p)]
    <3>1. \A j : j = p - n => KindAt(j)' = buffer'[DQ!Slot(p)]
      BY <1>5, <2>1
    <3> QED
      BY <2>1, <3>1
  <2>4. CASE i <= count - n
    <3>1. p < count
      BY <1>3, <2>4
    <3>2. buffer'[DQ!Slot(p)] = KindAt(p)
      BY <1>5, <2>1, <3>1
    <3>3. i \in 1 .. count - n
      BY <1>3, <2>4
    <3>4. Waiting[i] = KindAt(p)
      BY <1>4, <3>3
    <3> HIDE DEF p
    <3> QED
      BY <1>10, <2>1, <2>2, <2>3, <2>4, <3>2, <3>4
  <2>5. CASE ~(i <= count - n)
    <3>1. p >= count /\ i - (count - n) = p - count + 1
      BY <1>3, <2>5
    <3>2. buffer'[DQ!Slot(p)] = enq[p - count + 1]
      BY <1>5, <2>1, <3>1
    <3> HIDE DEF p
    <3> QED
      BY <1>10, <2>1, <2>2, <2>3, <2>5, <3>1, <3>2
  <2> QED
    BY <2>4, <2>5
<1>12. count' = count - n + m
  BY <1>3, <1>5
<1>13. InFlight' = Waiting \o enq
  BY <1>6, <1>10, <1>11, <1>12, SeqEqual
<1>14. \E k \in 0 .. RENAME_WIDTH : enq \in [1 .. k -> Kinds]
  BY DEF Inputs, Groups
<1> QED
  BY <1>8, <1>13, <1>14

\* A step that shows nothing before and nothing after.
LEMMA NothingShown ==
  ASSUME Waiting = << >>, Waiting' = << >>, Retiring' = << >>
  PROVE  Precise!Next
<1>1. << >> \in [1 .. 0 -> Kinds]
  OBVIOUS
<1>2. 0 \in 0 .. RENAME_WIDTH /\ 0 \in 0 .. COMMIT_WIDTH /\ ROB_SIZE \in Nat /\ COMMIT_WIDTH \in Nat
  BY SizeAssumption, RenameWidthAssumption, CommitWidthAssumption
<1>3. /\ << >> \o << >> = << >> /\ Len(<< >>) = 0
      /\ SubSeq(<< >>, 1, 0) = << >>
  BY SubSeqEmpty
<1>4. LET p == Waiting \o << >>
      IN /\ Len(p) <= ROB_SIZE + COMMIT_WIDTH
         /\ 0 <= Len(p) /\ Precise!MayRetire(p, 0)
         /\ Retiring' = SubSeq(p, 1, 0)
         /\ ~Precise!Redirects(p, 0) /\ Waiting' = SubSeq(p, 0 + 1, Len(p))
  BY <1>2, <1>3 DEF Precise!MayRetire, Precise!Redirects
<1> QED
  BY <1>1, <1>2, <1>4, Zenon DEF Precise!Next

\* Every cycle is a step of the abstract buffer.
LEMMA CycleRefines ==
  ASSUME MachineInv, NEW enq, NEW moves, NEW done, NEW s1, NEW stas, NEW vios,
         Inputs(enq, moves, done, s1, stas, vios), Cycle(enq, moves, done, s1, stas, vios),
         MachineInv', ReasonInv'
  PROVE  Precise!Next
<1>1. /\ Ring!Inv /\ commit_stall \in BOOLEAN /\ CommitType /\ Control /\ ~squash_vld /\ TakeSquash
  BY DEF MachineInv, TypeOK, CommitType, NoReason, Cycle
<1>2. CASE Pending'
  <2>1. Waiting' = << >> /\ Retiring' = << >>
    <3>1. (MachineInv /\ Pending => Waiting = << >> /\ Retiring = << >>)'
      BY PendingShows, PTL
    <3> QED
      BY <1>2, <3>1
  <2>2. Pending \/ has_except \/ has_mispred
    BY <1>1, <1>2 DEF TakeSquash, Pending
  <2>3. Waiting = << >>
    BY <2>2 DEF Waiting
  <2> QED
    BY <2>1, <2>3, NothingShown
<1>3. CASE ~Pending'
  <2>1. /\ InFlight' = Waiting \o enq
        /\ \E k \in 0 .. RENAME_WIDTH : enq \in [1 .. k -> Kinds]
    BY <1>3, HandedOn
  <2>2. /\ CommitNum' \in 0 .. COMMIT_WIDTH /\ CommitNum' <= Len(InFlight')
        /\ Precise!MayRetire(InFlight', CommitNum')
        /\ Retiring' = SubSeq(InFlight', 1, CommitNum')
        /\ \/ /\ ~Precise!Redirects(InFlight', CommitNum')
              /\ Waiting' = SubSeq(InFlight', CommitNum' + 1, Len(InFlight'))
           \/ /\ Precise!Redirects(InFlight', CommitNum') \/ Precise!Restarts(InFlight', CommitNum')
              /\ Waiting' = << >>
    <3>1. (MachineInv /\ ReasonInv /\ ~Pending =>
             /\ CommitNum \in 0 .. COMMIT_WIDTH /\ CommitNum <= Len(InFlight)
             /\ Precise!MayRetire(InFlight, CommitNum)
             /\ Retiring = SubSeq(InFlight, 1, CommitNum)
             /\ \/ /\ ~Precise!Redirects(InFlight, CommitNum)
                   /\ Waiting = SubSeq(InFlight, CommitNum + 1, Len(InFlight))
                \/ /\ Precise!Redirects(InFlight, CommitNum) \/ Precise!Restarts(InFlight, CommitNum)
                   /\ Waiting = << >>)'
      BY Front, PTL
    <3> QED
      BY <1>3, <3>1 DEF Precise!MayRetire, Precise!Redirects, Precise!Restarts
  <2>3. Len(InFlight') <= ROB_SIZE + COMMIT_WIDTH
    <3>1. (MachineInv => count \in Nat /\ count <= ROB_SIZE /\ Len(InFlight) = count)'
      BY InFlightType, PTL
    <3>2. ROB_SIZE \in Nat /\ COMMIT_WIDTH \in Nat
      BY SizeAssumption, CommitWidthAssumption
    <3> QED
      BY <3>1, <3>2
  <2>4. PICK k \in 0 .. RENAME_WIDTH : enq \in [1 .. k -> Kinds]
    BY <2>1
  <2>5. PICK n \in 0 .. COMMIT_WIDTH : n = CommitNum'
    BY <2>2
  <2>6. PICK p : p = Waiting \o enq
    OBVIOUS
  <2>7. /\ Len(p) <= ROB_SIZE + COMMIT_WIDTH
        /\ n <= Len(p) /\ Precise!MayRetire(p, n)
        /\ Retiring' = SubSeq(p, 1, n)
        /\ \/ ~Precise!Redirects(p, n) /\ Waiting' = SubSeq(p, n + 1, Len(p))
           \/ (Precise!Redirects(p, n) \/ Precise!Restarts(p, n)) /\ Waiting' = << >>
    BY <2>1, <2>2, <2>3, <2>5, <2>6, Zenon
  <2>8. LET q == Waiting \o enq
        IN /\ Len(q) <= ROB_SIZE + COMMIT_WIDTH
           /\ n <= Len(q) /\ Precise!MayRetire(q, n)
           /\ Retiring' = SubSeq(q, 1, n)
           /\ \/ ~Precise!Redirects(q, n) /\ Waiting' = SubSeq(q, n + 1, Len(q))
              \/ (Precise!Redirects(q, n) \/ Precise!Restarts(q, n)) /\ Waiting' = << >>
    BY <2>6, <2>7, Zenon
  <2> QED
    BY <2>4, <2>8, Zenon DEF Precise!Next
<1> QED
  BY <1>2, <1>3

\* The buffer starts with nothing to show.
LEMMA InitRefines == Init => Precise!Init
<1> SUFFICES ASSUME Init PROVE Waiting = << >> /\ Retiring = << >>
  BY DEF Precise!Init
<1>1. MachineInv /\ count = 0 /\ ~has_except /\ ~has_mispred
  BY InitInv DEF Init, DQ!Init, CommitInit, NoReason, has_except, has_mispred, Squashing
<1>2. WillNum \in Nat /\ WillNum <= 0
  BY <1>1, WillFacts DEF MachineInv, TypeOK
<1>3. CommitNum \in 0 .. WillNum
  BY <1>2, CommitFacts
<1>4. CommitNum = 0 /\ RenameCommits = 0
  BY <1>2, <1>3 DEF RenameCommits
<1>5. Retiring = [j \in 1 .. 0 |-> KindAt(j - 1)]
  BY <1>4 DEF Retiring
<1>6. Waiting = << >>
  <2>1. CASE Pending
    BY <2>1 DEF Waiting
  <2>2. CASE ~Pending
    <3>1. Waiting = [j \in 1 .. 0 - 0 |-> KindAt(0 + j - 1)]
      BY <1>1, <1>4, <2>2 DEF Waiting
    <3> QED
      BY <3>1
  <2> QED
    BY <2>1, <2>2
<1> QED
  BY <1>5, <1>6

\* A squash shows nothing: it was pending, and it leaves the buffer empty.
LEMMA SquashRefines == MachineInv /\ Squash => Precise!Next
<1> SUFFICES ASSUME MachineInv, Squash PROVE Precise!Next
  OBVIOUS
<1>1. Waiting = << >>
  BY DEF Squash, Waiting, Pending
<1>2. Init' => Waiting' = << >> /\ Retiring' = << >>
  <2>1. (Init => Precise!Init)'
    BY InitRefines, PTL
  <2> QED
    BY <2>1 DEF Precise!Init
<1> QED
  BY <1>1, <1>2, SquashInit, NothingShown

\* What is shown changes only with the state.
LEMMA StutterRefines == UNCHANGED vars => UNCHANGED <<Waiting, Retiring>>
  BY DEF vars, dqVars, commitVars, memVars, Waiting, Retiring, RenameCommits, CommitNum, WillNum,
         Stops, Match, has_except, has_mispred, Squashing, Pending, KindAt, DQ!ClearNum, DQ!Slot, DQ!Wrap

\* Instructions retire in program order and once, nothing that faults retires,
\* nothing retires behind a redirection or a fault, and nothing is thrown away
\* without such a cause at the front, as long as no violating load retires.
THEOREM Refinement == Spec /\ []ViolatingLoadNeverRetires => ImplementsRetirement
<1>1. Init => Precise!Init
  BY InitRefines
<1>2. ASSUME MachineInv, MachineInv', ReasonInv', [Next]_vars
      PROVE  Precise!Next \/ UNCHANGED <<Waiting, Retiring>>
  <2>1. CASE Advance(FALSE)
    BY <1>2, <2>1, AdvanceInputs, CycleRefines
  <2>2. CASE Squash
    BY <1>2, <2>2, SquashRefines
  <2>3. CASE UNCHANGED vars
    BY <2>3, StutterRefines
  <2> QED
    BY <1>2, <2>1, <2>2, <2>3 DEF Next
<1>3. ASSUME MachineInv, MachineInv', ReasonInv', [Next]_vars
      PROVE  [Precise!Next]_<<Waiting, Retiring>>
  BY <1>2, <1>3
<1> QED
  BY <1>1, <1>3, MachineInvariance, ReasonInvariance, PTL DEF Spec, ImplementsRetirement, Precise!Spec

\* So it does while no load retires in one cycle with a store in front of it.
THEOREM RefinementAlways == Spec /\ []StoresApart => ImplementsRetirement
  BY StoresApartOrder, Refinement, PTL
=============================================================================
