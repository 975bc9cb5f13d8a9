--------------------------- MODULE DataQue_proofs ---------------------------
(***************************************************************************)
(* The invariants of DataQue, for any depth and any widths.                *)
(*                                                                         *)
(* TypeOK and WindowAgrees go together: that the counter stays in its range *)
(* needs entries to leave only from occupied slots, which is the window.   *)
(* AgesInOrder is not inductive; FlipsAgree says which flipped bit every    *)
(* entry has, and the order follows from it.                               *)
(*                                                                         *)
(* Last, that the ring implements the queue that its users see: the        *)
(* invariant says which slots hold entries, and a cycle then maps to one   *)
(* step of the queue.  The n entries that leave are its first, the c - n   *)
(* that stay keep their data and their marks, and the m that arrive come   *)
(* behind them.                                                            *)
(***************************************************************************)
EXTENDS DataQue, SequenceTheorems, WellFoundedInduction, TLAPS

\* An entry has the flipped bit that the enqueue pointer has now, unless the
\* pointer has wrapped since.
FlipsAgree ==
  \A j \in 0 .. count - 1 :
    flip_bits[Slot(j)] <=> (enq_ptr_flipped <=> (head_ptr + j < DEPTH <=> head_ptr + count < DEPTH))

Inv == TypeOK /\ WindowAgrees /\ FlipsAgree

-----------------------------------------------------------------------------
(* Arithmetic of the ring. *)

\* One conditional subtraction wraps what is less than twice around.
LEMMA WrapType ==
  ASSUME NEW b \in Slots, NEW i \in 0 .. DEPTH
  PROVE  Wrap(b + i) \in Slots
  BY DepthAssumption DEF Wrap, Slots

\* Walking around the ring visits no slot twice.
LEMMA WrapInjective ==
  ASSUME NEW b \in Slots, NEW i \in 0 .. DEPTH - 1, NEW j \in 0 .. DEPTH - 1,
         Wrap(b + i) = Wrap(b + j)
  PROVE  i = j
  BY DepthAssumption DEF Wrap, Slots

\* Walking around the ring visits every slot.
LEMMA WrapOnto ==
  ASSUME NEW b \in Slots, NEW s \in Slots
  PROVE  \E p \in 0 .. DEPTH - 1 : s = Wrap(b + p)
<1>1. CASE b <= s
  <2>1. s - b \in 0 .. DEPTH - 1 /\ s = Wrap(b + (s - b))
    BY <1>1, DepthAssumption DEF Wrap, Slots
  <2> QED
    BY <2>1
<1>2. CASE s < b
  <2>1. s - b + DEPTH \in 0 .. DEPTH - 1 /\ s = Wrap(b + (s - b + DEPTH))
    BY <1>2, DepthAssumption DEF Wrap, Slots
  <2> QED
    BY <2>1
<1> QED
  BY <1>1, <1>2, DepthAssumption DEF Slots

\* Two moves of a pointer are one.
LEMMA WrapAdd ==
  ASSUME NEW b \in Slots, NEW i \in Nat, NEW j \in Nat, i + j <= DEPTH
  PROVE  Wrap(Wrap(b + i) + j) = Wrap(b + (i + j))
  BY DepthAssumption DEF Wrap, Slots

\* ... and a full turn is none.
LEMMA WrapTurn ==
  ASSUME NEW b \in Slots, NEW i \in 0 .. DEPTH, NEW j \in 0 .. DEPTH - 1, i + j >= DEPTH
  PROVE  Wrap(Wrap(b + i) + j) = Wrap(b + (i + j - DEPTH))
  BY DepthAssumption DEF Wrap, Slots

\* Where the pointer wraps is seen alike from an old and a new head b and
\* Wrap(b + n), from an entry p and from the enqueue pointer, before and after
\* m entries have come behind c.
LEMMA WrapSides ==
  ASSUME NEW b \in Slots, NEW n \in Nat, NEW c \in Nat, NEW m \in Nat, NEW p \in Nat,
         n <= c, n <= p, p < c + m, c + m <= DEPTH
  PROVE  /\ (Wrap(b + n) + (p - n) < DEPTH <=> Wrap(b + n) + (c + m - n) < DEPTH)
              <=> (b + p < DEPTH <=> b + (c + m) < DEPTH)
         /\ Wrap(b + c) + m < DEPTH <=> (b + c < DEPTH <=> b + (c + m) < DEPTH)
         /\ p >= c => (Wrap(b + c) + (p - c) < DEPTH <=> (b + c < DEPTH <=> b + p < DEPTH))
  BY DepthAssumption, SMTT(30) DEF Wrap, Slots

-----------------------------------------------------------------------------
(* What enters and what leaves. *)

\* A set of naturals that is not empty has a least element.
LEMMA LeastElement ==
  ASSUME NEW T \in SUBSET Nat, T # {}
  PROVE  \E m \in T : \A k \in T : m <= k
<1> DEFINE R == {ss \in Nat \X Nat : ss[1] < ss[2]}
<1>1. IsWellFoundedOn(R, Nat)
  BY NatLessThanWellFounded DEF OpToRel
<1>2. PICK m \in T : \A k \in T : <<k, m>> \notin R
  BY <1>1, WFMin, Zenon
<1>3. ASSUME NEW k \in T PROVE m <= k
  <2>1. k \in Nat /\ m \in Nat
    OBVIOUS
  <2>2. ~(k < m)
    BY <1>2, <2>1
  <2> QED
    BY <2>1, <2>2
<1> QED
  BY <1>3

\* The group that enters fits.
LEMMA EnteringFacts ==
  ASSUME TypeOK, NEW enq \in Groups
  PROVE  /\ Len(Entering(enq)) \in Nat
         /\ count + Len(Entering(enq)) <= DEPTH
         /\ Entering(enq) \in [1 .. Len(Entering(enq)) -> Data]
<1>1. PICK n \in 0 .. INPORT_NUM : enq \in [1 .. n -> Data]
  BY DEF Groups
<1>2. n \in Nat /\ Len(enq) = n
  <2>1. n \in Nat /\ DOMAIN enq = 1 .. n
    BY <1>1, InportAssumption, DepthAssumption
  <2>2. enq \in Seq(Data)
    BY <1>1, <2>1
  <2> QED
    BY <2>1, <2>2
<1>3. CASE CanEnq(Len(enq))
  BY <1>1, <1>2, <1>3, DepthAssumption DEF Entering, CanEnq, TypeOK
<1>4. CASE ~CanEnq(Len(enq))
  <2>1. Entering(enq) = << >> /\ Len(<< >>) = 0
    BY <1>4 DEF Entering
  <2>2. count + 0 <= DEPTH
    BY DepthAssumption DEF TypeOK
  <2>3. << >> \in [1 .. 0 -> Data]
    OBVIOUS
  <2> QED
    BY <2>1, <2>2, <2>3
<1> QED
  BY <1>3, <1>4

\* The number of entries that leave is well defined.
LEMMA ClearNumDefined ==
  ASSUME NEW stall \in BOOLEAN
  PROVE  /\ ClearNum(stall) \in 0 .. COMMIT_WID
         /\ \A k \in 0 .. ClearNum(stall) - 1 : clear_bits[Slot(k)]
<1>0. COMMIT_WID \in Nat
  BY CommitWidAssumption, DepthAssumption
<1>1. CASE stall
  BY <1>0, <1>1 DEF ClearNum
<1>2. CASE ~stall
  <2> DEFINE T == {n \in 0 .. COMMIT_WID : n = COMMIT_WID \/ ~clear_bits[Slot(n)]}
  <2>1. T \in SUBSET Nat /\ COMMIT_WID \in T
    BY <1>0
  <2>2. PICK m \in T : \A k \in T : m <= k
    BY <2>1, LeastElement
  <2>3. ASSUME NEW k \in 0 .. m - 1 PROVE clear_bits[Slot(k)]
    <3>1. k \in 0 .. COMMIT_WID /\ ~(m <= k)
      BY <1>0, <2>1, <2>2
    <3> QED
      BY <2>2, <3>1
  <2>4. \E n \in 0 .. COMMIT_WID : /\ \A k \in 0 .. n - 1 : clear_bits[Slot(k)]
                                   /\ n = COMMIT_WID \/ ~clear_bits[Slot(n)]
    BY <2>2, <2>3
  <2> QED
    BY <1>2, <2>4 DEF ClearNum
<1> QED
  BY <1>1, <1>2

\* Only occupied slots are left.
LEMMA ClearNumFacts ==
  ASSUME TypeOK, WindowAgrees, NEW stall \in BOOLEAN
  PROVE  ClearNum(stall) \in 0 .. count
<1> DEFINE n == ClearNum(stall)
<1>1. n \in Nat /\ n <= DEPTH /\ count \in Nat /\ count <= DEPTH /\ head_ptr \in Slots
  BY ClearNumDefined, CommitWidAssumption, DepthAssumption DEF TypeOK
<1>2. \A k \in 0 .. n - 1 : clear_bits[Slot(k)]
  BY ClearNumDefined
<1> HIDE DEF n
<1>3. ASSUME n > count PROVE FALSE
  <2>1. count \in 0 .. n - 1 /\ count \in 0 .. DEPTH - 1 /\ count \in 0 .. DEPTH
    BY <1>1, <1>3, DepthAssumption
  <2>2. clear_bits[Slot(count)]
    BY <2>1, <1>2
  <2>3. Slot(count) \in Slots
    BY <1>1, <2>1, WrapType DEF Slot
  <2>4. vld_bits[Slot(count)]
    BY <2>2, <2>3 DEF WindowAgrees
  <2>5. count < count
    BY <2>1, <2>4 DEF WindowAgrees
  <2> QED
    BY <1>1, <2>5
<1>4. n \in 0 .. count
  BY <1>1, <1>3
<1> QED
  BY <1>4 DEF n

-----------------------------------------------------------------------------
(* One cycle. *)

\* Places of the ring, counted from the head: the first n leave, those up to c
\* stay, the next m are new.
LEMMA Places ==
  ASSUME Inv, NEW enq \in Groups, NEW stall \in BOOLEAN, NEW p \in 0 .. DEPTH - 1
  PROVE  LET n == ClearNum(stall)
             m == Len(Entering(enq))
         IN /\ (\E k \in 0 .. n - 1 : Slot(p) = Slot(k)) <=> p < n
            /\ vld_bits[Slot(p)] <=> p < count
            /\ \A k \in 1 .. m : Slot(p) = Wrap(enq_ptr + k - 1) <=> k = p - count + 1
<1> DEFINE n == ClearNum(stall)
           m == Len(Entering(enq))
<1>1. /\ n \in Nat /\ n <= count /\ count \in Nat /\ DEPTH \in Nat /\ p \in Nat /\ p < DEPTH
      /\ m \in Nat /\ count + m <= DEPTH /\ head_ptr \in Slots
  BY ClearNumFacts, EnteringFacts, DepthAssumption DEF Inv, TypeOK
<1>2. (\E k \in 0 .. n - 1 : Slot(p) = Slot(k)) <=> p < n
  <2>1. ASSUME NEW k \in 0 .. n - 1, Slot(p) = Slot(k) PROVE p < n
    <3>1. k \in 0 .. DEPTH - 1
      BY <1>1
    <3>2. p = k
      BY <1>1, <2>1, <3>1, WrapInjective DEF Slot
    <3> QED
      BY <1>1, <3>2
  <2>2. ASSUME p < n PROVE p \in 0 .. n - 1
    BY <1>1, <2>2
  <2> QED
    BY <2>1, <2>2
<1>3. vld_bits[Slot(p)] <=> p < count
  BY DEF Inv, WindowAgrees
<1>4. ASSUME NEW k \in 1 .. m
      PROVE  Slot(p) = Wrap(enq_ptr + k - 1) <=> k = p - count + 1
  <2>1. k \in Nat /\ k - 1 \in Nat /\ count + (k - 1) \in 0 .. DEPTH - 1 /\ count + (k - 1) <= DEPTH
    BY <1>1
  <2>2. enq_ptr = Wrap(head_ptr + count) /\ enq_ptr \in Int
    BY DepthAssumption DEF Inv, WindowAgrees, Slot, TypeOK, Slots
  <2>3. Wrap(enq_ptr + (k - 1)) = Wrap(head_ptr + (count + (k - 1)))
    BY <1>1, <2>1, <2>2, WrapAdd
  <2>4. enq_ptr + (k - 1) = enq_ptr + k - 1
    BY <2>1, <2>2
  <2>5. Slot(p) = Wrap(enq_ptr + k - 1) <=> p = count + (k - 1)
    BY <1>1, <2>1, <2>3, <2>4, WrapInjective DEF Slot
  <2> QED
    BY <1>1, <2>1, <2>5
<1> QED
  BY <1>2, <1>3, <1>4

\* A cycle preserves the invariant.
LEMMA CycleInv ==
  ASSUME Inv, NEW enq \in Groups, NEW finished \in SUBSET {s \in Slots : vld_bits[s]},
         NEW stall \in BOOLEAN, NEW marks \in SUBSET (1 .. Len(enq)),
         Cycle(enq, marks, finished, stall)
  PROVE  Inv'
<1> DEFINE n == ClearNum(stall)
           in == Entering(enq)
           m == Len(in)
           at(s) == {k \in 1 .. m : s = Wrap(enq_ptr + k - 1)}
           leaves(s) == \E k \in 0 .. n - 1 : s = Slot(k)
<1>1. /\ n \in Nat /\ n <= count /\ count \in Nat /\ DEPTH \in Nat
      /\ m \in Nat /\ count + m <= DEPTH /\ head_ptr \in Slots /\ enq_ptr \in Slots
      /\ in \in [1 .. m -> Data] /\ enq_ptr = Wrap(head_ptr + count)
      /\ n \in 0 .. DEPTH /\ m \in 0 .. DEPTH /\ enq_ptr_flipped \in BOOLEAN
  BY ClearNumFacts, EnteringFacts, DepthAssumption DEF Inv, TypeOK, WindowAgrees, Slot
<1>2. /\ count' = count + m - n
      /\ head_ptr' = Slot(n)
      /\ enq_ptr' = Wrap(enq_ptr + m)
      /\ enq_ptr_flipped' = FlipAfter(m)
      /\ vld_bits' = [s \in Slots |-> ~leaves(s) /\ (vld_bits[s] \/ at(s) # {})]
      /\ clear_bits' = NextClear(1 .. m, marks, 0 .. n - 1, finished)
      /\ buffer' = [s \in Slots |-> IF leaves(s) THEN Empty
                                    ELSE IF at(s) = {} THEN buffer[s]
                                    ELSE in[CHOOSE k \in at(s) : TRUE]]
      /\ flip_bits' = [s \in Slots |-> IF at(s) = {} THEN flip_bits[s]
                                       ELSE AllocId((CHOOSE k \in at(s) : TRUE) - 1).flipped]
  BY DEF Cycle
<1> HIDE DEF in, m, n
<1>3. TypeOK'
  <2>1. count' \in 0 .. DEPTH
    BY <1>1, <1>2
  <2>2. head_ptr' \in Slots /\ enq_ptr' \in Slots
    BY <1>1, <1>2, WrapType DEF Slot
  <2>3. enq_ptr_flipped' \in BOOLEAN
    BY <1>1, <1>2 DEF FlipAfter
  <2>4. vld_bits' \in [Slots -> BOOLEAN]
    BY <1>2
  <2>5. clear_bits' \in [Slots -> BOOLEAN]
    BY <1>2 DEF NextClear
  <2>6. buffer' \in [Slots -> Data \union {Empty}]
    <3> SUFFICES ASSUME NEW s \in Slots
                 PROVE  (IF leaves(s) THEN Empty
                         ELSE IF at(s) = {} THEN buffer[s]
                         ELSE in[CHOOSE k \in at(s) : TRUE]) \in Data \union {Empty}
      BY <1>2
    <3>1. at(s) # {} => in[CHOOSE k \in at(s) : TRUE] \in Data
      <4>1. at(s) # {} => (CHOOSE k \in at(s) : TRUE) \in 1 .. m
        OBVIOUS
      <4> QED
        BY <1>1, <4>1
    <3> QED
      BY <3>1 DEF Inv, TypeOK
  <2>7. flip_bits' \in [Slots -> BOOLEAN]
    <3>1. \A j : AllocId(j).flipped \in BOOLEAN
      BY <1>1 DEF AllocId
    <3> QED
      BY <1>2, <3>1 DEF Inv, TypeOK
  <2> QED
    BY <2>1, <2>2, <2>3, <2>4, <2>5, <2>6, <2>7 DEF TypeOK
<1>4. \A p \in 0 .. DEPTH - 1 :
        /\ Slot(p) \in Slots
        /\ leaves(Slot(p)) <=> p < n
        /\ at(Slot(p)) = {k \in 1 .. m : k = p - count + 1}
        /\ vld_bits[Slot(p)] <=> p < count
  <2> TAKE p \in 0 .. DEPTH - 1
  <2>1. Slot(p) \in Slots
    <3>1. p \in 0 .. DEPTH
      BY <1>1
    <3> QED
      BY <1>1, <3>1, WrapType DEF Slot
  <2>2. /\ (\E k \in 0 .. n - 1 : Slot(p) = Slot(k)) <=> p < n
        /\ vld_bits[Slot(p)] <=> p < count
        /\ \A k \in 1 .. m : Slot(p) = Wrap(enq_ptr + k - 1) <=> k = p - count + 1
    BY Places DEF n, m, in
  <2>3. at(Slot(p)) = {k \in 1 .. m : k = p - count + 1}
    BY <2>2
  <2> QED
    BY <2>1, <2>2, <2>3
<1>5. \A p \in 0 .. DEPTH - 1 : at(Slot(p)) # {} <=> count <= p /\ p < count + m
  <2> TAKE p \in 0 .. DEPTH - 1
  <2>1. p - count + 1 \in 1 .. m <=> count <= p /\ p < count + m
    BY <1>1
  <2>2. at(Slot(p)) # {} <=> p - count + 1 \in 1 .. m
    BY <1>4
  <2> QED
    BY <2>1, <2>2
<1>6. WindowAgrees'
  <2>1. enq_ptr' = Wrap(head_ptr' + count')
    <3>1. n \in Nat /\ count' \in Nat /\ n + count' = count + m /\ n + count' <= DEPTH
      BY <1>1, <1>2
    <3>2. Wrap(Wrap(head_ptr + n) + count') = Wrap(head_ptr + (n + count'))
      BY <1>1, <3>1, WrapAdd
    <3>3. Wrap(Wrap(head_ptr + count) + m) = Wrap(head_ptr + (count + m))
      BY <1>1, WrapAdd
    <3> QED
      BY <1>1, <1>2, <3>1, <3>2, <3>3 DEF Slot
  <2>2. ASSUME NEW j \in 0 .. DEPTH - 1
        PROVE  vld_bits'[Wrap(head_ptr' + j)] <=> j < count'
    <3>1. CASE n + j < DEPTH
      <4>1. n + j \in 0 .. DEPTH - 1 /\ j \in Nat /\ n + j <= DEPTH
        BY <1>1, <3>1
      <4>2. Wrap(head_ptr' + j) = Slot(n + j)
        BY <1>1, <1>2, <4>1, WrapAdd DEF Slot
      <4>3. /\ Slot(n + j) \in Slots
            /\ leaves(Slot(n + j)) <=> n + j < n
            /\ at(Slot(n + j)) # {} <=> count <= n + j /\ n + j < count + m
            /\ vld_bits[Slot(n + j)] <=> n + j < count
        BY <1>4, <1>5, <4>1
      <4>4. vld_bits'[Slot(n + j)] <=> ~leaves(Slot(n + j)) /\ (vld_bits[Slot(n + j)] \/ at(Slot(n + j)) # {})
        BY <1>2, <4>3
      <4>5. vld_bits'[Slot(n + j)] <=> ~(n + j < n) /\ (n + j < count \/ (count <= n + j /\ n + j < count + m))
        BY <4>3, <4>4
      <4>6. vld_bits'[Slot(n + j)] <=> n + j < count + m
        BY <1>1, <4>1, <4>5
      <4>7. n + j < count + m <=> j < count'
        BY <1>1, <1>2, <4>1
      <4> QED
        BY <4>2, <4>6, <4>7
    <3>2. CASE n + j >= DEPTH
      <4>1. n + j - DEPTH \in 0 .. DEPTH - 1 /\ n + j - DEPTH < n /\ ~(j < count')
        BY <1>1, <1>2, <3>2
      <4>2. Wrap(head_ptr' + j) = Slot(n + j - DEPTH)
        BY <1>1, <1>2, <3>2, WrapTurn DEF Slot
      <4>3. leaves(Slot(n + j - DEPTH)) /\ Slot(n + j - DEPTH) \in Slots
        BY <1>4, <4>1
      <4> QED
        BY <1>2, <4>1, <4>2, <4>3
    <3> QED
      BY <1>1, <3>1, <3>2
  <2>3. ASSUME NEW s \in Slots, clear_bits'[s] PROVE vld_bits'[s]
    <3>1. /\ \A k \in 0 .. n - 1 : s # Slot(k)
          /\ clear_bits[s] \/ s \in finished \/ \E k \in 1 .. m : s = Wrap(enq_ptr + k - 1)
      BY <1>2, <2>3 DEF NextClear
    <3>2. vld_bits[s] \/ at(s) # {}
      BY <3>1 DEF Inv, WindowAgrees
    <3> QED
      BY <1>2, <3>1, <3>2
  <2> QED
    BY <2>1, <2>2, <2>3 DEF WindowAgrees, Slot
<1>7. FlipsAgree'
  <2> SUFFICES ASSUME NEW j \in 0 .. count' - 1
               PROVE  flip_bits'[Wrap(head_ptr' + j)] <=>
                        (enq_ptr_flipped' <=> (head_ptr' + j < DEPTH <=> head_ptr' + count' < DEPTH))
    BY DEF FlipsAgree, Slot
  <2> DEFINE p == n + j
  <2>1. /\ p \in Nat /\ n <= p /\ p < count + m /\ p \in 0 .. DEPTH - 1 /\ j = p - n /\ j \in Nat
        /\ count' = count + m - n /\ n + j <= DEPTH
    BY <1>1, <1>2
  <2> HIDE DEF p
  <2>2. Wrap(head_ptr' + j) = Slot(p)
    BY <1>1, <1>2, <2>1, WrapAdd DEF Slot
  <2>3. Slot(p) \in Slots /\ (at(Slot(p)) # {} <=> count <= p)
    BY <1>4, <1>5, <2>1
  <2>4. /\ (head_ptr' + j < DEPTH <=> head_ptr' + count' < DEPTH)
             <=> (head_ptr + p < DEPTH <=> head_ptr + (count + m) < DEPTH)
        /\ enq_ptr + m < DEPTH <=> (head_ptr + count < DEPTH <=> head_ptr + (count + m) < DEPTH)
        /\ p >= count => (enq_ptr + (p - count) < DEPTH
                            <=> (head_ptr + count < DEPTH <=> head_ptr + p < DEPTH))
    <3>1. /\ (Wrap(head_ptr + n) + (p - n) < DEPTH <=> Wrap(head_ptr + n) + (count + m - n) < DEPTH)
               <=> (head_ptr + p < DEPTH <=> head_ptr + (count + m) < DEPTH)
          /\ Wrap(head_ptr + count) + m < DEPTH
               <=> (head_ptr + count < DEPTH <=> head_ptr + (count + m) < DEPTH)
          /\ p >= count => (Wrap(head_ptr + count) + (p - count) < DEPTH
                              <=> (head_ptr + count < DEPTH <=> head_ptr + p < DEPTH))
      BY <1>1, <2>1, WrapSides
    <3>2. head_ptr' = Wrap(head_ptr + n)
      BY <1>2 DEF Slot
    <3> QED
      BY <1>1, <2>1, <3>1, <3>2
  <2>5. enq_ptr_flipped' <=> (enq_ptr_flipped <=> enq_ptr + m < DEPTH)
    BY <1>1, <1>2 DEF FlipAfter
  <2>6. flip_bits'[Slot(p)] <=> (enq_ptr_flipped <=> (head_ptr + p < DEPTH <=> head_ptr + count < DEPTH))
    <3>1. CASE p < count
      <4>1. p \in 0 .. count - 1 /\ ~(count <= p)
        BY <1>1, <2>1, <3>1
      <4>2. flip_bits'[Slot(p)] = flip_bits[Slot(p)]
        BY <1>2, <2>3, <4>1
      <4>3. flip_bits[Slot(p)] <=> (enq_ptr_flipped <=> (head_ptr + p < DEPTH <=> head_ptr + count < DEPTH))
        BY <4>1 DEF Inv, FlipsAgree
      <4> QED
        BY <4>2, <4>3
    <3>2. CASE count <= p
      <4>1. at(Slot(p)) = {p - count + 1}
        <5>1. p - count + 1 \in 1 .. m
          BY <1>1, <2>1, <3>2
        <5> QED
          BY <1>4, <2>1, <5>1
      <4>2. (CHOOSE k \in at(Slot(p)) : TRUE) - 1 = p - count
        <5> DEFINE k0 == CHOOSE k \in at(Slot(p)) : TRUE
        <5>1. k0 = p - count + 1
          BY <4>1
        <5> HIDE DEF k0
        <5>2. k0 - 1 = p - count
          BY <1>1, <2>1, <5>1
        <5> QED
          BY <5>2 DEF k0
      <4>3. flip_bits'[Slot(p)] = AllocId(p - count).flipped
        BY <1>2, <2>3, <3>2, <4>2
      <4>4. AllocId(p - count).flipped <=> (enq_ptr_flipped <=> enq_ptr + (p - count) < DEPTH)
        BY <1>1 DEF AllocId
      <4>5. p >= count
        BY <1>1, <2>1, <3>2
      <4> QED
        BY <2>4, <4>3, <4>4, <4>5
    <3> QED
      BY <1>1, <2>1, <3>1, <3>2
  <2> QED
    BY <2>2, <2>4, <2>5, <2>6
<1> QED
  BY <1>3, <1>6, <1>7 DEF Inv

-----------------------------------------------------------------------------
(* The window and its ages across a cycle, for the modules that use the ring. *)

\* The age of place p: that of the entry there, or the one that a group would
\* give it.
WindowAge(p) == IF p < count THEN AgeAt(p) ELSE AllocId(p - count)

\* The bit of every age, old or to be given.
LEMMA WindowAgeFacts ==
  ASSUME Inv, NEW p \in 0 .. DEPTH - 1
  PROVE  /\ WindowAge(p).idx = Slot(p)
         /\ WindowAge(p).flipped \in BOOLEAN
         /\ WindowAge(p).flipped
              <=> (enq_ptr_flipped <=> (head_ptr + p < DEPTH <=> head_ptr + count < DEPTH))
<1>1. /\ count \in Nat /\ count <= DEPTH /\ DEPTH \in Nat /\ head_ptr \in Slots /\ head_ptr \in Int
      /\ enq_ptr = Wrap(head_ptr + count) /\ enq_ptr \in Int /\ enq_ptr_flipped \in BOOLEAN
  BY DepthAssumption DEF Inv, TypeOK, WindowAgrees, Slot, Slots
<1>2. p \in Nat /\ p < DEPTH /\ p \in 0 .. DEPTH
  BY <1>1
<1>3. CASE p < count
  <2>1. Slot(p) \in Slots
    BY <1>1, <1>2, WrapType DEF Slot
  <2>2. WindowAge(p) = [idx |-> Slot(p), flipped |-> flip_bits[Slot(p)]]
    BY <1>3 DEF WindowAge, AgeAt
  <2>3. p \in 0 .. count - 1
    BY <1>1, <1>2, <1>3
  <2> QED
    BY <2>1, <2>2, <2>3 DEF Inv, TypeOK, FlipsAgree
<1>4. CASE ~(p < count)
  <2>1. PICK k \in Nat : p = count + k
    <3>1. p - count \in Nat /\ p = count + (p - count)
      BY <1>1, <1>2, <1>4
    <3> QED
      BY <3>1
  <2>2. WindowAge(p) = AllocId(k)
    <3>1. p - count = k
      BY <1>1, <1>2, <2>1
    <3> QED
      BY <1>4, <3>1 DEF WindowAge
  <2>3. Wrap(enq_ptr + k) = Slot(p)
    BY <1>1, <1>2, <2>1, WrapAdd DEF Slot
  <2>4. enq_ptr + k < DEPTH <=> (head_ptr + count < DEPTH <=> head_ptr + p < DEPTH)
    <3>1. head_ptr + count = head_ptr + count + 0 /\ count + k < DEPTH
      BY <1>1, <1>2, <2>1
    <3>2. Wrap(head_ptr + count) + k < DEPTH
            <=> (head_ptr + count < DEPTH <=> head_ptr + (count + k) < DEPTH)
      BY <1>1, <3>1 DEF Wrap, Slots
    <3> QED
      BY <1>1, <2>1, <3>2
  <2>5. AllocId(k).flipped <=> (enq_ptr_flipped <=> enq_ptr + k < DEPTH)
    BY <1>1 DEF AllocId
  <2>6. AllocId(k).flipped \in BOOLEAN /\ AllocId(k).idx = Wrap(enq_ptr + k)
    BY <1>1 DEF AllocId
  <2> QED
    BY <2>2, <2>3, <2>4, <2>5, <2>6
<1> QED
  BY <1>3, <1>4

\* Ages order the window, the places of a group included: one is OLDER_THAN
\* another exactly when its place is nearer the head.
LEMMA WindowOrder ==
  ASSUME Inv, NEW p \in 0 .. DEPTH - 1, NEW q \in 0 .. DEPTH - 1
  PROVE  OlderThan(WindowAge(p), WindowAge(q)) <=> p < q
<1>1. /\ head_ptr \in Nat /\ head_ptr < DEPTH /\ DEPTH \in Nat
      /\ p \in Nat /\ p < DEPTH /\ q \in Nat /\ q < DEPTH
  BY DepthAssumption DEF Inv, TypeOK, Slots
<1>2. WindowAge(p).flipped = WindowAge(q).flipped
        <=> (head_ptr + p < DEPTH <=> head_ptr + q < DEPTH)
  BY WindowAgeFacts
<1>3. WindowAge(p).idx = Slot(p) /\ WindowAge(q).idx = Slot(q)
  BY WindowAgeFacts
<1>4. CASE head_ptr + p < DEPTH <=> head_ptr + q < DEPTH
  <2>1. Slot(p) < Slot(q) <=> p < q
    BY <1>1, <1>4 DEF Slot, Wrap
  <2> QED
    BY <1>2, <1>3, <1>4, <2>1 DEF OlderThan
<1>5. CASE ~(head_ptr + p < DEPTH <=> head_ptr + q < DEPTH)
  <2>1. Slot(p) > Slot(q) <=> p < q
    BY <1>1, <1>5 DEF Slot, Wrap
  <2> QED
    BY <1>2, <1>3, <1>5, <2>1 DEF OlderThan
<1> QED
  BY <1>4, <1>5

\* The places of a cycle, counted from the old head: the n that leave are marked
\* ones, the next head has moved by n, an old entry keeps its data and its age
\* and its mark, and the i-th new one is in the place behind the last and has
\* the age that it was given.
LEMMA CycleWindow ==
  ASSUME Inv, NEW enq \in Groups, NEW finished \in SUBSET {s \in Slots : vld_bits[s]},
         NEW stall \in BOOLEAN, NEW marks \in SUBSET (1 .. Len(enq)),
         Cycle(enq, marks, finished, stall)
  PROVE  LET n == ClearNum(stall)
             m == Len(Entering(enq))
         IN /\ count' = count + m - n
            /\ \A p \in n .. count + m - 1 :
                 /\ Slot(p) \in Slots
                 /\ Wrap(head_ptr' + (p - n)) = Slot(p)
                 /\ vld_bits'[Slot(p)]
                 /\ [idx |-> Slot(p), flipped |-> flip_bits'[Slot(p)]] = WindowAge(p)
                 /\ p < count =>
                      /\ buffer'[Slot(p)] = buffer[Slot(p)]
                      /\ clear_bits'[Slot(p)] <=> clear_bits[Slot(p)] \/ Slot(p) \in finished
                 /\ p >= count =>
                      /\ buffer'[Slot(p)] = Entering(enq)[p - count + 1]
                      /\ clear_bits'[Slot(p)] <=> p - count + 1 \in marks
            /\ \A s \in Slots : vld_bits'[s] => \E p \in n .. count + m - 1 : s = Slot(p)
<1> DEFINE n == ClearNum(stall)
           in == Entering(enq)
           m == Len(in)
           at(s) == {k \in 1 .. m : s = Wrap(enq_ptr + k - 1)}
           leaves(s) == \E k \in 0 .. n - 1 : s = Slot(k)
<1>1. /\ n \in Nat /\ n <= count /\ count \in Nat /\ DEPTH \in Nat
      /\ m \in Nat /\ count + m <= DEPTH /\ head_ptr \in Slots /\ enq_ptr_flipped \in BOOLEAN
  BY ClearNumFacts, EnteringFacts, DepthAssumption DEF Inv, TypeOK
<1>2. /\ count' = count + m - n
      /\ head_ptr' = Slot(n)
      /\ vld_bits' = [s \in Slots |-> ~leaves(s) /\ (vld_bits[s] \/ at(s) # {})]
      /\ clear_bits' = NextClear(1 .. m, marks, 0 .. n - 1, finished)
      /\ buffer' = [s \in Slots |-> IF leaves(s) THEN Empty
                                    ELSE IF at(s) = {} THEN buffer[s]
                                    ELSE in[CHOOSE k \in at(s) : TRUE]]
      /\ flip_bits' = [s \in Slots |-> IF at(s) = {} THEN flip_bits[s]
                                       ELSE AllocId((CHOOSE k \in at(s) : TRUE) - 1).flipped]
  BY DEF Cycle
<1>3. \A p \in 0 .. DEPTH - 1 :
        /\ leaves(Slot(p)) <=> p < n
        /\ vld_bits[Slot(p)] <=> p < count
        /\ \A k \in 1 .. m : Slot(p) = Wrap(enq_ptr + k - 1) <=> k = p - count + 1
  BY Places
<1>4. \A p \in 0 .. DEPTH - 1 : Slot(p) \in Slots
  <2> TAKE p \in 0 .. DEPTH - 1
  <2>1. p \in 0 .. DEPTH
    BY <1>1
  <2> QED
    BY <1>1, <2>1, WrapType DEF Slot
<1> HIDE DEF n, m, in
<1>5. ASSUME NEW p \in n .. count + m - 1
      PROVE  /\ Slot(p) \in Slots
             /\ Wrap(head_ptr' + (p - n)) = Slot(p)
             /\ vld_bits'[Slot(p)]
             /\ [idx |-> Slot(p), flipped |-> flip_bits'[Slot(p)]] = WindowAge(p)
             /\ p < count =>
                  /\ buffer'[Slot(p)] = buffer[Slot(p)]
                  /\ clear_bits'[Slot(p)] <=> clear_bits[Slot(p)] \/ Slot(p) \in finished
             /\ p >= count =>
                  /\ buffer'[Slot(p)] = in[p - count + 1]
                  /\ clear_bits'[Slot(p)] <=> p - count + 1 \in marks
  <2>1. p \in 0 .. DEPTH - 1 /\ p \in Nat /\ n <= p /\ p < count + m /\ ~(p < n)
    BY <1>1
  <2>2. Slot(p) \in Slots /\ ~leaves(Slot(p))
    BY <1>3, <1>4, <2>1
  <2>3. Wrap(head_ptr' + (p - n)) = Slot(p)
    <3>1. p - n \in Nat /\ n + (p - n) = p /\ n + (p - n) <= DEPTH
      BY <1>1, <2>1
    <3> QED
      BY <1>1, <1>2, <3>1, WrapAdd DEF Slot
  <2>4. CASE p < count
    <3>1. at(Slot(p)) = {}
      <4>1. ASSUME NEW k \in 1 .. m, Slot(p) = Wrap(enq_ptr + k - 1) PROVE FALSE
        <5>1. k = p - count + 1
          BY <1>3, <2>1, <4>1
        <5> QED
          BY <1>1, <2>1, <2>4, <5>1
      <4> QED
        BY <4>1
    <3>2. /\ vld_bits'[Slot(p)]
          /\ buffer'[Slot(p)] = buffer[Slot(p)]
          /\ flip_bits'[Slot(p)] = flip_bits[Slot(p)]
      BY <1>2, <1>3, <2>1, <2>2, <2>4, <3>1
    <3>3. clear_bits'[Slot(p)] <=> clear_bits[Slot(p)] \/ Slot(p) \in finished
      BY <1>2, <2>2, <3>1 DEF NextClear
    <3>4. [idx |-> Slot(p), flipped |-> flip_bits'[Slot(p)]] = WindowAge(p)
      BY <2>4, <3>2 DEF WindowAge, AgeAt
    <3>5. ~(p >= count)
      BY <1>1, <2>1, <2>4
    <3> QED
      BY <2>2, <2>3, <3>2, <3>3, <3>4, <3>5
  <2>5. CASE p >= count
    <3>1. p - count + 1 \in 1 .. m /\ ~(p < count)
      BY <1>1, <2>1, <2>5
    <3>2. at(Slot(p)) = {p - count + 1}
      BY <1>3, <2>1, <3>1
    <3>3. PICK k \in 1 .. m : k = p - count + 1
      BY <3>1
    <3>4. (CHOOSE i \in at(Slot(p)) : TRUE) = k /\ k - 1 = p - count
      BY <1>1, <2>1, <3>2, <3>3
    <3>5. /\ vld_bits'[Slot(p)]
          /\ buffer'[Slot(p)] = in[k]
          /\ flip_bits'[Slot(p)] = AllocId(p - count).flipped
      BY <1>2, <2>2, <3>2, <3>4
    <3>6. clear_bits'[Slot(p)] <=> p - count + 1 \in marks
      <4>1. ~vld_bits[Slot(p)]
        BY <1>3, <2>1, <3>1
      <4>2. ~clear_bits[Slot(p)] /\ Slot(p) \notin finished
        BY <2>2, <4>1 DEF Inv, WindowAgrees
      <4>3. clear_bits'[Slot(p)] <=>
              \/ clear_bits[Slot(p)] \/ Slot(p) \in finished
              \/ \E i \in 1 .. m : Slot(p) = Wrap(enq_ptr + i - 1) /\ i \in marks
        BY <1>2, <2>2 DEF NextClear
      <4>4. (\E i \in 1 .. m : Slot(p) = Wrap(enq_ptr + i - 1) /\ i \in marks) <=> k \in marks
        BY <1>3, <2>1, <3>3
      <4> QED
        BY <3>3, <4>2, <4>3, <4>4
    <3>7. WindowAge(p) = [idx |-> Slot(p), flipped |-> flip_bits'[Slot(p)]]
      <4>1. WindowAge(p).idx = Slot(p)
        BY <2>1, WindowAgeFacts
      <4>2. WindowAge(p) = AllocId(p - count)
        BY <3>1 DEF WindowAge
      <4>3. AllocId(p - count) = [idx |-> AllocId(p - count).idx, flipped |-> AllocId(p - count).flipped]
        BY DEF AllocId
      <4> QED
        BY <3>5, <4>1, <4>2, <4>3
    <3> QED
      BY <2>2, <2>3, <3>1, <3>3, <3>5, <3>6, <3>7
  <2> QED
    BY <1>1, <2>1, <2>4, <2>5
<1>6. ASSUME NEW s \in Slots, vld_bits'[s] PROVE \E p \in n .. count + m - 1 : s = Slot(p)
  <2>1. PICK p \in 0 .. DEPTH - 1 : s = Slot(p)
    BY <1>1, WrapOnto DEF Slot
  <2>2. ~leaves(s) /\ (vld_bits[s] \/ at(s) # {})
    BY <1>2, <1>6
  <2>3. ~(p < n)
    BY <1>3, <2>1, <2>2
  <2>4. p < count + m
    <3>1. CASE vld_bits[s]
      BY <1>1, <1>3, <2>1, <3>1
    <3>2. CASE at(s) # {}
      <4>1. PICK k \in 1 .. m : s = Wrap(enq_ptr + k - 1)
        BY <3>2
      <4>2. k = p - count + 1
        BY <1>3, <2>1, <4>1
      <4> QED
        BY <1>1, <4>2
    <3> QED
      BY <2>2, <3>1, <3>2
  <2>5. p \in n .. count + m - 1
    BY <1>1, <2>3, <2>4
  <2> QED
    BY <2>1, <2>5
<1> QED
  BY <1>2, <1>5, <1>6 DEF n, m, in

-----------------------------------------------------------------------------
\* An empty ring satisfies the invariant.
LEMMA InitInv == Init => Inv
<1> SUFFICES ASSUME Init PROVE Inv
  OBVIOUS
<1>1. TypeOK
  <2>1. 0 \in Slots /\ 0 \in 0 .. DEPTH
    BY DepthAssumption DEF Slots
  <2> QED
    BY <2>1 DEF Init, TypeOK
<1>2. 0 \in Slots /\ DEPTH \in Nat /\ 0 \in 0 .. DEPTH /\ Wrap(0 + 0) = 0
  BY DepthAssumption DEF Slots, Wrap
<1>3. WindowAgrees
  <2>1. enq_ptr = Slot(count)
    BY <1>2 DEF Init, Slot
  <2>2. ASSUME NEW j \in 0 .. DEPTH - 1 PROVE vld_bits[Slot(j)] <=> j < count
    <3>1. j \in 0 .. DEPTH /\ ~(j < 0)
      BY <1>2
    <3>2. Slot(j) \in Slots
      BY <1>2, <3>1, WrapType DEF Init, Slot
    <3> QED
      BY <3>1, <3>2 DEF Init
  <2>3. \A s \in Slots : clear_bits[s] => vld_bits[s]
    BY DEF Init
  <2> QED
    BY <2>1, <2>2, <2>3 DEF WindowAgrees
<1>4. FlipsAgree
  <2>1. 0 .. count - 1 = {}
    BY DEF Init
  <2> QED
    BY <2>1 DEF FlipsAgree
<1> QED
  BY <1>1, <1>3, <1>4 DEF Inv

\* Emptying the ring leads to the state after rst.
LEMMA ResetInv == Reset => Inv'
<1> SUFFICES ASSUME Reset PROVE Inv'
  OBVIOUS
<1>1. TypeOK'
  <2>1. 0 \in Slots /\ 0 \in 0 .. DEPTH
    BY DepthAssumption DEF Slots
  <2> QED
    BY <2>1 DEF Reset, TypeOK
<1>2. 0 \in Slots /\ DEPTH \in Nat /\ 0 \in 0 .. DEPTH /\ Wrap(0 + 0) = 0
  BY DepthAssumption DEF Slots, Wrap
<1>3. WindowAgrees'
  <2>1. (enq_ptr = Slot(count))'
    BY <1>2 DEF Reset, Slot
  <2>2. ASSUME NEW j \in 0 .. DEPTH - 1 PROVE vld_bits'[Wrap(head_ptr' + j)] <=> j < count'
    <3>1. j \in 0 .. DEPTH /\ ~(j < 0)
      BY <1>2
    <3>2. Wrap(0 + j) \in Slots
      BY <1>2, <3>1, WrapType
    <3>3. head_ptr' = 0 /\ count' = 0 /\ vld_bits' = [s \in Slots |-> FALSE]
      BY DEF Reset
    <3>4. vld_bits'[Wrap(head_ptr' + j)] = FALSE
      BY <3>2, <3>3
    <3> QED
      BY <3>1, <3>3, <3>4
  <2>3. (\A s \in Slots : clear_bits[s] => vld_bits[s])'
    BY DEF Reset
  <2> QED
    BY <2>1, <2>2, <2>3 DEF WindowAgrees, Slot
<1>4. FlipsAgree'
  <2>1. 0 .. count' - 1 = {}
    BY DEF Reset
  <2> QED
    BY <2>1 DEF FlipsAgree
<1> QED
  BY <1>1, <1>3, <1>4 DEF Inv

\* The inductive invariant of the ring.
THEOREM Invariance == Spec => []Inv
<1>1. ASSUME Inv, [Next]_vars PROVE Inv'
  <2>1. CASE Advance
    BY <1>1, <2>1, CycleInv DEF Advance
  <2>2. CASE Reset
    BY <2>2, ResetInv
  <2>3. CASE UNCHANGED vars
    BY <1>1, <2>3 DEF vars, Inv, TypeOK, WindowAgrees, FlipsAgree, Slot
  <2> QED
    BY <1>1, <2>1, <2>2, <2>3 DEF Next
<1> QED
  BY InitInv, <1>1, PTL DEF Spec

\* The registers of the ring keep their ranges; the counter never overflows or
\* falls below zero.
THEOREM TypeInvariance == Spec => []TypeOK
<1>1. Inv => TypeOK
  BY DEF Inv
<1> QED
  BY Invariance, <1>1, PTL

\* Counter, pointers, valid bits and marks always agree, so no entry leaves
\* unfinished because of a mark that was left behind.
THEOREM WindowInvariance == Spec => []WindowAgrees
<1>1. Inv => WindowAgrees
  BY DEF Inv
<1> QED
  BY Invariance, <1>1, PTL

\* The ages handed to the pipeline tell the order of arrival of any two
\* entries, however often the ring has wrapped.
THEOREM AgeInvariance == Spec => []AgesInOrder
<1>1. Inv => AgesInOrder
  <2> SUFFICES ASSUME Inv, NEW i \in 0 .. count - 1, NEW j \in 0 .. count - 1, i < j
               PROVE  OlderThan(AgeAt(i), AgeAt(j)) /\ ~OlderThan(AgeAt(j), AgeAt(i))
    BY DEF AgesInOrder
  <2>1. /\ i \in 0 .. DEPTH - 1 /\ j \in 0 .. DEPTH - 1 /\ ~(j < i)
        /\ i < count /\ j < count
    BY DepthAssumption DEF Inv, TypeOK
  <2>2. WindowAge(i) = AgeAt(i) /\ WindowAge(j) = AgeAt(j)
    BY <2>1 DEF WindowAge
  <2>3. /\ OlderThan(WindowAge(i), WindowAge(j)) <=> i < j
        /\ OlderThan(WindowAge(j), WindowAge(i)) <=> j < i
    BY <2>1, WindowOrder
  <2> QED
    BY <2>1, <2>2, <2>3
<1> QED
  BY Invariance, <1>1, PTL

-----------------------------------------------------------------------------
(* The ring is a queue.                                                    *)

\* An entry as the queue shows it: data or, as far as types tell, Empty, with a
\* mark or without.
Both == [data : Data \union {Empty}, done : BOOLEAN]

\* Two sequences joined are known by their elements.
LEMMA Join ==
  ASSUME NEW a \in Nat, NEW b \in Nat,
         NEW f \in [1 .. a -> Both], NEW g \in [1 .. b -> Both], NEW h \in [1 .. a + b -> Both],
         \A i \in 1 .. a : h[i] = f[i],
         \A i \in 1 .. b : h[a + i] = g[i]
  PROVE  h = f \o g
<1>1. f \in Seq(Both) /\ g \in Seq(Both) /\ h \in Seq(Both)
  OBVIOUS
<1>2. Len(f) = a /\ Len(g) = b /\ Len(h) = a + b
  OBVIOUS
<1>3. /\ f \o g \in Seq(Both)
      /\ Len(f \o g) = a + b
      /\ \A i \in 1 .. a + b : (f \o g)[i] = IF i <= a THEN f[i] ELSE g[i - a]
  BY <1>1, <1>2, ConcatProperties
<1>4. ASSUME NEW i \in 1 .. a + b PROVE h[i] = (f \o g)[i]
  <2>1. CASE i <= a
    BY <1>3, <2>1
  <2>2. CASE i > a
    <3>1. i - a \in 1 .. b /\ a + (i - a) = i
      BY <2>2
    <3> QED
      BY <1>3, <2>2, <3>1
  <2> QED
    BY <2>1, <2>2
<1> QED
  BY <1>1, <1>2, <1>3, <1>4, SeqEqual

\* No more enter than there are ports.
LEMMA EnteringWidth ==
  ASSUME NEW enq \in Groups
  PROVE  Len(Entering(enq)) \in 0 .. INPORT_NUM
<1>1. PICK n \in 0 .. INPORT_NUM : enq \in [1 .. n -> Data]
  BY DEF Groups
<1>2. n \in Nat /\ INPORT_NUM \in Nat
  BY InportAssumption, DepthAssumption
<1>3. Len(enq) = n /\ Len(<< >>) = 0
  <2>1. enq \in Seq(Data)
    BY <1>1, <1>2
  <2> QED
    BY <1>1, <1>2, <2>1
<1> QED
  BY <1>2, <1>3 DEF Entering

\* What the queue shows of a slot.
Shown(s) == [data |-> buffer[s], done |-> clear_bits[s]]

\* The queue shows the occupied slots from the head on.
LEMMA QueueType ==
  ASSUME TypeOK
  PROVE  /\ Queue \in [1 .. count -> Both]
         /\ Len(Queue) = count
<1>1. count \in Nat /\ count <= DEPTH /\ DEPTH \in Nat /\ head_ptr \in Slots
  BY DepthAssumption DEF TypeOK
<1>2. ASSUME NEW j \in 1 .. count
      PROVE  Shown(Slot(j - 1)) \in Both
  <2>1. j - 1 \in 0 .. DEPTH
    BY <1>1
  <2>2. Slot(j - 1) \in Slots
    BY <1>1, <2>1, WrapType DEF Slot
  <2> QED
    BY <2>2 DEF Shown, Both, TypeOK
<1>3. Queue \in [1 .. count -> Both]
  BY <1>2 DEF Queue, Shown
<1> QED
  BY <1>1, <1>3 DEF Queue

\* The entries that it shows after a step.
LEMMA QueueNext ==
  \A j \in 1 .. count' :
    Queue'[j] = [data |-> buffer'[Wrap(head_ptr' + (j - 1))], done |-> clear_bits'[Wrap(head_ptr' + (j - 1))]]
  BY DEF Queue, Slot

\* The entries that leave are marked, those of the queue among them.
LEMMA LeavingDone ==
  ASSUME Inv, NEW stall \in BOOLEAN
  PROVE  /\ ClearNum(stall) \in 0 .. COMMIT_WID
         /\ ClearNum(stall) <= Len(Queue)
         /\ \A i \in 1 .. ClearNum(stall) : Queue[i].done
<1> DEFINE n == ClearNum(stall)
<1>1. /\ n \in 0 .. COMMIT_WID /\ n \in Nat /\ count \in Nat /\ n <= count /\ Len(Queue) = count
      /\ \A k \in 0 .. n - 1 : clear_bits[Slot(k)]
  <2>1. TypeOK /\ WindowAgrees
    BY DEF Inv
  <2>2. n \in 0 .. COMMIT_WID /\ \A k \in 0 .. n - 1 : clear_bits[Slot(k)]
    BY ClearNumDefined
  <2>3. n \in 0 .. count
    BY <2>1, ClearNumFacts
  <2>4. Len(Queue) = count
    BY <2>1, QueueType
  <2>5. count \in Nat
    BY <2>1, DepthAssumption DEF TypeOK
  <2> HIDE DEF n
  <2> QED
    BY <2>2, <2>3, <2>4, <2>5
<1> HIDE DEF n
<1>2. ASSUME NEW i \in 1 .. n PROVE Queue[i].done
  <2>1. i \in 1 .. count /\ i - 1 \in 0 .. n - 1
    BY <1>1
  <2> QED
    BY <1>1, <2>1 DEF Queue
<1> QED
  BY <1>1, <1>2 DEF n

\* A cycle is a step of the queue.
LEMMA CycleRefines ==
  ASSUME Inv, Advance
  PROVE  Abs!Advance
<1>1. PICK enq \in Groups, finished \in SUBSET {s \in Slots : vld_bits[s]}, stall \in BOOLEAN :
        \E marks \in SUBSET (1 .. Len(enq)) : Cycle(enq, marks, finished, stall)
  BY DEF Advance
<1>2. PICK marks \in SUBSET (1 .. Len(enq)) : Cycle(enq, marks, finished, stall)
  BY <1>1
<1> DEFINE n == ClearNum(stall)
           in == Entering(enq)
           m == Len(in)
           left == [i \in 1 .. count - n |-> clear_bits'[Slot(n + i - 1)]]
           stay == [i \in 1 .. count - n |-> [Queue[i + n] EXCEPT !.done = left[i]]]
           group == [i \in 1 .. m |-> [data |-> in[i], done |-> clear_bits'[Slot(count + i - 1)]]]
<1>3. /\ n \in Nat /\ n <= count /\ count \in Nat /\ DEPTH \in Nat /\ head_ptr \in Slots
      /\ m \in Nat /\ count + m <= DEPTH /\ in \in [1 .. m -> Data] /\ m \in 0 .. INPORT_NUM
  BY ClearNumFacts, EnteringFacts, EnteringWidth, DepthAssumption DEF Inv, TypeOK
<1>4. /\ n \in 0 .. COMMIT_WID
      /\ \A i \in 1 .. n : Queue[i].done
  BY LeavingDone
<1>5. count' = count + m - n
  BY <1>2 DEF Cycle
<1>6. \A p \in n .. count + m - 1 :
        /\ Wrap(head_ptr' + (p - n)) = Slot(p)
        /\ p < count => /\ buffer'[Slot(p)] = buffer[Slot(p)]
                        /\ clear_bits[Slot(p)] => clear_bits'[Slot(p)]
        /\ p >= count => buffer'[Slot(p)] = in[p - count + 1]
  <2>1. \A p \in n .. count + m - 1 :
          /\ Slot(p) \in Slots
          /\ Wrap(head_ptr' + (p - n)) = Slot(p)
          /\ vld_bits'[Slot(p)]
          /\ [idx |-> Slot(p), flipped |-> flip_bits'[Slot(p)]] = WindowAge(p)
          /\ p < count =>
               /\ buffer'[Slot(p)] = buffer[Slot(p)]
               /\ clear_bits'[Slot(p)] <=> clear_bits[Slot(p)] \/ Slot(p) \in finished
          /\ p >= count =>
               /\ buffer'[Slot(p)] = in[p - count + 1]
               /\ clear_bits'[Slot(p)] <=> p - count + 1 \in marks
    BY <1>2, CycleWindow, ZenonT(30)
  <2> QED
    BY <2>1, Zenon
<1>7. Inv'
  BY <1>2, CycleInv
<1>8. /\ Queue \in [1 .. count -> Both] /\ Len(Queue) = count
      /\ Queue' \in [1 .. count' -> Both]
  <2>1. TypeOK /\ TypeOK'
    BY <1>7 DEF Inv
  <2>2. (Queue \in [1 .. count -> Both])'
    BY <2>1, QueueType, PTL
  <2> QED
    BY <2>1, <2>2, QueueType
<1> HIDE DEF n, m, in
<1>9. \A p \in 0 .. DEPTH - 1 : clear_bits'[Slot(p)] \in BOOLEAN
  <2> TAKE p \in 0 .. DEPTH - 1
  <2>1. p \in 0 .. DEPTH
    BY <1>3
  <2>2. Slot(p) \in Slots
    BY <1>3, <2>1, WrapType DEF Slot
  <2> QED
    BY <1>7, <2>2 DEF Inv, TypeOK
<1>10. left \in [1 .. count - n -> BOOLEAN]
  <2> SUFFICES ASSUME NEW i \in 1 .. count - n PROVE clear_bits'[Slot(n + i - 1)] \in BOOLEAN
    OBVIOUS
  <2>1. n + i - 1 \in 0 .. DEPTH - 1
    BY <1>3
  <2> QED
    BY <1>9, <2>1
<1>11. ASSUME NEW i \in 1 .. count - n
       PROVE  /\ i + n \in 1 .. count
              /\ Queue[i + n] = Shown(Slot(n + i - 1))
              /\ Queue[i + n].done => left[i]
              /\ Queue'[i] = stay[i]
              /\ stay[i] \in Both
  <2>1. /\ i + n \in 1 .. count /\ i \in 1 .. count' /\ n + i - 1 \in n .. count + m - 1
        /\ n + i - 1 < count /\ (i + n) - 1 = n + i - 1 /\ (n + i - 1) - n = i - 1
    BY <1>3, <1>5
  <2>2. Queue[i + n] = Shown(Slot(n + i - 1))
    BY <2>1 DEF Queue, Shown
  <2>3. /\ Wrap(head_ptr' + (i - 1)) = Slot(n + i - 1)
        /\ buffer'[Slot(n + i - 1)] = buffer[Slot(n + i - 1)]
        /\ clear_bits[Slot(n + i - 1)] => clear_bits'[Slot(n + i - 1)]
    BY <1>6, <2>1
  <2>4. Queue'[i] = [data |-> buffer'[Slot(n + i - 1)], done |-> clear_bits'[Slot(n + i - 1)]]
    BY <2>1, <2>3, QueueNext
  <2>5. stay[i] = [data |-> buffer[Slot(n + i - 1)], done |-> clear_bits'[Slot(n + i - 1)]]
    BY <2>2 DEF Shown
  <2>6. Queue'[i] \in Both
    BY <1>8, <2>1
  <2> QED
    BY <2>1, <2>2, <2>3, <2>4, <2>5, <2>6 DEF Shown
<1>12. ASSUME NEW i \in 1 .. m
       PROVE  /\ Queue'[(count - n) + i] = group[i]
              /\ group[i] \in Abs!Entry
  <2>1. /\ (count - n) + i \in 1 .. count' /\ count + i - 1 \in n .. count + m - 1
        /\ count + i - 1 >= count /\ (count + i - 1) - n = (count - n) + i - 1
        /\ (count + i - 1) - count + 1 = i /\ count + i - 1 \in 0 .. DEPTH - 1
    BY <1>3, <1>5
  <2>2. /\ Wrap(head_ptr' + ((count - n) + i - 1)) = Slot(count + i - 1)
        /\ buffer'[Slot(count + i - 1)] = in[i]
    BY <1>6, <2>1
  <2>3. Queue'[(count - n) + i] = [data |-> buffer'[Wrap(head_ptr' + ((count - n) + i - 1))],
                                   done |-> clear_bits'[Wrap(head_ptr' + ((count - n) + i - 1))]]
    <3>1. PICK j \in 1 .. count' : j = (count - n) + i
      BY <2>1
    <3>2. j - 1 = (count - n) + i - 1
      BY <1>3, <3>1
    <3>3. Queue'[j] = [data |-> buffer'[Wrap(head_ptr' + (j - 1))], done |-> clear_bits'[Wrap(head_ptr' + (j - 1))]]
      BY QueueNext
    <3> QED
      BY <3>1, <3>2, <3>3, Zenon
  <2>4. group[i] \in Abs!Entry
    BY <1>3, <1>9, <2>1 DEF Abs!Entry
  <2> QED
    BY <2>2, <2>3, <2>4
<1>13. group \in [1 .. m -> Abs!Entry] /\ group \in [1 .. m -> Both]
  <2>1. group \in [1 .. m -> Abs!Entry]
    BY <1>12
  <2> QED
    BY <2>1 DEF Abs!Entry, Both
<1>14. stay \in [1 .. count - n -> Both]
  BY <1>11
<1>15. Queue' = stay \o group
  <2>1. count - n \in Nat /\ count' = (count - n) + m
    BY <1>3, <1>5
  <2>2. /\ \A i \in 1 .. count - n : Queue'[i] = stay[i]
        /\ \A i \in 1 .. m : Queue'[(count - n) + i] = group[i]
    BY <1>11, <1>12
  <2>3. Queue' \in [1 .. (count - n) + m -> Both]
    BY <1>8, <2>1
  <2> HIDE DEF stay, group
  <2>4. PICK a \in Nat, b \in Nat : a = count - n /\ b = m
    BY <1>3, <2>1
  <2>5. PICK f \in [1 .. a -> Both], g \in [1 .. b -> Both], h \in [1 .. a + b -> Both] :
          f = stay /\ g = group /\ h = Queue'
    BY <1>13, <1>14, <2>3, <2>4
  <2>6. \A i \in 1 .. a : h[i] = f[i]
    BY <2>2, <2>4, <2>5
  <2>7. \A i \in 1 .. b : h[a + i] = g[i]
    <3> TAKE i \in 1 .. b
    <3>1. Queue'[(count - n) + i] = group[i]
      BY <2>2, <2>4
    <3> QED
      BY <2>4, <2>5, <3>1, Zenon
  <2>8. h = f \o g
    BY <2>6, <2>7, Join, ZenonT(60)
  <2> QED
    BY <2>5, <2>8
<1>16. /\ \A i \in DOMAIN left : Queue[i + n].done => left[i]
       /\ Queue' = [i \in DOMAIN left |-> [Queue[i + n] EXCEPT !.done = left[i]]] \o group
  BY <1>11, <1>15
<1>17. n <= Len(Queue) /\ Len(Queue) + m <= DEPTH /\ left \in [1 .. Len(Queue) - n -> BOOLEAN]
  BY <1>3, <1>8, <1>10
<1> HIDE DEF left, group
<1> QED
  BY <1>3, <1>4, <1>13, <1>16, <1>17 DEF Abs!Advance

\* The ring is a queue whose entries leave in the order they came, when they and
\* all before them are marked: the reorder buffer, whatever its size and width,
\* neither loses nor reorders an instruction.
THEOREM Refinement == Spec => ImplementsAbs
<1>1. Init => Abs!Init
  BY DEF Init, Abs!Init, Queue
<1>2. ASSUME Inv, [Next]_vars PROVE [Abs!Next]_Queue
  <2>1. CASE Advance
    BY <1>2, <2>1, CycleRefines DEF Abs!Next
  <2>2. CASE Reset
    <3>1. Queue' = << >>
      BY <2>2 DEF Reset, Queue
    <3> QED
      BY <3>1 DEF Abs!Next, Abs!Discard
  <2>3. CASE UNCHANGED vars
    BY <2>3 DEF vars, Queue, Slot
  <2> QED
    BY <1>2, <2>1, <2>2, <2>3 DEF Next
<1> QED
  BY Invariance, <1>1, <1>2, PTL DEF Spec, ImplementsAbs, Abs!Spec
=============================================================================
