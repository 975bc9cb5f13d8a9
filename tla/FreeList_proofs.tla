--------------------------- MODULE FreeList_proofs ---------------------------
(***************************************************************************)
(* The invariants of FreeList, for any number of registers and any widths. *)
(*                                                                         *)
(* TypeOK and PointersAgree cannot be proved by themselves: that a counter *)
(* stays below DEPTH needs the returned registers to be fewer than those   *)
(* missing from the ring, and they are because no register is in the ring  *)
(* twice.  So the inductive invariant is the conjunction of the three, and *)
(* its heart is the pigeonhole argument of RoomForReturns.                 *)
(*                                                                         *)
(* Behind them, that the ring implements the two queues that renaming      *)
(* sees.  Counted from arch_deq_ptr, it holds first the registers taken    *)
(* and then the free ones.  RingAfterCycle says what it holds after a      *)
(* cycle, and the two queues are cut out of that.                          *)
(***************************************************************************)
EXTENDS FreeList, FiniteSetTheorems, SequenceTheorems, TLAPS

Inv == TypeOK /\ PointersAgree /\ NoDuplicate

\* the i-th register of the ring, counted from arch_deq_ptr
RegAt(i) == buffer[Wrap(arch_deq_ptr + i)]

\* The ring has a size, and it is not zero.
LEMMA DepthType == DEPTH \in Nat \ {0}
  BY FS_CardinalityType, PhysRegsAssumption, RenameWidthAssumption DEF DEPTH

\* One conditional subtraction wraps what is less than twice around.
LEMMA WrapType ==
  ASSUME NEW b \in Slots, NEW i \in 0 .. DEPTH
  PROVE  Wrap(b + i) \in Slots
  BY DepthType DEF Wrap, Slots

\* Walking around the ring visits no slot twice.
LEMMA WrapInjective ==
  ASSUME NEW b \in Slots, NEW i \in 0 .. DEPTH - 1, NEW j \in 0 .. DEPTH - 1,
         Wrap(b + i) = Wrap(b + j)
  PROVE  i = j
  BY DepthType DEF Wrap, Slots

\* Two moves of the pointer are one.
LEMMA WrapAdd ==
  ASSUME NEW b \in Slots, NEW i \in Nat, NEW j \in Nat, i + j <= DEPTH
  PROVE  Wrap(Wrap(b + i) + j) = Wrap(b + (i + j))
  BY DepthType DEF Wrap, Slots

\* What the renaming table returns is a list of different registers, none of
\* them in the ring.
LEMMA ReturnsFacts ==
  ASSUME Inv, NEW freed \in Returns
  PROVE  /\ Len(freed) \in 0 .. COMMIT_WIDTH
         /\ freed \in [1 .. Len(freed) -> PhysRegs]
         /\ \A i, j \in 1 .. Len(freed) : freed[i] = freed[j] => i = j
         /\ \A i \in 1 .. Len(freed), k \in 0 .. arch_count - 1 : freed[i] # RegAt(k)
<1>1. PICK n \in 0 .. COMMIT_WIDTH : freed \in [1 .. n -> InUse]
  BY DEF Returns
<1>2. Len(freed) = n
  <2>1. n \in Nat /\ DOMAIN freed = 1 .. n
    BY <1>1, CommitWidthAssumption, DepthType
  <2>2. freed \in Seq(InUse)
    BY <1>1, <2>1
  <2> QED
    BY <2>1, <2>2
<1> QED
  BY <1>1, <1>2 DEF Returns, InUse, RegAt

\* Pigeonhole: the registers in the ring and the returned ones are all
\* different, so there are at most DEPTH of them.
LEMMA RoomForReturns ==
  ASSUME Inv, NEW freed \in Returns
  PROVE  arch_count + Len(freed) <= DEPTH
<1> DEFINE n == Len(freed)
           g == [i \in 1 .. arch_count + n |->
                   IF i <= arch_count THEN RegAt(i - 1) ELSE freed[i - arch_count]]
<1>1. n \in Nat /\ arch_count \in 0 .. DEPTH /\ DEPTH \in Nat /\ arch_deq_ptr \in Slots
  BY ReturnsFacts, DepthType, CommitWidthAssumption DEF Inv, TypeOK
<1>2. \A k \in 0 .. arch_count - 1 : RegAt(k) \in PhysRegs
  <2> TAKE k \in 0 .. arch_count - 1
  <2>1. k \in 0 .. DEPTH
    BY <1>1
  <2> QED
    BY <1>1, <2>1, WrapType DEF Inv, TypeOK, RegAt
<1>3. \A i \in 1 .. n : freed[i] \in PhysRegs
  BY ReturnsFacts
<1>4. g \in [1 .. arch_count + n -> PhysRegs]
  <2> SUFFICES ASSUME NEW i \in 1 .. arch_count + n
               PROVE  (IF i <= arch_count THEN RegAt(i - 1) ELSE freed[i - arch_count]) \in PhysRegs
    OBVIOUS
  <2>1. CASE i <= arch_count
    <3>1. i - 1 \in 0 .. arch_count - 1
      BY <1>1, <2>1
    <3> QED
      BY <1>2, <2>1, <3>1
  <2>2. CASE ~(i <= arch_count)
    <3>1. i - arch_count \in 1 .. n
      BY <1>1, <2>2
    <3> QED
      BY <1>3, <2>2, <3>1
  <2> QED
    BY <2>1, <2>2
<1>5. ASSUME NEW i \in 1 .. arch_count + n, NEW j \in 1 .. arch_count + n, g[i] = g[j]
      PROVE  i = j
  <2>1. CASE i <= arch_count /\ j <= arch_count
    <3>1. i - 1 \in 0 .. arch_count - 1 /\ j - 1 \in 0 .. arch_count - 1
      BY <1>1, <2>1
    <3>2. RegAt(i - 1) = RegAt(j - 1)
      BY <1>5, <2>1
    <3>3. i - 1 = j - 1
      BY <3>1, <3>2 DEF Inv, NoDuplicate, RegAt
    <3> QED
      BY <1>1, <3>3
  <2>2. CASE i > arch_count /\ j > arch_count
    <3>1. i - arch_count \in 1 .. n /\ j - arch_count \in 1 .. n
      BY <1>1, <2>2
    <3>2. freed[i - arch_count] = freed[j - arch_count]
      BY <1>1, <1>5, <2>2
    <3>3. i - arch_count = j - arch_count
      BY <3>1, <3>2, ReturnsFacts
    <3> QED
      BY <1>1, <3>3
  <2>3. CASE i <= arch_count /\ j > arch_count
    <3>1. i - 1 \in 0 .. arch_count - 1 /\ j - arch_count \in 1 .. n
      BY <1>1, <2>3
    <3>2. RegAt(i - 1) = freed[j - arch_count]
      BY <1>1, <1>5, <2>3
    <3> QED
      BY <3>1, <3>2, ReturnsFacts
  <2>4. CASE i > arch_count /\ j <= arch_count
    <3>1. j - 1 \in 0 .. arch_count - 1 /\ i - arch_count \in 1 .. n
      BY <1>1, <2>4
    <3>2. RegAt(j - 1) = freed[i - arch_count]
      BY <1>1, <1>5, <2>4
    <3> QED
      BY <3>1, <3>2, ReturnsFacts
  <2> QED
    BY <1>1, <2>1, <2>2, <2>3, <2>4
<1>6. g \in Injection(1 .. arch_count + n, PhysRegs)
  BY <1>4, <1>5 DEF Injection, IsInjective
<1>7. Cardinality(1 .. arch_count + n) <= Cardinality(PhysRegs)
  BY <1>6, FS_Injection, PhysRegsAssumption
<1>8. Cardinality(1 .. arch_count + n) = arch_count + n
  BY <1>1, FS_Interval
<1> QED
  BY <1>7, <1>8 DEF DEPTH

-----------------------------------------------------------------------------
\* A returned register always finds its slot (o_can_enq, freelist.sv 62).
LEMMA AllEnqueued ==
  ASSUME Inv, NEW freed \in Returns
  PROVE  Enqueued(freed) = freed
<1>1. arch_count + Len(freed) <= DEPTH /\ count <= arch_count
  BY RoomForReturns DEF Inv, PointersAgree
<1>2. count \in Nat /\ arch_count \in Nat /\ DEPTH \in Nat /\ Len(freed) \in Nat
  BY ReturnsFacts, DepthType, CommitWidthAssumption DEF Inv, TypeOK
<1> QED
  BY <1>1, <1>2 DEF Enqueued, CanEnq

\* What the renaming stage takes is on offer.
LEMMA DequeuedFacts ==
  ASSUME Inv, NEW alloc \in 0 .. RENAME_WIDTH
  PROVE  Dequeued(alloc) \in 0 .. count
  BY DepthType, RenameWidthAssumption DEF Inv, TypeOK, Dequeued, CanAlloc

\* A clock edge with the inputs that the environment may give.
Input(alloc, freed, committed, resteer) ==
  /\ alloc \in 0 .. RENAME_WIDTH
  /\ freed \in Returns
  /\ committed \in 0 .. COMMIT_WIDTH
  /\ committed <= arch_count - count
  /\ resteer \in BOOLEAN
  /\ resteer => committed = 0
  /\ Cycle(alloc, freed, committed, resteer)

\* Every step is one of those.
LEMMA NextIsCycle ==
  ASSUME Inv, Next
  PROVE  \E alloc, freed, committed, resteer : Input(alloc, freed, committed, resteer)
<1>1. 0 \in 0 .. COMMIT_WIDTH /\ 0 <= arch_count - count
  BY DepthType, CommitWidthAssumption DEF Inv, TypeOK, PointersAgree
<1> QED
  BY <1>1 DEF Next, Advance, Resteer, Input

\* The numbers of a clock edge, in one place.
LEMMA CycleFacts ==
  ASSUME Inv, NEW alloc, NEW freed, NEW committed, NEW resteer,
         Input(alloc, freed, committed, resteer)
  PROVE  LET n == Len(freed)
             deq == Dequeued(alloc)
         IN /\ n \in Nat /\ arch_count + n <= DEPTH
            /\ committed \in Nat /\ committed <= arch_count - count
            /\ deq \in 0 .. count
            /\ buffer' = Written(freed)
            /\ enq_ptr' = Wrap(enq_ptr + n)
            /\ arch_deq_ptr' = Wrap(arch_deq_ptr + committed)
            /\ arch_count' = arch_count - committed + n
            /\ deq_ptr' = IF resteer THEN arch_deq_ptr ELSE Wrap(deq_ptr + deq)
            /\ count' = IF resteer THEN arch_count + n ELSE count + n - deq
            /\ resteer => committed = 0
<1>1. alloc \in 0 .. RENAME_WIDTH /\ freed \in Returns /\ committed \in 0 .. COMMIT_WIDTH
  BY DEF Input
<1>2. Enqueued(freed) = freed
  BY <1>1, AllEnqueued
<1>3. Len(freed) \in Nat /\ arch_count + Len(freed) <= DEPTH
  BY <1>1, ReturnsFacts, RoomForReturns, CommitWidthAssumption, DepthType
<1>4. Dequeued(alloc) \in 0 .. count
  BY <1>1, DequeuedFacts
<1>5. committed \in Nat /\ committed <= arch_count - count /\ (resteer => committed = 0)
  BY <1>1, CommitWidthAssumption, DepthType DEF Input
<1>6. Cycle(alloc, freed, committed, resteer)
  BY DEF Input
<1> QED
  BY <1>2, <1>3, <1>4, <1>5, <1>6 DEF Cycle, NextCount, NextArchCount

\* What stands in the ring after a clock edge: the registers that were there,
\* less those committed, then those returned.
LEMMA RingAfterCycle ==
  ASSUME Inv, NEW alloc, NEW freed, NEW committed, NEW resteer,
         Input(alloc, freed, committed, resteer), NEW i \in 0 .. arch_count' - 1
  PROVE  RegAt(i)' = IF i < arch_count - committed
                     THEN RegAt(i + committed)
                     ELSE freed[i - (arch_count - committed) + 1]
<1> DEFINE n == Len(freed)
           slot == Wrap(arch_deq_ptr + (i + committed))
           at == {k \in 1 .. n : slot = Wrap(enq_ptr + k - 1)}
<1>1. /\ n \in Nat /\ arch_count + n <= DEPTH
      /\ committed \in Nat /\ committed <= arch_count - count
      /\ buffer' = Written(freed)
      /\ arch_deq_ptr' = Wrap(arch_deq_ptr + committed)
      /\ arch_count' = arch_count - committed + n
  BY CycleFacts
<1>2. /\ arch_count \in 0 .. DEPTH /\ count \in 0 .. DEPTH /\ DEPTH \in Nat \ {0}
      /\ arch_deq_ptr \in Slots /\ enq_ptr = Wrap(arch_deq_ptr + arch_count)
  BY DepthType DEF Inv, TypeOK, PointersAgree
<1>3. i \in Nat /\ i + committed < arch_count + n /\ i + committed < DEPTH
  BY <1>1, <1>2
<1>4. Wrap(Wrap(arch_deq_ptr + committed) + i) = slot
  <2>1. committed + i <= DEPTH
    BY <1>1, <1>2, <1>3
  <2>2. committed + i = i + committed
    BY <1>1, <1>3
  <2> QED
    BY <1>1, <1>2, <1>3, <2>1, <2>2, WrapAdd
<1>5. slot \in Slots
  BY <1>1, <1>2, <1>3, WrapType
<1>6. ASSUME NEW k \in 1 .. n
      PROVE  slot = Wrap(enq_ptr + k - 1) <=> i + committed = arch_count + (k - 1)
  <2>1. k - 1 \in Nat /\ arch_count + (k - 1) <= DEPTH - 1
    BY <1>1, <1>2
  <2>2. Wrap(Wrap(arch_deq_ptr + arch_count) + (k - 1)) = Wrap(arch_deq_ptr + (arch_count + (k - 1)))
    BY <1>2, <2>1, WrapAdd
  <2>3. enq_ptr + (k - 1) = enq_ptr + k - 1
    BY <1>2 DEF Inv, TypeOK, Slots
  <2>4. i + committed \in 0 .. DEPTH - 1 /\ arch_count + (k - 1) \in 0 .. DEPTH - 1
    BY <1>1, <1>2, <1>3, <2>1
  <2>5. slot = Wrap(arch_deq_ptr + (arch_count + (k - 1))) <=> i + committed = arch_count + (k - 1)
    BY <1>2, <2>4, WrapInjective
  <2> QED
    BY <1>2, <2>2, <2>3, <2>5
<1>7. RegAt(i)' = Written(freed)[slot]
  BY <1>1, <1>4 DEF RegAt
<1>8. Written(freed)[slot] = IF at = {} THEN buffer[slot] ELSE freed[CHOOSE k \in at : TRUE]
  BY <1>5 DEF Written
<1>9. CASE i < arch_count - committed
  <2>1. at = {}
    BY <1>1, <1>2, <1>3, <1>6, <1>9
  <2> QED
    BY <1>7, <1>8, <1>9, <2>1 DEF RegAt
<1>10. CASE ~(i < arch_count - committed)
  <2> DEFINE k == i - (arch_count - committed) + 1
  <2>1. k \in 1 .. n /\ i + committed = arch_count + (k - 1)
    BY <1>1, <1>2, <1>3, <1>10
  <2>2. at = {k}
    <3>1. k \in at
      BY <1>6, <2>1
    <3>2. ASSUME NEW l \in at PROVE l = k
      BY <1>1, <1>2, <1>3, <1>6, <2>1
    <3> QED
      BY <3>1, <3>2
  <2> QED
    BY <1>7, <1>8, <1>10, <2>2
<1> QED
  BY <1>9, <1>10

\* One clock edge keeps every pointer in the ring and every counter in range.
LEMMA CycleTypeOK ==
  ASSUME Inv, NEW alloc, NEW freed, NEW committed, NEW resteer,
         Input(alloc, freed, committed, resteer)
  PROVE  TypeOK'
<1>1. freed \in [1 .. Len(freed) -> PhysRegs] /\ Len(freed) \in Nat
  BY ReturnsFacts, CommitWidthAssumption, DepthType DEF Input
<1>2. buffer' \in [Slots -> PhysRegs]
  <2>1. buffer \in [Slots -> PhysRegs]
    BY DEF Inv, TypeOK
  <2>2. Written(freed) \in [Slots -> PhysRegs]
    <3> SUFFICES ASSUME NEW s \in Slots
                 PROVE  Written(freed)[s] \in PhysRegs
      BY DEF Written
    <3> DEFINE at == {i \in 1 .. Len(freed) : s = Wrap(enq_ptr + i - 1)}
    <3>1. Written(freed)[s] = IF at = {} THEN buffer[s] ELSE freed[CHOOSE i \in at : TRUE]
      BY DEF Written
    <3>2. at # {} => (CHOOSE i \in at : TRUE) \in 1 .. Len(freed)
      OBVIOUS
    <3> QED
      BY <1>1, <2>1, <3>1, <3>2
  <2> QED
    BY <2>2, CycleFacts
<1>3. enq_ptr' \in Slots /\ arch_deq_ptr' \in Slots /\ deq_ptr' \in Slots
  <2>1. /\ enq_ptr \in Slots /\ arch_deq_ptr \in Slots /\ deq_ptr \in Slots
        /\ count \in 0 .. DEPTH /\ arch_count \in 0 .. DEPTH
    BY DEF Inv, TypeOK
  <2>2. Len(freed) \in 0 .. DEPTH /\ committed \in 0 .. DEPTH /\ Dequeued(alloc) \in 0 .. DEPTH
    BY <2>1, CycleFacts, DepthType
  <2>3. /\ Wrap(enq_ptr + Len(freed)) \in Slots /\ Wrap(arch_deq_ptr + committed) \in Slots
        /\ Wrap(deq_ptr + Dequeued(alloc)) \in Slots
    BY <2>1, <2>2, WrapType
  <2> QED
    BY <2>1, <2>3, CycleFacts
<1>4. count' \in 0 .. DEPTH /\ arch_count' \in 0 .. DEPTH
  BY CycleFacts, DepthType DEF Inv, TypeOK, PointersAgree
<1> QED
  BY <1>2, <1>3, <1>4 DEF TypeOK

\* The five registers keep describing the same cut of the ring.
LEMMA CyclePointersAgree ==
  ASSUME Inv, NEW alloc, NEW freed, NEW committed, NEW resteer,
         Input(alloc, freed, committed, resteer)
  PROVE  PointersAgree'
<1> DEFINE n == Len(freed)
           deq == Dequeued(alloc)
<1>1. /\ n \in Nat /\ arch_count + n <= DEPTH
      /\ committed \in Nat /\ committed <= arch_count - count
      /\ deq \in 0 .. count
      /\ enq_ptr' = Wrap(enq_ptr + n)
      /\ arch_deq_ptr' = Wrap(arch_deq_ptr + committed)
      /\ arch_count' = arch_count - committed + n
      /\ deq_ptr' = IF resteer THEN arch_deq_ptr ELSE Wrap(deq_ptr + deq)
      /\ count' = IF resteer THEN arch_count + n ELSE count + n - deq
      /\ resteer => committed = 0
  BY CycleFacts
<1>2. /\ count \in Nat /\ arch_count \in Nat /\ count <= arch_count /\ DEPTH \in Nat
      /\ deq_ptr \in Slots /\ arch_deq_ptr \in Slots
      /\ enq_ptr = Wrap(deq_ptr + count) /\ enq_ptr = Wrap(arch_deq_ptr + arch_count)
  BY DepthType DEF Inv, TypeOK, PointersAgree
<1>3. count' <= arch_count'
  BY <1>1, <1>2
<1>4. enq_ptr' = Wrap(arch_deq_ptr' + arch_count')
  <2>1. enq_ptr' = Wrap(arch_deq_ptr + (arch_count + n))
    BY <1>1, <1>2, WrapAdd
  <2>2. Wrap(Wrap(arch_deq_ptr + committed) + (arch_count - committed + n))
          = Wrap(arch_deq_ptr + (committed + (arch_count - committed + n)))
    BY <1>1, <1>2, WrapAdd
  <2>3. committed + (arch_count - committed + n) = arch_count + n
    BY <1>1, <1>2
  <2> QED
    BY <1>1, <2>1, <2>2, <2>3
<1>5. enq_ptr' = Wrap(deq_ptr' + count')
  <2>1. CASE resteer
    BY <1>1, <1>2, <2>1, WrapAdd
  <2>2. CASE ~resteer
    <3>1. enq_ptr' = Wrap(deq_ptr + (count + n))
      BY <1>1, <1>2, WrapAdd
    <3>2. Wrap(Wrap(deq_ptr + deq) + (count + n - deq)) = Wrap(deq_ptr + (deq + (count + n - deq)))
      BY <1>1, <1>2, WrapAdd
    <3>3. deq + (count + n - deq) = count + n
      BY <1>1, <1>2
    <3> QED
      BY <1>1, <2>2, <3>1, <3>2, <3>3
  <2> QED
    BY <2>1, <2>2
<1> QED
  BY <1>3, <1>4, <1>5 DEF PointersAgree

\* No register enters the ring a second time.
LEMMA CycleNoDuplicate ==
  ASSUME Inv, NEW alloc, NEW freed, NEW committed, NEW resteer,
         Input(alloc, freed, committed, resteer)
  PROVE  NoDuplicate'
<1> DEFINE left == arch_count - committed
           n == Len(freed)
<1>1. /\ n \in Nat /\ committed \in Nat /\ committed <= arch_count
      /\ arch_count \in Nat /\ arch_count' = left + n
  BY CycleFacts, DepthType DEF Inv, TypeOK
<1>2. SUFFICES ASSUME NEW i \in 0 .. left + n - 1, NEW j \in 0 .. left + n - 1,
                      RegAt(i)' = RegAt(j)'
               PROVE  i = j
  BY <1>1 DEF NoDuplicate, RegAt
<1>3. /\ RegAt(i)' = IF i < left THEN RegAt(i + committed) ELSE freed[i - left + 1]
      /\ RegAt(j)' = IF j < left THEN RegAt(j + committed) ELSE freed[j - left + 1]
  <2>1. i \in 0 .. arch_count' - 1 /\ j \in 0 .. arch_count' - 1
    BY <1>1
  <2>2. RegAt(i)' = IF i < left THEN RegAt(i + committed) ELSE freed[i - left + 1]
    BY <2>1, RingAfterCycle
  <2>3. RegAt(j)' = IF j < left THEN RegAt(j + committed) ELSE freed[j - left + 1]
    BY <2>1, RingAfterCycle
  <2> QED
    BY <2>2, <2>3
<1>4. /\ i < left => i + committed \in 0 .. arch_count - 1
      /\ j < left => j + committed \in 0 .. arch_count - 1
      /\ i >= left => i - left + 1 \in 1 .. n
      /\ j >= left => j - left + 1 \in 1 .. n
  BY <1>1
<1>5. /\ \A k, l \in 1 .. n : freed[k] = freed[l] => k = l
      /\ \A k \in 1 .. n, l \in 0 .. arch_count - 1 : freed[k] # RegAt(l)
  BY ReturnsFacts DEF Input
<1>6. /\ i < left => RegAt(i)' = RegAt(i + committed)
      /\ ~(i < left) => RegAt(i)' = freed[i - left + 1]
      /\ j < left => RegAt(j)' = RegAt(j + committed)
      /\ ~(j < left) => RegAt(j)' = freed[j - left + 1]
  BY <1>3, Zenon
<1>7. CASE i < left /\ j < left
  <2>1. RegAt(i + committed) = RegAt(j + committed)
    BY <1>2, <1>6, <1>7, Zenon
  <2>2. i + committed = j + committed
    BY <1>4, <1>7, <2>1 DEF Inv, NoDuplicate, RegAt
  <2> QED
    BY <1>1, <2>2
<1>8. CASE ~(i < left) /\ ~(j < left)
  <2>1. freed[i - left + 1] = freed[j - left + 1]
    BY <1>2, <1>6, <1>8, Zenon
  <2>2. i - left + 1 = j - left + 1
    BY <1>1, <1>4, <1>5, <1>8, <2>1
  <2> QED
    BY <1>1, <2>2
<1>9. CASE i < left /\ ~(j < left)
  <2>1. freed[j - left + 1] = RegAt(i + committed)
    BY <1>2, <1>6, <1>9, Zenon
  <2> QED
    BY <1>1, <1>4, <1>5, <1>9, <2>1
<1>10. CASE ~(i < left) /\ j < left
  <2>1. freed[i - left + 1] = RegAt(j + committed)
    BY <1>2, <1>6, <1>10, Zenon
  <2> QED
    BY <1>1, <1>4, <1>5, <1>10, <2>1
<1> QED
  BY <1>7, <1>8, <1>9, <1>10

\* Reset fills the ring.
LEMMA RingInit ==
  ASSUME Init
  PROVE  Inv
<1>1. TypeOK
  BY DepthType DEF Init, TypeOK, Slots
<1>2. PointersAgree
  BY DepthType DEF Init, PointersAgree, Wrap
<1>3. NoDuplicate
  BY DepthType DEF Init, NoDuplicate, Slots, Wrap
<1> QED
  BY <1>1, <1>2, <1>3 DEF Inv

-----------------------------------------------------------------------------
\* The free list of fifo.sv and freelist.sv keeps its three invariants for any
\* number of registers: its pointers and counters stay in range.
THEOREM Invariance == Spec => []Inv
<1>1. Init => Inv
  BY RingInit
<1>2. Inv /\ [Next]_vars => Inv'
  <2> SUFFICES ASSUME Inv, [Next]_vars PROVE Inv'
    OBVIOUS
  <2>1. CASE Next
    <3>1. PICK alloc, freed, committed, resteer : Input(alloc, freed, committed, resteer)
      BY <2>1, NextIsCycle
    <3> QED
      BY <3>1, CycleTypeOK, CyclePointersAgree, CycleNoDuplicate DEF Inv
  <2>2. CASE UNCHANGED vars
    BY <2>2 DEF vars, Inv, TypeOK, PointersAgree, NoDuplicate, Slots, Wrap
  <2> QED
    BY <2>1, <2>2
<1> QED
  BY <1>1, <1>2, PTL DEF Spec

\* Every pointer of the free list stays inside the ring and every counter
\* between 0 and its size (fifo.sv 63-65, and the assertion at 166).
THEOREM TypeInvariance == Spec => []TypeOK
<1>1. Inv => TypeOK
  BY DEF Inv
<1> QED
  BY <1>1, Invariance, PTL

\* The separately kept pointers and counters always agree (fifo.sv 79-141).
THEOREM PointerInvariance == Spec => []PointersAgree
<1>1. Inv => PointersAgree
  BY DEF Inv
<1> QED
  BY <1>1, Invariance, PTL

\* No register is ever free twice, nor free and handed out: rename.sv never
\* gives one register to two instructions in flight.
THEOREM NoDuplicateInvariance == Spec => []NoDuplicate
<1>1. Inv => NoDuplicate
  BY DEF Inv
<1> QED
  BY <1>1, Invariance, PTL

-----------------------------------------------------------------------------
(* The refinement of FreeListAbs. *)

\* Two sequences joined are known by their elements.
LEMMA Join ==
  ASSUME NEW a \in Nat, NEW b \in Nat,
         NEW f \in [1 .. a -> PhysRegs], NEW g \in [1 .. b -> PhysRegs],
         NEW h \in [1 .. a + b -> PhysRegs],
         \A i \in 1 .. a : h[i] = f[i],
         \A i \in 1 .. b : h[a + i] = g[i]
  PROVE  h = f \o g
<1>1. f \in Seq(PhysRegs) /\ g \in Seq(PhysRegs) /\ h \in Seq(PhysRegs)
  OBVIOUS
<1>2. Len(f) = a /\ Len(g) = b /\ Len(h) = a + b
  OBVIOUS
<1>3. /\ f \o g \in Seq(PhysRegs)
      /\ Len(f \o g) = a + b
      /\ \A i \in 1 .. a + b : (f \o g)[i] = IF i <= a THEN f[i] ELSE g[i - a]
  BY <1>1, <1>2, ConcatProperties
<1>4. ASSUME NEW i \in 1 .. a + b PROVE h[i] = (f \o g)[i]
  <2>1. CASE i <= a
    BY <1>3, <2>1
  <2>2. CASE i > a
    <3>1. i - a \in 1 .. b /\ a + (i - a) = i
      BY <2>2
    <3> QED
      BY <1>3, <2>2, <3>1
  <2> QED
    BY <2>1, <2>2
<1> QED
  BY <1>1, <1>2, <1>3, <1>4, SeqEqual

\* What is left of a sequence without its first m elements ...
LEMMA Suffix ==
  ASSUME NEW m \in Nat, NEW n \in Nat, NEW f \in [1 .. m + n -> PhysRegs]
  PROVE  /\ SubSeq(f, m + 1, m + n) \in [1 .. n -> PhysRegs]
         /\ \A i \in 1 .. n : SubSeq(f, m + 1, m + n)[i] = f[m + i]
<1> DEFINE p == SubSeq(f, m + 1, m + n)
<1>1. m + 1 \in Int /\ m + n \in Int /\ \A i \in m + 1 .. m + n : f[i] \in PhysRegs
  OBVIOUS
<1>2. /\ p \in Seq(PhysRegs)
      /\ Len(p) = IF m + 1 <= m + n THEN (m + n) - (m + 1) + 1 ELSE 0
      /\ \A i \in 1 .. (m + n) - (m + 1) + 1 : p[i] = f[(m + 1) + i - 1]
  BY <1>1, SubSeqProperties
<1> HIDE DEF p
<1>3. (m + n) - (m + 1) + 1 = n /\ Len(p) = n
  BY <1>2
<1>4. \A i \in 1 .. n : p[i] = f[m + i]
  <2> TAKE i \in 1 .. n
  <2>1. (m + 1) + i - 1 = m + i
    OBVIOUS
  <2> QED
    BY <1>2, <1>3, <2>1
<1>5. p \in [1 .. n -> PhysRegs]
  BY <1>2, <1>3
<1> QED
  BY <1>4, <1>5 DEF p

\* ... and the first m elements.
LEMMA Prefix ==
  ASSUME NEW m \in Nat, NEW n \in Nat, NEW f \in [1 .. m + n -> PhysRegs]
  PROVE  /\ SubSeq(f, 1, m) \in [1 .. m -> PhysRegs]
         /\ \A i \in 1 .. m : SubSeq(f, 1, m)[i] = f[i]
<1> DEFINE p == SubSeq(f, 1, m)
<1>1. 1 \in Int /\ m \in Int /\ \A i \in 1 .. m : f[i] \in PhysRegs
  OBVIOUS
<1>2. /\ p \in Seq(PhysRegs)
      /\ Len(p) = IF 1 <= m THEN m - 1 + 1 ELSE 0
      /\ \A i \in 1 .. m - 1 + 1 : p[i] = f[1 + i - 1]
  BY <1>1, SubSeqProperties
<1> HIDE DEF p
<1>3. m - 1 + 1 = m /\ Len(p) = m
  BY <1>2
<1>4. \A i \in 1 .. m : p[i] = f[i]
  <2> TAKE i \in 1 .. m
  <2>1. 1 + i - 1 = i
    OBVIOUS
  <2> QED
    BY <1>2, <1>3, <2>1
<1>5. p \in [1 .. m -> PhysRegs]
  BY <1>2, <1>3
<1> QED
  BY <1>4, <1>5 DEF p

\* The two queues of the ring: the registers taken stand before the free ones.
LEMMA Queues ==
  ASSUME Inv
  PROVE  /\ Taken \in [1 .. arch_count - count -> PhysRegs]
         /\ Free \in [1 .. count -> PhysRegs]
         /\ \A i \in 1 .. arch_count - count : Taken[i] = RegAt(i - 1)
         /\ \A i \in 1 .. count : Free[i] = RegAt((arch_count - count) + (i - 1))
<1>1. /\ count \in Nat /\ arch_count \in Nat /\ count <= arch_count /\ arch_count <= DEPTH
      /\ DEPTH \in Nat \ {0} /\ deq_ptr \in Slots /\ arch_deq_ptr \in Slots
      /\ buffer \in [Slots -> PhysRegs]
      /\ Wrap(deq_ptr + count) = Wrap(arch_deq_ptr + arch_count)
  BY DepthType DEF Inv, TypeOK, PointersAgree
<1>2. ASSUME NEW i \in Nat, i < count
      PROVE  Wrap(deq_ptr + i) = Wrap(arch_deq_ptr + ((arch_count - count) + i))
  BY <1>1, <1>2 DEF Wrap, Slots
<1>3. ASSUME NEW i \in 0 .. arch_count - 1 PROVE RegAt(i) \in PhysRegs
  <2>1. i \in 0 .. DEPTH
    BY <1>1
  <2> QED
    BY <1>1, <2>1, WrapType DEF RegAt
<1>4. ASSUME NEW i \in 1 .. arch_count - count
      PROVE  /\ buffer[Wrap(arch_deq_ptr + i - 1)] = RegAt(i - 1)
             /\ i - 1 \in 0 .. arch_count - 1
  <2>1. arch_deq_ptr + i - 1 = arch_deq_ptr + (i - 1) /\ i - 1 \in 0 .. arch_count - 1
    BY <1>1 DEF Slots
  <2> QED
    BY <2>1 DEF RegAt
<1>5. ASSUME NEW i \in 1 .. count
      PROVE  /\ buffer[Wrap(deq_ptr + i - 1)] = RegAt((arch_count - count) + (i - 1))
             /\ (arch_count - count) + (i - 1) \in 0 .. arch_count - 1
  <2>1. /\ deq_ptr + i - 1 = deq_ptr + (i - 1) /\ i - 1 \in Nat /\ i - 1 < count
        /\ (arch_count - count) + (i - 1) \in 0 .. arch_count - 1
    BY <1>1 DEF Slots
  <2>2. Wrap(deq_ptr + (i - 1)) = Wrap(arch_deq_ptr + ((arch_count - count) + (i - 1)))
    BY <1>2, <2>1
  <2> QED
    BY <2>1, <2>2 DEF RegAt
<1>6. /\ \A i \in 1 .. arch_count - count : Taken[i] = RegAt(i - 1) /\ Taken[i] \in PhysRegs
      /\ \A i \in 1 .. count : Free[i] = RegAt((arch_count - count) + (i - 1)) /\ Free[i] \in PhysRegs
  BY <1>3, <1>4, <1>5 DEF Taken, Free
<1>7. /\ Taken \in [1 .. arch_count - count -> PhysRegs]
      /\ Free \in [1 .. count -> PhysRegs]
  <2>1. Taken = [i \in 1 .. arch_count - count |-> Taken[i]] /\ Free = [i \in 1 .. count |-> Free[i]]
    BY DEF Taken, Free
  <2> QED
    BY <1>6, <2>1
<1> QED
  BY <1>6, <1>7

\* What comes back is in neither queue.
LEMMA ReturnedOutside ==
  ASSUME Inv, NEW freed \in Returns
  PROVE  freed \in Abs!Returned
<1>1. PICK n \in 0 .. COMMIT_WIDTH : freed \in [1 .. n -> InUse]
  BY DEF Returns
<1>2. count \in Nat /\ arch_count \in Nat /\ count <= arch_count
  BY DepthType DEF Inv, TypeOK, PointersAgree
<1>3. InUse \subseteq Abs!Held
  <2> SUFFICES ASSUME NEW r \in InUse PROVE r \in Abs!Held
    OBVIOUS
  <2>1. r \in PhysRegs /\ \A i \in 0 .. arch_count - 1 : RegAt(i) # r
    BY DEF InUse, RegAt
  <2>2. r \notin Abs!SeqRange(Taken)
    <3>1. ASSUME NEW i \in DOMAIN Taken PROVE Taken[i] # r
      <4>1. i \in 1 .. arch_count - count /\ i - 1 \in 0 .. arch_count - 1
        BY <1>2, Queues
      <4> QED
        BY <2>1, <4>1, Queues
    <3> QED
      BY <3>1 DEF Abs!SeqRange
  <2>3. r \notin Abs!SeqRange(Free)
    <3>1. ASSUME NEW i \in DOMAIN Free PROVE Free[i] # r
      <4>1. i \in 1 .. count /\ (arch_count - count) + (i - 1) \in 0 .. arch_count - 1
        BY <1>2, Queues
      <4> QED
        BY <2>1, <4>1, Queues
    <3> QED
      BY <3>1 DEF Abs!SeqRange
  <2> QED
    BY <2>1, <2>2, <2>3 DEF Abs!Held
<1>4. freed \in [1 .. n -> Abs!Held]
  BY <1>1, <1>3
<1>5. \A i, j \in DOMAIN freed : freed[i] = freed[j] => i = j
  BY DEF Returns
<1> QED
  BY <1>4, <1>5 DEF Abs!Returned

\* The queues after a step.
LEMMA QueuesNext ==
  ASSUME Inv'
  PROVE  (/\ Taken \in [1 .. arch_count - count -> PhysRegs]
          /\ Free \in [1 .. count -> PhysRegs]
          /\ \A i \in 1 .. arch_count - count : Taken[i] = RegAt(i - 1)
          /\ \A i \in 1 .. count : Free[i] = RegAt((arch_count - count) + (i - 1)))'
  BY Queues, PTL

\* A cycle without a squash hands out from the front of the free queue and lets
\* go of the front of the other.
LEMMA AdvanceRefines ==
  ASSUME Inv, NEW alloc, NEW freed, NEW committed, NEW resteer,
         Input(alloc, freed, committed, resteer), ~resteer, Inv'
  PROVE  Abs!Advance
<1>1. /\ count \in Nat /\ arch_count \in Nat /\ count <= arch_count
      /\ Dequeued(alloc) \in Nat /\ Dequeued(alloc) <= count
      /\ committed \in Nat /\ committed <= arch_count - count
      /\ Len(freed) \in Nat
      /\ arch_count' = arch_count - committed + Len(freed)
      /\ count' = count + Len(freed) - Dequeued(alloc)
  <2>1. count \in Nat /\ arch_count \in Nat /\ count <= arch_count
    BY DepthType DEF Inv, TypeOK, PointersAgree
  <2> QED
    BY <2>1, CycleFacts
\* d go out and e stay free, k are committed and r stay taken, n come back
<1>2. PICK d \in Nat : d = Dequeued(alloc)
  BY <1>1
<1>3. PICK k \in Nat : k = committed
  BY <1>1
<1>4. PICK n \in Nat : n = Len(freed)
  BY <1>1
<1>5. PICK e \in Nat : e = count - d
  BY <1>1, <1>2
<1>6. PICK r \in Nat : r = arch_count - count - k
  BY <1>1, <1>3
<1>7. /\ count = d + e /\ arch_count - count = k + r
      /\ count' = e + n /\ arch_count' - count' = r + d
      /\ arch_count - committed = (r + d) + e
      /\ arch_count' = ((r + d) + e) + n
  <2>1. count = d + e
    BY <1>1, <1>2, <1>5
  <2>2. arch_count - count = k + r
    BY <1>1, <1>3, <1>6
  <2>3. arch_count = (k + r) + (d + e)
    BY <1>1, <2>1, <2>2
  <2>4. count' = (d + e) + n - d
    BY <1>1, <1>2, <1>4, <2>1
  <2>5. arch_count' = (k + r) + (d + e) - k + n
    BY <1>1, <1>3, <1>4, <2>3
  <2>6. (d + e) + n - d = e + n /\ (k + r) + (d + e) - k + n = ((r + d) + e) + n
    OBVIOUS
  <2>7. count' = e + n /\ arch_count' = ((r + d) + e) + n
    BY <2>4, <2>5, <2>6, Zenon
  <2>8. arch_count' - count' = r + d
    BY <2>7
  <2>9. arch_count - committed = (r + d) + e
    BY <1>3, <2>3
  <2> QED
    BY <2>1, <2>2, <2>7, <2>8, <2>9
<1>8. /\ alloc \in 0 .. RENAME_WIDTH /\ freed \in Returns
      /\ d \in 0 .. RENAME_WIDTH /\ k \in 0 .. COMMIT_WIDTH
  <2>1. alloc \in 0 .. RENAME_WIDTH /\ freed \in Returns /\ committed \in 0 .. COMMIT_WIDTH
    BY DEF Input
  <2>2. RENAME_WIDTH \in Nat
    BY RenameWidthAssumption, DepthType
  <2>3. Dequeued(alloc) \in 0 .. RENAME_WIDTH
    BY <2>1, <2>2 DEF Dequeued
  <2> QED
    BY <1>2, <1>3, <2>1, <2>3
<1>9. freed \in [1 .. n -> PhysRegs]
  BY <1>4, <1>8, ReturnsFacts
<1>10. PICK t \in [1 .. k + r -> PhysRegs], f \in [1 .. d + e -> PhysRegs] : t = Taken /\ f = Free
  BY <1>7, Queues
<1>11. PICK tt \in [1 .. r + d -> PhysRegs], ff \in [1 .. e + n -> PhysRegs] : tt = Taken' /\ ff = Free'
  BY <1>7, QueuesNext
<1>12. \A i \in 0 .. ((r + d) + e) + n - 1 :
         RegAt(i)' = IF i < (r + d) + e THEN RegAt(i + k) ELSE freed[i - ((r + d) + e) + 1]
  BY <1>3, <1>7, RingAfterCycle
<1>13. /\ \A i \in 1 .. k + r : t[i] = RegAt(i - 1)
       /\ \A i \in 1 .. d + e : f[i] = RegAt((k + r) + (i - 1))
  BY <1>7, <1>10, Queues
<1>14. /\ \A i \in 1 .. r + d : tt[i] = RegAt(i - 1)'
       /\ \A i \in 1 .. e + n : ff[i] = RegAt((r + d) + (i - 1))'
  <2>1. \A i \in 1 .. e + n : Free'[i] = buffer'[Wrap(arch_deq_ptr' + ((arch_count' - count') + (i - 1)))]
    BY <1>7, QueuesNext DEF RegAt
  <2>2. \A i \in 1 .. e + n : Free'[i] = RegAt((r + d) + (i - 1))'
    BY <1>7, <2>1 DEF RegAt
  <2>3. \A i \in 1 .. r + d : Taken'[i] = RegAt(i - 1)'
    BY <1>7, QueuesNext
  <2> QED
    BY <1>11, <2>2, <2>3
<1>15. /\ SubSeq(t, k + 1, k + r) \in [1 .. r -> PhysRegs]
       /\ \A i \in 1 .. r : SubSeq(t, k + 1, k + r)[i] = t[k + i]
       /\ SubSeq(f, 1, d) \in [1 .. d -> PhysRegs]
       /\ \A i \in 1 .. d : SubSeq(f, 1, d)[i] = f[i]
       /\ SubSeq(f, d + 1, d + e) \in [1 .. e -> PhysRegs]
       /\ \A i \in 1 .. e : SubSeq(f, d + 1, d + e)[i] = f[d + i]
  BY Suffix, Prefix
<1>16. tt = SubSeq(t, k + 1, k + r) \o SubSeq(f, 1, d)
  <2>1. ASSUME NEW i \in 1 .. r PROVE tt[i] = SubSeq(t, k + 1, k + r)[i]
    <3>1. /\ i - 1 \in 0 .. ((r + d) + e) + n - 1 /\ i - 1 < (r + d) + e /\ (i - 1) + k = (k + i) - 1
          /\ k + i \in 1 .. k + r /\ i \in 1 .. r + d
      OBVIOUS
    <3> QED
      BY <1>12, <1>13, <1>14, <1>15, <3>1
  <2>2. ASSUME NEW i \in 1 .. d PROVE tt[r + i] = SubSeq(f, 1, d)[i]
    <3>1. /\ (r + i) - 1 \in 0 .. ((r + d) + e) + n - 1 /\ (r + i) - 1 < (r + d) + e
          /\ ((r + i) - 1) + k = (k + r) + (i - 1)
          /\ i \in 1 .. d + e /\ r + i \in 1 .. r + d
      OBVIOUS
    <3> QED
      BY <1>12, <1>13, <1>14, <1>15, <3>1
  <2> QED
    BY <1>15, <2>1, <2>2, Join
<1>17. ff = SubSeq(f, d + 1, d + e) \o freed
  <2>1. ASSUME NEW i \in 1 .. e PROVE ff[i] = SubSeq(f, d + 1, d + e)[i]
    <3>1. PICK j \in 0 .. ((r + d) + e) + n - 1 : j = (r + d) + (i - 1)
      OBVIOUS
    <3>2. /\ j < (r + d) + e /\ j + k = (k + r) + ((d + i) - 1) /\ d + i \in 1 .. d + e /\ i \in 1 .. e + n
      BY <3>1
    <3>3. ff[i] = RegAt(j)'
      BY <1>14, <3>1, <3>2
    <3>4. RegAt(j)' = RegAt((k + r) + ((d + i) - 1))
      BY <1>12, <3>2
    <3> QED
      BY <1>13, <1>15, <3>2, <3>3, <3>4
  <2>2. ASSUME NEW i \in 1 .. n PROVE ff[e + i] = freed[i]
    <3>1. PICK j \in 0 .. ((r + d) + e) + n - 1 : j = (r + d) + ((e + i) - 1)
      OBVIOUS
    <3>2. ~(j < (r + d) + e) /\ j - ((r + d) + e) + 1 = i /\ e + i \in 1 .. e + n
      BY <3>1
    <3>3. ff[e + i] = RegAt(j)'
      BY <1>14, <3>1, <3>2
    <3> QED
      BY <1>12, <3>2, <3>3
  <2> QED
    BY <1>9, <1>15, <2>1, <2>2, Join
<1>18. freed \in Abs!Returned
  BY <1>8, ReturnedOutside
<1>19. Len(f) = d + e /\ Len(t) = k + r
  <2>1. f \in Seq(PhysRegs) /\ t \in Seq(PhysRegs) /\ d + e \in Nat /\ k + r \in Nat
    OBVIOUS
  <2> QED
    BY <2>1
<1>20. d <= Len(f) /\ k <= Len(t)
  BY <1>19
<1>21. /\ d <= Len(Free) /\ k <= Len(Taken)
       /\ Free' = SubSeq(Free, d + 1, Len(Free)) \o freed
       /\ Taken' = SubSeq(Taken, k + 1, Len(Taken)) \o SubSeq(Free, 1, d)
  BY <1>10, <1>11, <1>16, <1>17, <1>19, <1>20
<1> QED
  BY <1>8, <1>18, <1>21 DEF Abs!Advance

\* A squash puts every register handed out and not committed back in front of
\* the free ones, in order.
LEMMA ResteerRefines ==
  ASSUME Inv, NEW alloc, NEW freed, NEW committed, NEW resteer,
         Input(alloc, freed, committed, resteer), Inv'
  PROVE  resteer => Abs!RollBack
<1>a. /\ Len(freed) \in Nat
      /\ resteer => committed = 0
      /\ arch_count' = arch_count - committed + Len(freed)
      /\ resteer => count' = arch_count + Len(freed)
  BY CycleFacts
<1>b. \A i \in 0 .. arch_count' - 1 :
        RegAt(i)' = IF i < arch_count - committed THEN RegAt(i + committed)
                    ELSE freed[i - (arch_count - committed) + 1]
  BY RingAfterCycle
<1>c. SUFFICES ASSUME resteer PROVE Abs!RollBack
  OBVIOUS
<1>1. /\ count \in Nat /\ arch_count \in Nat /\ count <= arch_count
      /\ Len(freed) \in Nat /\ committed = 0
      /\ arch_count' = arch_count + Len(freed) /\ count' = arch_count + Len(freed)
  <2>1. count \in Nat /\ arch_count \in Nat /\ count <= arch_count
    BY DepthType DEF Inv, TypeOK, PointersAgree
  <2>2. committed = 0 /\ count' = arch_count + Len(freed)
    BY <1>a, <1>c
  <2> QED
    BY <1>a, <2>1, <2>2
\* c are free, r are taken, n come back
<1>2. PICK n \in Nat : n = Len(freed)
  BY <1>1
<1>3. PICK c \in Nat : c = count
  BY <1>1
<1>4. PICK r \in Nat : r = arch_count - count
  BY <1>1
<1>5. /\ arch_count = r + c /\ arch_count - committed = r + c
      /\ arch_count' = (r + c) + n /\ count' = (r + c) + n /\ arch_count' - count' = 0
  BY <1>1, <1>2, <1>3, <1>4
<1>6. freed \in Returns
  BY DEF Input
<1>7. freed \in [1 .. n -> PhysRegs]
  BY <1>2, <1>6, ReturnsFacts
<1>8. PICK t \in [1 .. r -> PhysRegs], f \in [1 .. c -> PhysRegs] : t = Taken /\ f = Free
  BY <1>3, <1>4, Queues
<1>9. PICK ff \in [1 .. (r + c) + n -> PhysRegs] : ff = Free'
  BY <1>5, QueuesNext
<1>10. \A i \in 0 .. (r + c) + n - 1 : RegAt(i)' = IF i < r + c THEN RegAt(i) ELSE freed[i - (r + c) + 1]
  <2>1. \A i \in 0 .. (r + c) + n - 1 :
          RegAt(i)' = IF i < r + c THEN RegAt(i + committed) ELSE freed[i - (r + c) + 1]
    BY <1>5, <1>b
  <2>2. \A i \in 0 .. (r + c) + n - 1 : i + committed = i
    BY <1>1
  <2> QED
    BY <2>1, <2>2
<1>11. /\ \A i \in 1 .. r : t[i] = RegAt(i - 1)
       /\ \A i \in 1 .. c : f[i] = RegAt(r + (i - 1))
  BY <1>3, <1>4, <1>8, Queues
<1>12. \A i \in 1 .. (r + c) + n : ff[i] = RegAt(i - 1)'
  <2> TAKE i \in 1 .. (r + c) + n
  <2>1. Free'[i] = RegAt((arch_count - count) + (i - 1))'
    BY <1>5, QueuesNext
  <2>2. 0 + (i - 1) = i - 1
    OBVIOUS
  <2>3. (arch_count' - count') + (i - 1) = i - 1
    BY <1>5, <2>2
  <2>4. RegAt((arch_count - count) + (i - 1))' = RegAt(i - 1)'
    BY <2>3 DEF RegAt
  <2> QED
    BY <1>9, <2>1, <2>4
<1>13. PICK tf \in [1 .. r + c -> PhysRegs] : \A i \in 1 .. r + c : tf[i] = ff[i]
  <2> DEFINE tf == [i \in 1 .. r + c |-> ff[i]]
  <2>1. tf \in [1 .. r + c -> PhysRegs]
    OBVIOUS
  <2> QED
    BY <2>1
<1>14. tf = t \o f
  <2>1. ASSUME NEW i \in 1 .. r PROVE tf[i] = t[i]
    <3>1. /\ i - 1 \in 0 .. (r + c) + n - 1 /\ i - 1 < r + c /\ i \in 1 .. (r + c) + n /\ i \in 1 .. r + c
      OBVIOUS
    <3> QED
      BY <1>10, <1>11, <1>12, <1>13, <3>1
  <2>2. ASSUME NEW i \in 1 .. c PROVE tf[r + i] = f[i]
    <3>1. /\ (r + i) - 1 \in 0 .. (r + c) + n - 1 /\ (r + i) - 1 < r + c /\ (r + i) - 1 = r + (i - 1)
          /\ r + i \in 1 .. (r + c) + n /\ r + i \in 1 .. r + c
      OBVIOUS
    <3> QED
      BY <1>10, <1>11, <1>12, <1>13, <3>1
  <2> QED
    BY <2>1, <2>2, Join
<1>15. ff = tf \o freed
  <2>1. ASSUME NEW i \in 1 .. n PROVE ff[(r + c) + i] = freed[i]
    <3>1. PICK j \in 0 .. (r + c) + n - 1 : j = ((r + c) + i) - 1
      OBVIOUS
    <3>2. ~(j < r + c) /\ j - (r + c) + 1 = i /\ (r + c) + i \in 1 .. (r + c) + n
      BY <3>1
    <3>3. ff[(r + c) + i] = RegAt(j)'
      BY <1>12, <3>1, <3>2
    <3> QED
      BY <1>10, <3>2, <3>3
  <2>2. r + c \in Nat
    OBVIOUS
  <2> QED
    BY <1>7, <1>13, <2>1, <2>2, Join
<1>16. Taken' = << >>
  BY <1>5 DEF Taken
<1>17. freed \in Abs!Returned
  BY <1>6, ReturnedOutside
<1>18. Free' = Taken \o Free \o freed
  BY <1>8, <1>9, <1>14, <1>15
<1> QED
  BY <1>16, <1>17, <1>18 DEF Abs!RollBack

\* Reset leaves every register in the free queue.
LEMMA InitRefines ==
  ASSUME Init
  PROVE  Abs!Init
<1>1. /\ buffer \in [Slots -> PhysRegs] /\ \A s, t \in Slots : buffer[s] = buffer[t] => s = t
      /\ deq_ptr = 0 /\ count = DEPTH /\ arch_count = DEPTH /\ DEPTH \in Nat \ {0}
  BY DepthType DEF Init
<1>2. Taken = << >>
  <2>1. arch_count - count = 0
    BY <1>1
  <2> QED
    BY <2>1 DEF Taken
<1>3. ASSUME NEW i \in 1 .. DEPTH
      PROVE  i - 1 \in Slots /\ Free[i] = buffer[i - 1]
  <2>1. i - 1 \in Slots /\ Wrap(deq_ptr + i - 1) = i - 1
    BY <1>1 DEF Slots, Wrap
  <2> QED
    BY <1>1, <2>1 DEF Free
<1>4. Free \in Injection(1 .. DEPTH, PhysRegs)
  <2>1. Free \in [1 .. DEPTH -> PhysRegs]
    <3>1. Free = [i \in 1 .. DEPTH |-> Free[i]]
      BY <1>1 DEF Free
    <3> QED
      BY <1>1, <1>3, <3>1
  <2>2. ASSUME NEW i \in 1 .. DEPTH, NEW j \in 1 .. DEPTH, Free[i] = Free[j] PROVE i = j
    <3>1. i - 1 = j - 1
      BY <1>1, <1>3, <2>2
    <3> QED
      BY <1>1, <3>1
  <2> QED
    BY <2>1, <2>2 DEF Injection, IsInjective
<1>5. Cardinality(1 .. DEPTH) = Cardinality(PhysRegs)
  BY <1>1, FS_Interval DEF DEPTH
<1>6. Free \in Surjection(1 .. DEPTH, PhysRegs)
  BY <1>4, <1>5, FS_Injection, PhysRegsAssumption
<1>7. Abs!SeqRange(Free) = PhysRegs
  BY <1>6 DEF Surjection, Abs!SeqRange
<1>8. Free \in Seq(PhysRegs) /\ \A i, j \in DOMAIN Free : Free[i] = Free[j] => i = j
  <2>1. Free \in [1 .. DEPTH -> PhysRegs] /\ \A i, j \in 1 .. DEPTH : Free[i] = Free[j] => i = j
    BY <1>4 DEF Injection, IsInjective
  <2> QED
    BY <1>1, <2>1
<1> QED
  BY <1>2, <1>7, <1>8 DEF Abs!Init

\* The ring with its three pointers is a free list with roll-back: rename.sv
\* gets every register handed out since the last commit back from a squash, in
\* the order in which it took them, whatever the sizes.
THEOREM Refinement == Spec => ImplementsAbs
<1>1. ASSUME Inv, Inv', [Next]_vars PROVE [Abs!Next]_(Abs!absVars)
  <2>1. CASE Next
    <3>1. PICK alloc, freed, committed, resteer : Input(alloc, freed, committed, resteer)
      BY <1>1, <2>1, NextIsCycle
    <3>2. CASE resteer = TRUE
      BY <1>1, <3>1, <3>2, ResteerRefines DEF Abs!Next
    <3>3. CASE resteer = FALSE
      BY <1>1, <3>1, <3>3, AdvanceRefines DEF Abs!Next
    <3>4. resteer \in BOOLEAN
      BY <3>1 DEF Input
    <3> QED
      BY <3>2, <3>3, <3>4
  <2>2. CASE UNCHANGED vars
    BY <2>2 DEF vars, Abs!absVars, Free, Taken, Wrap
  <2> QED
    BY <1>1, <2>1, <2>2
<1>2. Init => Abs!Init
  BY InitRefines
<1> QED
  BY Invariance, <1>1, <1>2, PTL DEF Spec, ImplementsAbs, Abs!Spec
=============================================================================
