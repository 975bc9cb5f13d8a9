----------------------------- MODULE Ftq_proofs -----------------------------
(***************************************************************************)
(* The fetch target queue, for any number of entries.                      *)
(*                                                                         *)
(* The pointers alone say nothing of who still needs an entry, so the      *)
(* invariant counts: n blocks are in the ring behind commit_ptr and f of   *)
(* them have been asked of the cache (Shape).  The fetcher holds the last  *)
(* ones asked for, the backend older ones, in order, and the commit limit  *)
(* is behind none of them but after a mispredicted branch.  Every pointer, *)
(* flip bit and entry number is then a place, and a place is compared as a *)
(* number where the code compares slots and flip bits.                     *)
(*                                                                         *)
(* A cycle is proved in two moves: where everything is, counted from where *)
(* commit_ptr was (RingMoves, StagesMove, BackMoves, StreamMoves), and the *)
(* same counted from where it is (the lemmas named Rebase).                *)
(***************************************************************************)
EXTENDS Ftq, SequenceTheorems, TLAPS

-----------------------------------------------------------------------------
(* The ring, counted from a slot. *)

\* the slot o places behind slot c
Place(c, o) == IF c + o < FTQ_SIZE THEN c + o ELSE c + o - FTQ_SIZE

\* how far slot x is behind slot c
Behind(c, x) == IF x >= c THEN x - c ELSE x + FTQ_SIZE - c

\* Walking around the ring stays on it ...
LEMMA PlaceType ==
  ASSUME NEW c \in Slots, NEW o \in 0 .. FTQ_SIZE
  PROVE  Place(c, o) \in Slots
  BY SizeAssumption DEF Place, Slots

\* ... and the way back is as long.
LEMMA PlaceBehind ==
  ASSUME NEW c \in Slots, NEW x \in Slots
  PROVE  Behind(c, x) \in 0 .. FTQ_SIZE - 1 /\ Place(c, Behind(c, x)) = x
  BY SizeAssumption DEF Place, Behind, Slots

\* Less than a turn behind a slot, the way back is as long.
LEMMA BehindPlace ==
  ASSUME NEW c \in Slots, NEW o \in 0 .. FTQ_SIZE - 1
  PROVE  Behind(c, Place(c, o)) = o
  BY SizeAssumption DEF Place, Behind, Slots

\* Two places less than a turn behind a slot are different slots.
LEMMA PlaceOnce ==
  ASSUME NEW c \in Slots, NEW o \in 0 .. FTQ_SIZE - 1, NEW p \in 0 .. FTQ_SIZE - 1,
         Place(c, o) = Place(c, p)
  PROVE  o = p
  BY SizeAssumption DEF Place, Slots

\* A pointer moves on by one place.
LEMMA PlaceNext ==
  ASSUME NEW c \in Slots, NEW o \in 0 .. FTQ_SIZE - 1
  PROVE  After(Place(c, o)) = Place(c, o + 1)
  BY SizeAssumption DEF Place, After, Slots

\* Seen from the next slot, everything is one place nearer.
LEMMA PlaceShift ==
  ASSUME NEW c \in Slots, NEW o \in 1 .. FTQ_SIZE
  PROVE  /\ After(c) \in Slots
         /\ Place(After(c), o - 1) = Place(c, o)
         /\ After(c) + (o - 1) >= FTQ_SIZE <=> (c + o >= FTQ_SIZE) # Wraps(c)
  BY SizeAssumption DEF Place, After, Wraps, Slots

\* The same of a slot other than the first.
LEMMA BehindShift ==
  ASSUME NEW c \in Slots, NEW x \in Slots, x # c
  PROVE  Behind(After(c), x) = Behind(c, x) - 1
  BY SizeAssumption DEF Behind, After, Slots

\* The slots between two places.
LEMMA FromPlaces ==
  ASSUME NEW c \in Slots, NEW m \in 0 .. FTQ_SIZE - 1, NEW n \in 0 .. FTQ_SIZE, m <= n, n - m < FTQ_SIZE
  PROVE  From(Place(c, m), Place(c, n)) = {Place(c, o) : o \in m .. n - 1}
<1>1. ASSUME NEW x \in From(Place(c, m), Place(c, n)) PROVE x \in {Place(c, o) : o \in m .. n - 1}
  <2>1. x \in Slots
    BY <1>1, PlaceType, SizeAssumption DEF From, Slots
  <2>2. CASE m <= Behind(c, x)
    <3>1. Behind(c, x) \in m .. n - 1 /\ Place(c, Behind(c, x)) = x
      BY <1>1, <2>1, <2>2, SizeAssumption DEF From, Place, Behind, Slots
    <3> QED
      BY <3>1
  <2>3. CASE Behind(c, x) < m
    BY <1>1, <2>1, <2>3, SizeAssumption DEF From, Place, Behind, Slots
  <2> QED
    BY <2>1, <2>2, <2>3, PlaceBehind, SizeAssumption
<1>2. ASSUME NEW o \in m .. n - 1 PROVE Place(c, o) \in From(Place(c, m), Place(c, n))
  BY <1>2, SizeAssumption DEF From, Place, Slots
<1> QED
  BY <1>1, <1>2

-----------------------------------------------------------------------------
(* The invariant.  n blocks are in the ring, and f of them have been asked *)
(* of the cache; places are counted from commit_ptr.                       *)

At(o) == Place(commit_ptr, o)
Off(x) == Behind(commit_ptr, x)

\* the pointers, and the entries that they say are in the ring
Pointers(n, f) ==
  /\ pred_ptr = At(n) /\ (pptr_flipped # cptr_flipped <=> commit_ptr + n >= FTQ_SIZE)
  /\ f <= n /\ fetch_ptr = At(f)
  /\ buffer_vld = {At(o) : o \in 0 .. n - 1}
  /\ Off(commit_ptr_thre) <= n

\* where fetching goes on after a stall, and the first block not delivered
Refetch(f) == f - Len(s1) - Len(s2)
Undelivered(f) == Refetch(f) - Len(new_inst)

\* The fetcher holds the last blocks asked for.
Stages(f) ==
  /\ Undelivered(f) >= 0
  /\ s1 # << >> => s1[1].idx = At(f - 1)
  /\ s2 # << >> => s2[1].idx = At(Refetch(f))
  /\ new_inst # << >> => new_inst[1].idx = At(Undelivered(f))

\* The backend holds older ones, in order, from the commit limit on; behind a
\* mispredicted branch the limit is past them.
Backend(f) ==
  /\ \A j \in DOMAIN back : Off(back[j].idx) < Undelivered(f)
  /\ \A i, j \in DOMAIN back : i < j => Off(back[i].idx) < Off(back[j].idx)
  /\ squash # "mispred" => /\ Off(commit_ptr_thre) <= Undelivered(f)
                           /\ \A j \in DOMAIN back : Off(commit_ptr_thre) <= Off(back[j].idx)

\* No branch has written an entry that is not delivered or not executed.
Fresh(n, f) ==
  /\ \A j \in Unwritten : back[j].idx \notin wasWrote
  /\ \A o \in Undelivered(f) .. n - 1 : At(o) \notin wasWrote

\* The positions of the blocks to come: those of the ring, then the next one.
Coming(n, o) == IF o = n THEN next ELSE buf_baseInfo[At(o)]

\* They follow each other.  Behind a false prediction they do not, but then the
\* corrected block is about to be delivered and all of them are taken back.
Stream(n, f) ==
  ~lost => IF falsepred = << >>
           THEN /\ Coming(n, Undelivered(f)) = want
                /\ \A o \in Undelivered(f) .. n - 1 : Coming(n, o + 1) = Following(Coming(n, o))
           ELSE falsepred = new_inst /\ new_inst[1].pos = want

Shape(n, f) == Pointers(n, f) /\ Stages(f) /\ Backend(f) /\ Fresh(n, f) /\ Stream(n, f)

Inv == TypeOK /\ ReadsOwn /\ \E n, f \in 0 .. FTQ_SIZE : Shape(n, f)

-----------------------------------------------------------------------------
(* What the invariant says. *)

\* n is the number of valid entries by the pointers.
LEMMA FullMeans ==
  ASSUME TypeOK, NEW n \in 0 .. FTQ_SIZE, NEW f \in 0 .. FTQ_SIZE, Pointers(n, f)
  PROVE  (ftqFull <=> n = FTQ_SIZE) /\ (ftqEmpty <=> n = 0)
<1>1. /\ commit_ptr \in Slots /\ pred_ptr = Place(commit_ptr, n)
      /\ (pptr_flipped # cptr_flipped <=> commit_ptr + n >= FTQ_SIZE)
  BY DEF TypeOK, Pointers, At
<1>2. commit_ptr = pred_ptr <=> n \in {0, FTQ_SIZE}
  BY <1>1, SizeAssumption DEF Place, Slots
<1>3. n = 0 => ~(commit_ptr + n >= FTQ_SIZE)
  BY <1>1, SizeAssumption DEF Slots
<1>4. n = FTQ_SIZE => commit_ptr + n >= FTQ_SIZE
  BY <1>1, SizeAssumption DEF Slots
<1>5. 0 # FTQ_SIZE
  BY SizeAssumption
<1> QED
  BY <1>1, <1>2, <1>3, <1>4, <1>5, Zenon DEF ftqFull, ftqEmpty

\* The window by pointers and flip bits is the n places behind commit_ptr.
LEMMA WindowMeans ==
  ASSUME TypeOK, NEW n \in 0 .. FTQ_SIZE, NEW f \in 0 .. FTQ_SIZE, Pointers(n, f)
  PROVE  Window = {At(o) : o \in 0 .. n - 1}
<1>1. CASE n = FTQ_SIZE
  <2>1. ASSUME NEW x \in Slots PROVE x \in {At(o) : o \in 0 .. n - 1}
    BY <1>1, PlaceBehind DEF At, TypeOK
  <2>2. ASSUME NEW o \in 0 .. n - 1 PROVE At(o) \in Slots
    BY <1>1, PlaceType DEF At, TypeOK
  <2>3. Window = Slots
    BY <1>1, FullMeans DEF Window
  <2>4. {At(o) : o \in 0 .. n - 1} = Slots
    BY <2>1, <2>2
  <2> QED
    BY <2>3, <2>4
<1>2. CASE n # FTQ_SIZE
  <2>1. n < FTQ_SIZE /\ commit_ptr = Place(commit_ptr, 0) /\ 0 \in 0 .. FTQ_SIZE - 1 /\ commit_ptr \in Slots
    BY <1>2, SMTT(30), SizeAssumption DEF Place, TypeOK, Slots
  <2>2. From(Place(commit_ptr, 0), Place(commit_ptr, n)) = {Place(commit_ptr, o) : o \in 0 .. n - 1}
    BY <2>1, FromPlaces, SizeAssumption
  <2> QED
    BY <1>2, <2>1, <2>2, FullMeans DEF Window, At, Pointers
<1> QED
  BY <1>1, <1>2

\* The blocks of the backend are at places of the ring.
LEMMA BackFacts ==
  ASSUME TypeOK
  PROVE  /\ Len(back) \in Nat /\ DOMAIN back = 1 .. Len(back)
         /\ \A j \in DOMAIN back :
              /\ back[j] \in Blocks /\ back[j].idx \in Slots
              /\ Off(back[j].idx) \in 0 .. FTQ_SIZE - 1 /\ At(Off(back[j].idx)) = back[j].idx
<1>1. back \in Seq(Blocks) /\ commit_ptr \in Slots
  BY DEF TypeOK
<1>2. Len(back) \in Nat /\ DOMAIN back = 1 .. Len(back)
  BY <1>1
<1>3. ASSUME NEW j \in DOMAIN back
      PROVE  /\ back[j] \in Blocks /\ back[j].idx \in Slots
             /\ Off(back[j].idx) \in 0 .. FTQ_SIZE - 1 /\ At(Off(back[j].idx)) = back[j].idx
  <2>1. back[j] \in Blocks
    BY <1>1, <1>2
  <2>2. back[j].idx \in Slots
    BY <2>1 DEF Blocks
  <2> QED
    BY <1>1, <2>1, <2>2, PlaceBehind DEF At, Off
<1> QED
  BY <1>2, <1>3

\* The invariant is consistency of the ring.
LEMMA InvConsistent == Inv => RingConsistent
<1> SUFFICES ASSUME Inv PROVE RingConsistent
  OBVIOUS
<1>1. PICK n \in 0 .. FTQ_SIZE, f \in 0 .. FTQ_SIZE : Shape(n, f)
  BY DEF Inv
<1>2. TypeOK /\ commit_ptr \in Slots /\ commit_ptr_thre \in Slots /\ Pointers(n, f)
  BY <1>1 DEF Inv, TypeOK, Shape
<1>3. Window = {At(o) : o \in 0 .. n - 1}
  BY <1>2, WindowMeans
<1>4. ValidIsWindow
  <2>1. commit_ptr # pred_ptr => (cptr_flipped = pptr_flipped) = (commit_ptr < pred_ptr)
    <3>1. /\ pred_ptr = Place(commit_ptr, n)
          /\ (pptr_flipped # cptr_flipped <=> commit_ptr + n >= FTQ_SIZE)
      BY <1>2 DEF Pointers, At
    <3>2. commit_ptr # pred_ptr => (commit_ptr < pred_ptr <=> ~(commit_ptr + n >= FTQ_SIZE))
      BY <1>2, <3>1, SizeAssumption DEF Place, Slots
    <3>3. (commit_ptr < pred_ptr) \in BOOLEAN /\ pptr_flipped \in BOOLEAN /\ cptr_flipped \in BOOLEAN
      BY <1>2, SizeAssumption DEF TypeOK, Slots
    <3> QED
      BY <3>1, <3>2, <3>3, Zenon
  <2>2. buffer_vld = Window
    BY <1>2, <1>3 DEF Pointers
  <2>3. fetch_ptr \in Window \union {pred_ptr}
    BY <1>2, <1>3 DEF Pointers
  <2>4. commit_ptr_thre \in Window \union {pred_ptr}
    <3>1. Off(commit_ptr_thre) \in 0 .. n /\ At(Off(commit_ptr_thre)) = commit_ptr_thre
      BY <1>2, PlaceBehind DEF Pointers, At, Off
    <3> QED
      BY <1>2, <1>3, <3>1 DEF Pointers
  <2> QED
    BY <2>1, <2>2, <2>3, <2>4 DEF ValidIsWindow
<1>5. RingAssertions
  <2>1. DoCommit => commit_ptr \in buffer_vld
    <3>1. ASSUME DoCommit PROVE commit_ptr = At(0) /\ n > 0
      BY <1>2, <3>1, SizeAssumption DEF DoCommit, Pointers, Off, Behind, At, Place, Slots
    <3> QED
      BY <1>2, <3>1 DEF Pointers
  <2>2. ~Squashed /\ ~ftqFull => pred_ptr \notin buffer_vld
    <3> SUFFICES ASSUME ~ftqFull, NEW o \in 0 .. n - 1 PROVE pred_ptr # At(o)
      BY <1>2 DEF Pointers
    <3>1. n \in 0 .. FTQ_SIZE - 1 /\ o \in 0 .. FTQ_SIZE - 1 /\ o # n
        BY <1>2, FullMeans, SizeAssumption
    <3> QED
      BY <1>2, <3>1, PlaceOnce DEF Pointers, At
  <2>3. ASSUME NEW j \in Unwritten PROVE back[j].idx \in buffer_vld \ wasWrote
    <3>1. j \in DOMAIN back
      BY DEF Unwritten
    <3>2. Off(back[j].idx) \in 0 .. FTQ_SIZE - 1 /\ At(Off(back[j].idx)) = back[j].idx
      BY <1>2, <3>1, BackFacts
    <3>3. Undelivered(f) <= n
      BY <1>2 DEF Pointers, Undelivered, Refetch, TypeOK, AtMostOne
    <3>4. Off(back[j].idx) \in 0 .. n - 1
      <4>1. Off(back[j].idx) < Undelivered(f)
        BY <1>1, <3>1 DEF Shape, Backend
      <4> QED
        BY <3>2, <3>3, <4>1, SizeAssumption DEF Undelivered, Refetch
    <3> QED
      BY <1>1, <1>2, <3>2, <3>4 DEF Shape, Fresh, Pointers
  <2>4. ASSUME NEW i \in Unwritten, NEW j \in Unwritten, back[i].idx = back[j].idx PROVE i = j
    <3>1. i \in DOMAIN back /\ j \in DOMAIN back
      BY DEF Unwritten
    <3>2. DOMAIN back = 1 .. Len(back) /\ Len(back) \in Nat
      BY <1>2, BackFacts
    <3>3. Off(back[i].idx) \in Int /\ Off(back[j].idx) \in Int
      BY <1>2, <3>1, BackFacts, SizeAssumption
    <3>4. ~(i < j) /\ ~(j < i)
      BY <1>1, <2>4, <3>1, <3>3 DEF Shape, Backend
    <3> QED
      BY <3>1, <3>2, <3>4
  <2> QED
    BY <2>1, <2>2, <2>3, <2>4 DEF RingAssertions
<1> QED
  BY <1>2, <1>4, <1>5 DEF RingConsistent

-----------------------------------------------------------------------------
(* Stages, positions and the blocks that are named. *)

\* A stage is empty or holds a block.
LEMMA StageFacts ==
  ASSUME NEW x \in AtMostOne
  PROVE  /\ Len(x) \in {0, 1} /\ (Len(x) = 0 <=> x = << >>) /\ x \in Seq(Blocks)
         /\ x # << >> => /\ Len(x) = 1 /\ DOMAIN x = {1} /\ x[1] \in Blocks /\ x = <<x[1]>>
                         /\ x[1].idx \in Slots /\ x[1].pos \in 0 .. POS - 1
<1>1. CASE x = << >>
  BY <1>1
<1>2. ASSUME NEW b \in Blocks, x = <<b>>
      PROVE  /\ Len(x) = 1 /\ x # << >> /\ DOMAIN x = {1} /\ x[1] \in Blocks /\ x = <<x[1]>>
             /\ x[1].idx \in Slots /\ x[1].pos \in 0 .. POS - 1 /\ x \in Seq(Blocks)
  <2>1. x[1] = b /\ Len(x) = 1 /\ x # << >> /\ DOMAIN x = {1} /\ x \in Seq(Blocks)
    BY <1>2
  <2>2. b.idx \in Slots /\ b.pos \in 0 .. POS - 1
    BY DEF Blocks
  <2> QED
    BY <1>2, <2>1, <2>2
<1> QED
  BY <1>1, <1>2 DEF AtMostOne

\* A block that the ring gives to the cache is a block.
LEMMA BlockType ==
  ASSUME NEW i \in Slots, NEW p \in 0 .. POS - 1
  PROVE  /\ Block(i, p) \in Blocks /\ Block(i, p).idx = i /\ Block(i, p).pos = p
         /\ ~Block(i, p).wrote
  BY DEF Block, Blocks

\* Positions are counted modulo POS.
LEMMA FollowingType ==
  ASSUME NEW p \in 0 .. POS - 1
  PROVE  Following(p) \in 0 .. POS - 1
<1>1. p + 1 \in Int /\ POS \in Int /\ POS > 0
  BY SizeAssumption
<1> QED
  BY <1>1 DEF Following

\* The elements of two sequences.
LEMMA JoinedSet ==
  ASSUME NEW a \in Seq(Blocks), NEW b \in Seq(Blocks)
  PROVE  a \o b \in Seq(Blocks) /\ ToSet(a \o b) = ToSet(a) \union ToSet(b)
<1>1. /\ a \o b \in Seq(Blocks) /\ Len(a) \in Nat /\ Len(b) \in Nat
      /\ DOMAIN a = 1 .. Len(a) /\ DOMAIN b = 1 .. Len(b)
      /\ DOMAIN (a \o b) = 1 .. Len(a) + Len(b)
      /\ \A i \in 1 .. Len(a) + Len(b) : (a \o b)[i] = IF i <= Len(a) THEN a[i] ELSE b[i - Len(a)]
  BY ConcatProperties
<1>2. ASSUME NEW i \in 1 .. Len(a) + Len(b) PROVE (a \o b)[i] \in ToSet(a) \union ToSet(b)
  <2>1. CASE i <= Len(a)
    BY <1>1, <2>1 DEF ToSet
  <2>2. CASE i > Len(a)
    <3>1. i - Len(a) \in DOMAIN b
      BY <1>1, <2>2
    <3> QED
      BY <1>1, <2>2, <3>1 DEF ToSet
  <2> QED
    BY <1>1, <2>1, <2>2
<1>3. ASSUME NEW i \in DOMAIN a PROVE a[i] \in ToSet(a \o b)
  <2>1. i \in 1 .. Len(a) + Len(b) /\ i <= Len(a)
    BY <1>1
  <2> QED
    BY <1>1, <2>1 DEF ToSet
<1>4. ASSUME NEW i \in DOMAIN b PROVE b[i] \in ToSet(a \o b)
  <2>1. /\ i + Len(a) \in 1 .. Len(a) + Len(b) /\ ~(i + Len(a) <= Len(a))
        /\ (i + Len(a)) - Len(a) = i
    BY <1>1
  <2> QED
    BY <1>1, <2>1 DEF ToSet
<1> QED
  BY <1>1, <1>2, <1>3, <1>4 DEF ToSet

\* the entry of a block still holds it
Owns(b) == buf_baseInfo[b.idx] = b.pos

\* ReadsOwn, by the places where blocks are.
Own ==
  /\ s1 # << >> => Owns(s1[1])
  /\ s2 # << >> => Owns(s2[1])
  /\ new_inst # << >> => Owns(new_inst[1])
  /\ falsepred # << >> => Owns(falsepred[1])
  /\ \A j \in DOMAIN back : Owns(back[j])

\* They say the same.
LEMMA OwnMeans == TypeOK => (ReadsOwn <=> Own)
<1> SUFFICES ASSUME TypeOK PROVE ReadsOwn <=> Own
  OBVIOUS
<1>1. /\ s1 \in AtMostOne /\ s2 \in AtMostOne /\ new_inst \in AtMostOne /\ falsepred \in AtMostOne
      /\ back \in Seq(Blocks)
  BY DEF TypeOK
<1>2. ASSUME NEW x \in AtMostOne
      PROVE  x \in Seq(Blocks) /\ ToSet(x) = IF x = << >> THEN {} ELSE {x[1]}
  BY StageFacts DEF ToSet
<1>3. ToSet(s1 \o s2 \o new_inst \o falsepred \o back)
        = (((ToSet(s1) \union ToSet(s2)) \union ToSet(new_inst)) \union ToSet(falsepred)) \union ToSet(back)
  <2>1. s1 \o s2 \in Seq(Blocks) /\ ToSet(s1 \o s2) = ToSet(s1) \union ToSet(s2)
    BY <1>1, <1>2, JoinedSet
  <2>2. /\ (s1 \o s2) \o new_inst \in Seq(Blocks)
        /\ ToSet((s1 \o s2) \o new_inst) = ToSet(s1 \o s2) \union ToSet(new_inst)
    BY <1>1, <1>2, <2>1, JoinedSet
  <2>3. /\ ((s1 \o s2) \o new_inst) \o falsepred \in Seq(Blocks)
        /\ ToSet(((s1 \o s2) \o new_inst) \o falsepred)
             = ToSet((s1 \o s2) \o new_inst) \union ToSet(falsepred)
    BY <1>1, <1>2, <2>2, JoinedSet
  <2>4. ToSet((((s1 \o s2) \o new_inst) \o falsepred) \o back)
          = ToSet(((s1 \o s2) \o new_inst) \o falsepred) \union ToSet(back)
    BY <1>1, <2>3, JoinedSet
  <2> QED
    BY <2>1, <2>2, <2>3, <2>4
<1>4. ToSet(back) = {back[j] : j \in DOMAIN back}
  BY DEF ToSet
<1>5. /\ ToSet(s1) = IF s1 = << >> THEN {} ELSE {s1[1]}
      /\ ToSet(s2) = IF s2 = << >> THEN {} ELSE {s2[1]}
      /\ ToSet(new_inst) = IF new_inst = << >> THEN {} ELSE {new_inst[1]}
      /\ ToSet(falsepred) = IF falsepred = << >> THEN {} ELSE {falsepred[1]}
  BY <1>1, <1>2
<1> DEFINE Named == ToSet(s1 \o s2 \o new_inst \o falsepred \o back)
<1>6. ReadsOwn <=> \A b \in Named : Owns(b)
  BY DEF ReadsOwn, Owns
<1> QED
  BY <1>3, <1>4, <1>5, <1>6 DEF Own

-----------------------------------------------------------------------------
(* The first state. *)

\* An empty ring and an empty fetcher satisfy the invariant.
LEMMA InitInv == Init => Inv
<1> SUFFICES ASSUME Init PROVE Inv
  OBVIOUS
<1>1. 0 \in Slots /\ 0 \in 0 .. FTQ_SIZE /\ 0 \in 0 .. POS - 1
  BY SizeAssumption DEF Slots
<1>2. TypeOK
  BY <1>1 DEF Init, TypeOK, AtMostOne, Squashed
<1>3. ReadsOwn
  BY <1>2, OwnMeans DEF Init, Own
<1>4. Place(0, 0) = 0 /\ Behind(0, 0) = 0 /\ ~(0 + 0 >= FTQ_SIZE) /\ 0 .. 0 - 1 = {}
  BY SizeAssumption DEF Place, Behind
<1>5. Len(<< >>) = 0 /\ DOMAIN << >> = {} /\ Undelivered(0) = 0
  <2>1. s1 = << >> /\ s2 = << >> /\ new_inst = << >>
    BY DEF Init
  <2>2. Len(<< >>) = 0 /\ DOMAIN << >> = {}
    OBVIOUS
  <2>3. Len(s1) = 0 /\ Len(s2) = 0 /\ Len(new_inst) = 0
    BY <2>1, <2>2
  <2>4. Undelivered(0) = ((0 - Len(s1)) - Len(s2)) - Len(new_inst)
    BY DEF Undelivered, Refetch
  <2>5. Undelivered(0) = 0
    BY <2>3, <2>4
  <2> QED
    BY <2>2, <2>5
<1>6. Pointers(0, 0)
  BY <1>1, <1>4 DEF Init, Pointers, At, Off
<1>7. Stages(0) /\ Backend(0)
  BY <1>1, <1>4, <1>5 DEF Init, Stages, Backend, Off
<1>8. Fresh(0, 0) /\ Stream(0, 0)
  BY <1>4, <1>5 DEF Init, Fresh, Unwritten, Stream, Coming
<1> QED
  BY <1>1, <1>2, <1>3, <1>6, <1>7, <1>8 DEF Inv, Shape

-----------------------------------------------------------------------------
(* The ring through a cycle, counted from where commit_ptr was. *)

\* Seen from the slot d places on, everything is d places nearer.
LEMMA Shift ==
  ASSUME NEW c \in Slots, NEW d \in {0, 1}, NEW e, e = IF d = 1 THEN After(c) ELSE c
  PROVE  /\ e \in Slots
         /\ \A o \in d .. FTQ_SIZE : Place(e, o - d) = Place(c, o)
         /\ \A x \in Slots : Behind(c, x) >= d => Behind(e, x) = Behind(c, x) - d
<1>1. CASE d = 0
  BY <1>1, PlaceBehind, SizeAssumption DEF Place, Behind, Slots
<1>2. CASE d = 1
  <2>1. e = After(c)
    BY <1>2
  <2>2. e \in Slots
    BY <2>1, PlaceShift, SizeAssumption
  <2>3. ASSUME NEW o \in 1 .. FTQ_SIZE PROVE Place(e, o - 1) = Place(c, o)
    BY <2>1, PlaceShift
  <2>4. ASSUME NEW x \in Slots, Behind(c, x) >= 1 PROVE Behind(e, x) = Behind(c, x) - 1
    <3>1. x # c
      BY <2>4, SizeAssumption DEF Behind, Slots
    <3> QED
      BY <2>1, <3>1, BehindShift
  <2> QED
    BY <1>2, <2>2, <2>3, <2>4
<1> QED
  BY <1>1, <1>2

\* blocks in the ring after a cycle, counting one that leaves
NewFilled(n, f, req) ==
  IF falsepred # << >>
  THEN IF Refetch(f) = 0 /\ n = FTQ_SIZE THEN n ELSE Refetch(f)
  ELSE IF DoPred(req) THEN n + 1 ELSE n

\* blocks asked of the cache after a cycle
NewFetched(f, req, rdy, stall) ==
  IF stall \/ falsepred # << >> THEN Refetch(f)
  ELSE IF DoFetch(req, stall) /\ rdy THEN f + 1 ELSE f

\* Counts of the fetcher's blocks.
LEMMA StageCounts ==
  ASSUME TypeOK, NEW f \in 0 .. FTQ_SIZE, Stages(f)
  PROVE  /\ Refetch(f) \in 0 .. f /\ Undelivered(f) \in 0 .. Refetch(f)
         /\ Refetch(f) = Undelivered(f) + Len(new_inst)
         /\ Len(s1) \in {0, 1} /\ Len(s2) \in {0, 1} /\ Len(new_inst) \in {0, 1}
         /\ f = Refetch(f) + Len(s2) + Len(s1)
<1>1. s1 \in AtMostOne /\ s2 \in AtMostOne /\ new_inst \in AtMostOne
  BY DEF TypeOK
<1>2. Len(s1) \in {0, 1} /\ Len(s2) \in {0, 1} /\ Len(new_inst) \in {0, 1}
  BY <1>1, StageFacts
<1>3. Undelivered(f) >= 0
  BY DEF Stages
<1> QED
  BY <1>2, <1>3, SizeAssumption DEF Undelivered, Refetch

\* A false prediction and a stall set pointers back to the oldest block that
\* the fetcher has not passed on.
LEMMA RecoveryMeans ==
  ASSUME TypeOK, NEW n \in 0 .. FTQ_SIZE, NEW f \in 0 .. FTQ_SIZE, Pointers(n, f), Stages(f)
  PROVE  Recovery = At(Refetch(f))
<1>1. s1 \in AtMostOne /\ s2 \in AtMostOne
  BY DEF TypeOK
<1>2. CASE s2 # << >>
  BY <1>2 DEF Recovery, Stages
<1>3. CASE s2 = << >> /\ s1 # << >>
  <2>1. Len(s1) = 1 /\ Len(s2) = 0
    BY <1>1, <1>3, StageFacts
  <2>2. Refetch(f) = (f - Len(s1)) - Len(s2)
    BY DEF Refetch
  <2>3. Refetch(f) = f - 1
    BY <2>1, <2>2, SizeAssumption
  <2> QED
    BY <1>3, <2>3 DEF Recovery, Stages
<1>4. CASE s2 = << >> /\ s1 = << >>
  <2>1. Len(s1) = 0 /\ Len(s2) = 0
    BY <1>1, <1>4, StageFacts
  <2>2. Refetch(f) = (f - Len(s1)) - Len(s2)
    BY DEF Refetch
  <2>3. Refetch(f) = f
    BY <2>1, <2>2, SizeAssumption
  <2> QED
    BY <1>4, <2>3 DEF Recovery, Pointers
<1> QED
  BY <1>2, <1>3, <1>4

\* A pointer set back r places keeps the flip bit that belongs there.
LEMMA FlipMeans ==
  ASSUME TypeOK, NEW n \in 0 .. FTQ_SIZE, NEW f \in 0 .. FTQ_SIZE, Pointers(n, f),
         NEW r \in 0 .. n, ~(r = 0 /\ n = FTQ_SIZE)
  PROVE  FlipAt(At(r)) # cptr_flipped <=> commit_ptr + r >= FTQ_SIZE
<1>1. /\ commit_ptr \in Slots /\ pred_ptr = Place(commit_ptr, n)
      /\ pptr_flipped # cptr_flipped <=> commit_ptr + n >= FTQ_SIZE
      /\ pptr_flipped \in BOOLEAN /\ cptr_flipped \in BOOLEAN
  BY DEF TypeOK, Pointers, At
<1>2. Place(commit_ptr, r) > pred_ptr
        <=> (commit_ptr + n >= FTQ_SIZE /\ ~(commit_ptr + r >= FTQ_SIZE))
  BY <1>1, SizeAssumption DEF Place, Slots
<1>3. commit_ptr + r >= FTQ_SIZE => commit_ptr + n >= FTQ_SIZE
  BY <1>1, SizeAssumption DEF Slots
<1> DEFINE late == commit_ptr + n >= FTQ_SIZE
           over == commit_ptr + r >= FTQ_SIZE
           up == Place(commit_ptr, r) > pred_ptr
<1>4. late \in BOOLEAN /\ over \in BOOLEAN /\ up \in BOOLEAN
  BY <1>1, SizeAssumption DEF Place, Slots
<1>5. /\ up <=> late /\ ~over
      /\ over => late
      /\ pptr_flipped # cptr_flipped <=> late
      /\ FlipAt(At(r)) = IF up THEN ~pptr_flipped ELSE pptr_flipped
  BY <1>1, <1>2, <1>3 DEF FlipAt, At
<1> HIDE DEF late, over, up
<1>6. FlipAt(At(r)) # cptr_flipped <=> over
  <2>1. CASE up
    BY <1>1, <1>4, <1>5, <2>1
  <2>2. CASE ~up
    BY <1>1, <1>4, <1>5, <2>2
  <2> QED
    BY <1>4, <2>1, <2>2
<1> QED
  BY <1>6 DEF over

\* Where the pointers stand after a cycle without a squash, and which entries
\* are then in the ring.
LEMMA RingMoves ==
  ASSUME TypeOK, NEW n \in 0 .. FTQ_SIZE, NEW f \in 0 .. FTQ_SIZE, Pointers(n, f), Stages(f),
         ~Squashed, NEW req \in BOOLEAN, NEW rdy \in BOOLEAN, NEW stall \in BOOLEAN,
         NEW commit, PredRing(req), FetchRing(req, rdy, stall)
  PROVE  LET m == NewFilled(n, f, req)
             g == NewFetched(f, req, rdy, stall)
         IN /\ m \in 0 .. FTQ_SIZE /\ g \in 0 .. m
            /\ pred_ptr' = At(m) /\ (pptr_flipped' # cptr_flipped <=> commit_ptr + m >= FTQ_SIZE)
            /\ fetch_ptr' = At(g)
            /\ (buffer_vld \ Cleared(commit)) \union (IF DoPred(req) THEN {pred_ptr} ELSE {})
                 = {At(o) : o \in 0 .. m - 1}
            /\ DoPred(req) => n < FTQ_SIZE /\ falsepred = << >>
            /\ falsepred = << >> /\ DoFetch(req, stall) => f < m /\ (f < n \/ (f = n /\ Bypass(req)))
<1> DEFINE r == Refetch(f)
           m == NewFilled(n, f, req)
           g == NewFetched(f, req, rdy, stall)
<1>1. /\ commit_ptr \in Slots /\ pred_ptr = At(n) /\ fetch_ptr = At(f) /\ f <= n
      /\ (pptr_flipped # cptr_flipped <=> commit_ptr + n >= FTQ_SIZE)
      /\ buffer_vld = {At(o) : o \in 0 .. n - 1}
  BY DEF TypeOK, Pointers
<1>2. r \in 0 .. f /\ Recovery = At(r)
  BY StageCounts, RecoveryMeans
<1>3. DoPred(req) => n < FTQ_SIZE /\ falsepred = << >>
  BY FullMeans, SizeAssumption DEF DoPred
<1>4. m \in 0 .. FTQ_SIZE
  BY <1>1, <1>2, <1>3, SizeAssumption DEF NewFilled
<1>5. ASSUME falsepred = << >>, DoFetch(req, stall)
      PROVE  f < m /\ (f < n \/ (f = n /\ Bypass(req)))
  <2>1. CASE Bypass(req)
    <3>1. DoPred(req) /\ m = n + 1
      BY <1>5, <2>1 DEF Bypass, NewFilled
    <3> QED
      BY <1>1, <2>1, <3>1, SizeAssumption
  <2>2. CASE ~Bypass(req)
    <3>1. fetch_ptr # pred_ptr
      BY <1>5, <2>2 DEF DoFetch
    <3>2. f < n
      BY <1>1, <3>1, SizeAssumption
    <3>3. m = n \/ m = n + 1
      BY <1>5 DEF NewFilled
    <3> QED
      BY <3>2, <3>3, SizeAssumption
  <2> QED
    BY <2>1, <2>2
<1>6. g \in 0 .. m
  <2>1. CASE stall \/ falsepred # << >>
    <3>1. g = r
      BY <2>1 DEF NewFetched
    <3>2. r <= m
      BY <1>1, <1>2, SizeAssumption DEF NewFilled
    <3> QED
      BY <1>2, <1>4, <3>1, <3>2, SizeAssumption
  <2>2. CASE ~stall /\ falsepred = << >>
    <3>1. (g = f + 1 /\ f < m) \/ g = f
      BY <1>5, <2>2 DEF NewFetched
    <3>2. f <= m
      BY <1>1, <2>2, SizeAssumption DEF NewFilled
    <3> QED
      BY <1>4, <3>1, <3>2, SizeAssumption
  <2> QED
    BY <2>1, <2>2
<1>7. pred_ptr' = At(m) /\ (pptr_flipped' # cptr_flipped <=> commit_ptr + m >= FTQ_SIZE)
  <2>1. CASE falsepred # << >>
    <3>1. pred_ptr' = At(r) /\ pptr_flipped' = FlipAt(At(r))
      BY <1>2, <2>1 DEF PredRing
    <3>2. CASE r = 0 /\ n = FTQ_SIZE
      <4>1. At(r) = pred_ptr /\ m = n
        BY <1>1, <2>1, <3>2, SizeAssumption DEF At, Place, Slots, NewFilled
      <4>2. ~(At(r) > pred_ptr)
        BY <1>1, <4>1, SizeAssumption DEF At, Place, Slots
      <4> QED
        BY <1>1, <3>1, <4>1, <4>2 DEF FlipAt
    <3>3. CASE ~(r = 0 /\ n = FTQ_SIZE)
      <4>1. m = r /\ r \in 0 .. n
        BY <1>1, <1>2, <2>1, <3>3, SizeAssumption DEF NewFilled
      <4>2. FlipAt(At(r)) # cptr_flipped <=> commit_ptr + r >= FTQ_SIZE
        BY <3>3, <4>1, FlipMeans
      <4> QED
        BY <3>1, <4>1, <4>2
    <3> QED
      BY <3>2, <3>3
  <2>2. CASE falsepred = << >> /\ DoPred(req)
    <3>1. n \in 0 .. FTQ_SIZE - 1 /\ m = n + 1
      BY <1>3, <2>2, SizeAssumption DEF NewFilled
    <3>2. pred_ptr' = After(pred_ptr) /\ pptr_flipped' = (pptr_flipped # Wraps(pred_ptr))
      BY <2>2 DEF PredRing
    <3>3. pred_ptr' = At(m)
      BY <1>1, <3>1, <3>2, PlaceNext DEF At
    <3>4. Wraps(pred_ptr) <=> (commit_ptr + n >= FTQ_SIZE) # (commit_ptr + m >= FTQ_SIZE)
      BY <1>1, <3>1, SizeAssumption DEF Wraps, At, Place, Slots
    <3> DEFINE w == Wraps(pred_ptr)
               late == commit_ptr + n >= FTQ_SIZE
               over == commit_ptr + m >= FTQ_SIZE
    <3>5. w \in BOOLEAN /\ late \in BOOLEAN /\ over \in BOOLEAN
      BY <1>1, <3>1, SizeAssumption DEF Wraps, Slots
    <3>6. /\ pptr_flipped' = (pptr_flipped # w) /\ (w <=> late # over)
          /\ (pptr_flipped # cptr_flipped <=> late)
          /\ pptr_flipped \in BOOLEAN /\ cptr_flipped \in BOOLEAN
      BY <1>1, <3>2, <3>4 DEF TypeOK
    <3> HIDE DEF w, late, over
    <3>7. pptr_flipped' # cptr_flipped <=> over
      BY <3>5, <3>6
    <3> QED
      BY <3>3, <3>7 DEF over
  <2>3. CASE falsepred = << >> /\ ~DoPred(req)
    BY <1>1, <2>3 DEF PredRing, NewFilled
  <2> QED
    BY <2>1, <2>2, <2>3
<1>8. fetch_ptr' = At(g)
  <2>1. CASE stall \/ falsepred # << >>
    BY <1>2, <2>1 DEF FetchRing, NewFetched
  <2>2. CASE ~(stall \/ falsepred # << >>) /\ DoFetch(req, stall) /\ rdy
    <3>1. f \in 0 .. FTQ_SIZE - 1 /\ g = f + 1
      BY <1>4, <1>5, <2>2, SizeAssumption DEF NewFetched
    <3>2. fetch_ptr' = After(fetch_ptr)
      BY <2>2 DEF FetchRing
    <3> QED
      BY <1>1, <3>1, <3>2, PlaceNext DEF At
  <2>3. CASE ~(stall \/ falsepred # << >>) /\ ~(DoFetch(req, stall) /\ rdy)
    BY <1>1, <2>3 DEF FetchRing, NewFetched
  <2> QED
    BY <2>1, <2>2, <2>3
<1>9. (buffer_vld \ Cleared(commit)) \union (IF DoPred(req) THEN {pred_ptr} ELSE {})
        = {At(o) : o \in 0 .. m - 1}
  <2>1. CASE falsepred # << >>
    <3>1. Cleared(commit) = From(At(r), At(n)) /\ ~DoPred(req)
      BY <1>1, <1>2, <1>3, <2>1 DEF Cleared
    <3>2. CASE At(r) = At(n)
      <4>1. From(At(r), At(n)) = {}
        <5>1. At(r) \in Int
          BY <1>1, <1>2, PlaceType, SizeAssumption DEF At, Slots
        <5> QED
          BY <3>2, <5>1 DEF From
      <4>2. m = n
        BY <1>1, <1>2, <2>1, <3>2, SizeAssumption DEF NewFilled, At, Place, Slots
      <4> QED
        BY <1>1, <3>1, <4>1, <4>2
    <3>3. CASE At(r) # At(n)
      <4>1. r \in 0 .. FTQ_SIZE - 1 /\ r <= n /\ n - r < FTQ_SIZE /\ m = r
        BY <1>1, <1>2, <2>1, <3>3, SizeAssumption DEF NewFilled, At, Place, Slots
      <4>2. From(At(r), At(n)) = {At(o) : o \in r .. n - 1}
        BY <1>1, <4>1, FromPlaces DEF At
      <4>3. ASSUME NEW o \in 0 .. r - 1, NEW p \in r .. n - 1 PROVE At(o) # At(p)
        <5>1. o \in 0 .. FTQ_SIZE - 1 /\ p \in 0 .. FTQ_SIZE - 1 /\ o # p
          BY <4>1, SizeAssumption
        <5> QED
          BY <1>1, <5>1, PlaceOnce DEF At
      <4>4. 0 .. n - 1 = (0 .. r - 1) \union (r .. n - 1)
        BY <4>1, SizeAssumption
      <4> QED
        BY <1>1, <3>1, <4>1, <4>2, <4>3, <4>4
    <3> QED
      BY <3>2, <3>3
  <2>2. CASE falsepred = << >>
    <3>1. Cleared(commit) = {}
      BY <2>2 DEF Cleared
    <3>2. CASE DoPred(req)
      <4>1. m = n + 1 /\ 0 .. n = (0 .. n - 1) \union {n} /\ m - 1 = n
        BY <2>2, <3>2, SizeAssumption DEF NewFilled
      <4> QED
        BY <1>1, <3>1, <3>2, <4>1
    <3>3. CASE ~DoPred(req)
      BY <1>1, <2>2, <3>1, <3>3 DEF NewFilled
    <3> QED
      BY <3>2, <3>3
  <2> QED
    BY <2>1, <2>2
<1> QED
  BY <1>3, <1>4, <1>5, <1>6, <1>7, <1>8, <1>9

-----------------------------------------------------------------------------
(* The fetcher and the backend through a cycle without a squash. *)

\* where fetching went on, and the first block not delivered, after a cycle
NewRefetch(f, req, rdy, stall) == NewFetched(f, req, rdy, stall) - Len(s1') - Len(s2')
NewUndelivered(f, req, rdy, stall) == NewRefetch(f, req, rdy, stall) - Len(new_inst')

\* The fetcher again holds the last blocks asked for, and what it has passed on
\* is what the instruction buffer took.
LEMMA StagesMove ==
  ASSUME TypeOK, NEW n \in 0 .. FTQ_SIZE, NEW f \in 0 .. FTQ_SIZE, Pointers(n, f), Stages(f),
         ~Squashed, NEW req \in BOOLEAN, NEW rdy \in BOOLEAN, NEW stall \in BOOLEAN,
         NEW bad \in BOOLEAN, Fetcher(req, rdy, stall, bad)
  PROVE  LET g == NewFetched(f, req, rdy, stall)
             u == NewUndelivered(f, req, rdy, stall)
         IN /\ {s1', s2', new_inst', falsepred'} \subseteq AtMostOne
            /\ u \in Undelivered(f) + Len(Delivered(stall)) .. g
            /\ falsepred = << >> => u = Undelivered(f) + Len(Delivered(stall))
            /\ falsepred # << >> => u = Refetch(f)
            /\ s1' # << >> => s1'[1].idx = At(g - 1)
            /\ s2' # << >> => s2'[1].idx = At(NewRefetch(f, req, rdy, stall))
            /\ new_inst' # << >> => new_inst'[1].idx = At(u)
            /\ Delivered(stall) \in AtMostOne
            /\ Delivered(stall) # << >> => Delivered(stall)[1].idx = At(Undelivered(f))
<1> DEFINE g == NewFetched(f, req, rdy, stall)
           u == NewUndelivered(f, req, rdy, stall)
           r == NewRefetch(f, req, rdy, stall)
           d == Delivered(stall)
<1>1. /\ s1 \in AtMostOne /\ s2 \in AtMostOne /\ new_inst \in AtMostOne /\ falsepred \in AtMostOne
      /\ << >> \in AtMostOne /\ Len(<< >>) = 0
  BY DEF TypeOK, AtMostOne
<1>2. /\ Refetch(f) \in 0 .. f /\ Undelivered(f) \in 0 .. Refetch(f)
      /\ Refetch(f) = Undelivered(f) + Len(new_inst)
      /\ Len(s1) \in {0, 1} /\ Len(s2) \in {0, 1} /\ Len(new_inst) \in {0, 1}
      /\ f = Refetch(f) + Len(s2) + Len(s1)
  BY StageCounts
<1>3. d \in AtMostOne /\ Len(d) \in {0, 1} /\ Len(d) <= Len(new_inst)
  <2>1. CASE stall
    <3>1. d = << >>
      BY <2>1 DEF Delivered
    <3> QED
      BY <1>1, <1>2, <3>1, StageFacts
  <2>2. CASE ~stall
    <3>1. d = new_inst
      BY <2>2 DEF Delivered
    <3> QED
      BY <1>1, <1>2, <3>1
  <2> QED
    BY <2>1, <2>2
<1>4. d # << >> => d[1].idx = At(Undelivered(f))
  BY DEF Delivered, Stages
<1>5. CASE falsepred # << >>
  <2>1. s1' = << >> /\ s2' = << >> /\ new_inst' = << >> /\ falsepred' = << >>
    BY <1>5 DEF Fetcher
  <2>2. g = Refetch(f)
    BY <1>5 DEF NewFetched
  <2>3. Len(s1') = 0 /\ Len(s2') = 0 /\ Len(new_inst') = 0
    BY <1>1, <2>1
  <2>4. r = (g - Len(s1')) - Len(s2') /\ u = r - Len(new_inst')
    BY DEF NewRefetch, NewUndelivered
  <2>5. u = Refetch(f)
    BY <1>2, <2>2, <2>3, <2>4, SizeAssumption
  <2>6. u \in Undelivered(f) + Len(d) .. g
    BY <1>2, <1>3, <2>2, <2>5, SizeAssumption
  <2> QED
    BY <1>1, <1>3, <1>4, <1>5, <2>1, <2>5, <2>6
<1>6. CASE falsepred = << >> /\ stall
  <2>1. /\ s1' = << >> /\ s2' = << >> /\ new_inst' = new_inst
        /\ falsepred' = IF bad THEN s2 ELSE << >>
    BY <1>6 DEF Fetcher
  <2>2. g = Refetch(f) /\ d = << >>
    BY <1>6 DEF NewFetched, Delivered
  <2>3. Len(s1') = 0 /\ Len(s2') = 0 /\ Len(new_inst') = Len(new_inst) /\ Len(d) = 0
    BY <1>1, <2>1, <2>2
  <2>4. r = (g - Len(s1')) - Len(s2') /\ u = r - Len(new_inst')
    BY DEF NewRefetch, NewUndelivered
  <2>5. u = Undelivered(f) /\ u = Undelivered(f) + Len(d)
    BY <1>2, <2>2, <2>3, <2>4, SizeAssumption
  <2>6. u \in Undelivered(f) + Len(d) .. g
    BY <1>2, <1>3, <2>2, <2>5, SizeAssumption
  <2>7. new_inst' # << >> => new_inst'[1].idx = At(u)
    BY <2>1, <2>5 DEF Stages
  <2>8. falsepred' \in AtMostOne
    BY <1>1, <2>1
  <2> QED
    BY <1>1, <1>3, <1>4, <1>6, <2>1, <2>5, <2>6, <2>7, <2>8
<1>7. CASE falsepred = << >> /\ ~stall
  <2>1. /\ s1' = IF DoFetch(req, stall) /\ rdy THEN <<Asked(req)>> ELSE << >>
        /\ s2' = s1 /\ new_inst' = s2 /\ falsepred' = IF bad THEN s2 ELSE << >>
    BY <1>7 DEF Fetcher
  <2>2. d = new_inst
    BY <1>7 DEF Delivered
  <2>3. g = f + Len(s1') /\ s1' \in AtMostOne /\ (s1' # << >> => s1'[1].idx = At(f) /\ g = f + 1)
    <3>1. CASE DoFetch(req, stall) /\ rdy
      <4>1. s1' = <<Asked(req)>> /\ g = f + 1
        BY <1>7, <2>1, <3>1 DEF NewFetched
      <4>2. Asked(req) \in Blocks /\ Asked(req).idx = fetch_ptr
        <5>1. /\ fetch_ptr \in Slots /\ next \in 0 .. POS - 1
              /\ buf_baseInfo[fetch_ptr] \in 0 .. POS - 1
          BY DEF TypeOK
        <5> QED
          BY <5>1, BlockType DEF Asked
      <4>3. fetch_ptr = At(f)
        BY DEF Pointers
      <4>4. Len(s1') = 1 /\ s1'[1] = Asked(req)
        BY <4>1
      <4>5. s1' \in AtMostOne
        BY <4>1, <4>2 DEF AtMostOne
      <4> QED
        BY <4>1, <4>2, <4>3, <4>4, <4>5
    <3>2. CASE ~(DoFetch(req, stall) /\ rdy)
      <4>1. s1' = << >> /\ g = f
        BY <1>7, <2>1, <3>2 DEF NewFetched
      <4> QED
        BY <1>1, <4>1, SizeAssumption
    <3> QED
      BY <3>1, <3>2
  <2>4. r = (g - Len(s1')) - Len(s2') /\ u = r - Len(new_inst')
    BY DEF NewRefetch, NewUndelivered
  <2>5. Len(s1') \in {0, 1} /\ Len(s2') = Len(s1) /\ Len(new_inst') = Len(s2) /\ Len(d) = Len(new_inst)
    BY <2>1, <2>2, <2>3, StageFacts
  <2>6. r = f - Len(s1) /\ u = Refetch(f) /\ u = Undelivered(f) + Len(d) /\ u <= g
    BY <1>2, <2>3, <2>4, <2>5, SizeAssumption, SMTT(30)
  <2>7. s1' # << >> => s1'[1].idx = At(g - 1)
    <3>1. ASSUME s1' # << >> PROVE s1'[1].idx = At(f) /\ g - 1 = f
      BY <2>3, <3>1, SizeAssumption
    <3> QED
      BY <3>1
  <2>8. s2' # << >> => s2'[1].idx = At(r)
    <3>1. s1 # << >> => Len(s1) = 1
      BY <1>1, StageFacts
    <3>2. s1 # << >> => r = f - 1
      BY <2>6, <3>1
    <3> QED
      BY <2>1, <3>2 DEF Stages
  <2>9. new_inst' # << >> => new_inst'[1].idx = At(u)
    BY <2>1, <2>6 DEF Stages
  <2>10. falsepred' \in AtMostOne /\ s2' \in AtMostOne /\ new_inst' \in AtMostOne
    BY <1>1, <2>1
  <2>11. u \in Undelivered(f) + Len(d) .. g
    BY <1>2, <1>3, <2>3, <2>5, <2>6, SizeAssumption
  <2> QED
    BY <1>3, <1>4, <1>7, <2>3, <2>6, <2>7, <2>8, <2>9, <2>10, <2>11
<1> QED
  BY <1>5, <1>6, <1>7

\* What is left of a list of blocks from place k on, and one more block.
LEMMA ListMoves ==
  ASSUME NEW b \in Seq(Blocks), NEW k \in 1 .. Len(b) + 1, NEW x \in AtMostOne
  PROVE  LET y == SubSeq(b, k, Len(b)) \o x
             l == Len(b) + 1 - k
         IN /\ y \in Seq(Blocks) /\ l \in Nat /\ Len(y) = l + Len(x)
            /\ \A j \in 1 .. l : y[j] = b[j + k - 1]
            /\ x # << >> => y[l + 1] = x[1]
<1> DEFINE l == Len(b) + 1 - k
           a == SubSeq(b, k, Len(b))
<1>1. Len(b) \in Nat /\ l \in Nat /\ x \in Seq(Blocks) /\ Len(x) \in {0, 1}
  BY StageFacts
<1>2. a \in Seq(Blocks) /\ Len(a) = l /\ \A j \in 1 .. l : a[j] = b[j + k - 1]
  <2>1. k..Len(b) \subseteq DOMAIN b
    BY <1>1
  <2> QED
    BY <1>1, <2>1
<1>3. /\ a \o x \in Seq(Blocks) /\ Len(a \o x) = Len(a) + Len(x)
      /\ \A i \in 1 .. Len(a) + Len(x) : (a \o x)[i] = IF i <= Len(a) THEN a[i] ELSE x[i - Len(a)]
  BY <1>1, <1>2, ConcatProperties
<1> HIDE DEF a
<1>4. ASSUME NEW j \in 1 .. l PROVE (a \o x)[j] = b[j + k - 1]
  <2>1. j \in 1 .. Len(a) + Len(x) /\ j <= Len(a)
    BY <1>1, <1>2
  <2> QED
    BY <1>2, <1>3, <2>1
<1>5. x # << >> => (a \o x)[l + 1] = x[1]
  <2>1. ASSUME x # << >> PROVE Len(x) = 1
    BY <2>1, StageFacts
  <2>2. ASSUME x # << >>
        PROVE  l + 1 \in 1 .. Len(a) + Len(x) /\ ~(l + 1 <= Len(a)) /\ (l + 1) - Len(a) = 1
    BY <1>1, <1>2, <2>1, <2>2
  <2> QED
    BY <1>3, <2>2
<1>6. a \o x \in Seq(Blocks) /\ Len(a \o x) = l + Len(x)
  BY <1>2, <1>3
<1> QED
  BY <1>1, <1>4, <1>5, <1>6 DEF a

\* the branch of a block is still to be executed
Open(b) == ~b.wrote

\* Write-backs change nothing but what they record.
LEMMA ExecutedFacts ==
  ASSUME TypeOK, NEW S \in SUBSET Unwritten, NEW m \in BOOLEAN
  PROVE  /\ Executed(S, m) \in Seq(Blocks) /\ Len(Executed(S, m)) = Len(back)
         /\ \A j \in DOMAIN back :
              /\ Executed(S, m)[j].idx = back[j].idx /\ Executed(S, m)[j].pos = back[j].pos
              /\ Open(Executed(S, m)[j]) => j \in Unwritten /\ j \notin S
<1>1. Len(back) \in Nat /\ DOMAIN back = 1 .. Len(back)
  BY BackFacts
<1>2. ASSUME NEW j \in DOMAIN back
      PROVE  /\ Executed(S, m)[j] \in Blocks
             /\ Executed(S, m)[j].idx = back[j].idx /\ Executed(S, m)[j].pos = back[j].pos
             /\ Open(Executed(S, m)[j]) => j \in Unwritten /\ j \notin S
  <2>1. back[j] \in Blocks
    BY BackFacts
  <2>2. CASE j \in S
    <3>1. Executed(S, m)[j] = [back[j] EXCEPT !.wrote = TRUE, !.mispred = m]
      BY <2>2 DEF Executed
    <3> QED
      BY <2>1, <2>2, <3>1 DEF Blocks, Open
  <2>3. CASE j \notin S
    <3>1. Executed(S, m)[j] = back[j]
      BY <2>3 DEF Executed
    <3> QED
      BY <2>1, <2>3, <3>1 DEF Unwritten, Open
  <2> QED
    BY <2>2, <2>3
<1>3. Executed(S, m) = [j \in 1 .. Len(back) |-> Executed(S, m)[j]]
  BY <1>1 DEF Executed
<1>4. Executed(S, m) \in Seq(Blocks) /\ Len(Executed(S, m)) = Len(back)
  <2> DEFINE e == Executed(S, m)
  <2>1. e = [j \in 1 .. Len(back) |-> e[j]] /\ \A j \in 1 .. Len(back) : e[j] \in Blocks
    BY <1>1, <1>2, <1>3
  <2> HIDE DEF e
  <2>2. e \in [1 .. Len(back) -> Blocks]
    BY <2>1
  <2>3. e \in Seq(Blocks) /\ Len(e) = Len(back)
    BY <1>1, <2>2
  <2> QED
    BY <2>3 DEF e
<1> QED
  BY <1>2, <1>4

-----------------------------------------------------------------------------
(* From the places counted from where commit_ptr was to those counted from *)
(* where it is.                                                            *)

\* how far commit_ptr moves
Leaves == IF DoCommit THEN 1 ELSE 0

\* The commit pointer moves by what leaves.
LEMMA CommitMoves ==
  ASSUME TypeOK, NEW req, NEW commit, CommitRing(req, commit), NEW d, d = Leaves
  PROVE  /\ d \in {0, 1} /\ (d = 1 <=> DoCommit) /\ commit_ptr \in Slots /\ commit_ptr' \in Slots
         /\ commit_ptr' = (IF d = 1 THEN After(commit_ptr) ELSE commit_ptr)
         /\ \A o \in d .. FTQ_SIZE : Place(commit_ptr', o - d) = At(o)
         /\ \A x \in Slots : Off(x) >= d => Behind(commit_ptr', x) = Off(x) - d
<1>1. /\ d \in {0, 1} /\ (d = 1 <=> DoCommit) /\ commit_ptr \in Slots
      /\ commit_ptr' = (IF d = 1 THEN After(commit_ptr) ELSE commit_ptr)
  BY DEF TypeOK, CommitRing, Leaves
<1>2. /\ commit_ptr' \in Slots
      /\ \A o \in d .. FTQ_SIZE : Place(commit_ptr', o - d) = Place(commit_ptr, o)
      /\ \A x \in Slots : Behind(commit_ptr, x) >= d => Behind(commit_ptr', x) = Behind(commit_ptr, x) - d
  BY <1>1, Shift
<1> QED
  BY <1>1, <1>2 DEF At, Off

\* The pointers.
LEMMA RebasePointers ==
  ASSUME TypeOK, NEW req, NEW commit, CommitRing(req, commit),
         NEW d, d = Leaves, NEW m \in d .. FTQ_SIZE, NEW g \in d .. m, NEW w \in d .. m,
         pred_ptr' = At(m), pptr_flipped' # cptr_flipped <=> commit_ptr + m >= FTQ_SIZE,
         pptr_flipped' \in BOOLEAN, fetch_ptr' = At(g), commit_ptr_thre' = At(w),
         (buffer_vld \ Cleared(commit)) \union (IF ~Squashed /\ DoPred(req) THEN {pred_ptr} ELSE {})
           = {At(o) : o \in 0 .. m - 1}
  PROVE  /\ Pointers(m - d, g - d)'
         /\ Off(commit_ptr_thre)' <= w - d
         /\ {commit_ptr', pred_ptr', fetch_ptr', commit_ptr_thre'} \subseteq Slots
         /\ cptr_flipped' \in BOOLEAN /\ buffer_vld' \subseteq Slots
<1>1. /\ d \in {0, 1} /\ (d = 1 <=> DoCommit) /\ commit_ptr \in Slots /\ commit_ptr' \in Slots
      /\ commit_ptr' = (IF d = 1 THEN After(commit_ptr) ELSE commit_ptr)
      /\ \A o \in d .. FTQ_SIZE : Place(commit_ptr', o - d) = At(o)
      /\ \A x \in Slots : Off(x) >= d => Behind(commit_ptr', x) = Off(x) - d
  BY CommitMoves
<1>2. d \in {0, 1} /\ (d = 1 <=> DoCommit) /\ cptr_flipped \in BOOLEAN
  BY <1>1 DEF TypeOK
<1>3. /\ pred_ptr' = Place(commit_ptr', m - d) /\ fetch_ptr' = Place(commit_ptr', g - d)
      /\ commit_ptr_thre' = Place(commit_ptr', w - d)
  <2>1. m \in d .. FTQ_SIZE /\ g \in d .. FTQ_SIZE /\ w \in d .. FTQ_SIZE
    BY <1>2, SizeAssumption
  <2> QED
    BY <1>1, <2>1
<1>4. commit_ptr' \in Slots
  BY <1>1
<1>5. pptr_flipped' # cptr_flipped' <=> commit_ptr' + (m - d) >= FTQ_SIZE
  <2>1. CASE d = 0
    <3>1. cptr_flipped' = cptr_flipped /\ commit_ptr' = commit_ptr /\ m - d = m
      <4>1. ~DoCommit
        BY <1>2, <2>1
      <4>2. cptr_flipped' = (cptr_flipped # (DoCommit /\ Wraps(commit_ptr)))
        BY DEF CommitRing
      <4>3. cptr_flipped' = cptr_flipped
        BY <1>2, <4>1, <4>2
      <4> QED
        BY <1>1, <1>2, <2>1, <4>3, SizeAssumption
    <3> QED
      BY <3>1
  <2>2. CASE d = 1
    <3> DEFINE wr == Wraps(commit_ptr)
               over == commit_ptr + m >= FTQ_SIZE
               now == commit_ptr' + (m - d) >= FTQ_SIZE
    <3>1. commit_ptr' = After(commit_ptr) /\ m \in 1 .. FTQ_SIZE /\ m - d = m - 1
      BY <1>1, <1>2, <2>2, SizeAssumption
    <3>2. now <=> over # wr
      BY <1>1, <3>1, PlaceShift
    <3>3. cptr_flipped' = (cptr_flipped # wr)
      <4>1. cptr_flipped' = (cptr_flipped # (DoCommit /\ Wraps(commit_ptr)))
        BY DEF CommitRing
      <4>2. DoCommit /\ wr \in BOOLEAN
        BY <1>2, <2>2 DEF Wraps
      <4>3. (DoCommit /\ Wraps(commit_ptr)) = wr
        BY <4>2
      <4> QED
        BY <4>1, <4>3
    <3>4. wr \in BOOLEAN /\ over \in BOOLEAN /\ now \in BOOLEAN
      BY <1>1, <1>4, <3>1, SizeAssumption DEF Wraps, Slots
    <3>5. pptr_flipped' # cptr_flipped <=> over
      OBVIOUS
    <3> HIDE DEF wr, over, now
    <3>6. pptr_flipped' # cptr_flipped' <=> now
      BY <1>2, <3>2, <3>3, <3>4, <3>5
    <3> QED
      BY <3>6 DEF now
  <2> QED
    BY <1>2, <2>1, <2>2
<1>6. buffer_vld' = {Place(commit_ptr', o) : o \in 0 .. (m - d) - 1}
  <2>1. buffer_vld' = {At(o) : o \in 0 .. m - 1} \ (IF d = 1 THEN {commit_ptr} ELSE {})
    BY <1>2 DEF CommitRing
  <2>2. CASE d = 0
    <3>1. ASSUME NEW o \in 0 .. m - 1 PROVE Place(commit_ptr', o) = At(o)
      BY <1>1, <2>2 DEF At
    <3>2. (m - d) - 1 = m - 1
      BY <1>2, <2>2, SizeAssumption
    <3> QED
      BY <2>1, <2>2, <3>1, <3>2
  <2>3. CASE d = 1
    <3>1. At(0) = commit_ptr /\ m >= 1
      BY <1>1, <1>2, <2>3, SizeAssumption DEF At, Place, Slots
    <3>2. ASSUME NEW o \in 1 .. m - 1 PROVE At(o) # commit_ptr /\ At(o) = Place(commit_ptr', o - 1) /\ o - 1 \in 0 .. (m - d) - 1
      <4>1. o \in 0 .. FTQ_SIZE - 1 /\ 0 \in 0 .. FTQ_SIZE - 1 /\ o # 0 /\ o \in 1 .. FTQ_SIZE
        BY <3>1, SizeAssumption
      <4>2. At(o) # At(0)
        BY <1>1, <4>1, PlaceOnce DEF At
      <4>3. Place(commit_ptr', o - 1) = At(o)
        BY <1>1, <1>2, <2>3, <4>1
      <4> QED
        BY <1>2, <2>3, <3>1, <4>2, <4>3, SizeAssumption
    <3>3. ASSUME NEW o \in 0 .. (m - d) - 1 PROVE o + 1 \in 1 .. m - 1 /\ Place(commit_ptr', o) = At(o + 1)
      <4>1. o + 1 \in 1 .. m - 1 /\ o + 1 \in 1 .. FTQ_SIZE /\ (o + 1) - 1 = o
        BY <2>3, SizeAssumption
      <4>2. Place(commit_ptr', (o + 1) - 1) = At(o + 1)
        BY <1>1, <1>2, <2>3, <4>1
      <4> QED
        BY <4>1, <4>2
    <3>4. {At(o) : o \in 0 .. m - 1} \ {commit_ptr} = {At(o) : o \in 1 .. m - 1}
      <4>1. 0 .. m - 1 = {0} \union (1 .. m - 1)
        BY <3>1, SizeAssumption
      <4> QED
        BY <3>1, <3>2, <4>1
    <3>5. {At(o) : o \in 1 .. m - 1} = {Place(commit_ptr', o) : o \in 0 .. (m - d) - 1}
      BY <3>2, <3>3
    <3> QED
      BY <2>1, <2>3, <3>4, <3>5
  <2> QED
    BY <1>2, <2>2, <2>3
<1>7. Off(commit_ptr_thre)' <= w - d
  <2>1. w - d \in 0 .. FTQ_SIZE
    BY <1>2, SizeAssumption
  <2>2. CASE w - d = FTQ_SIZE
    <3>1. commit_ptr_thre' \in Slots
      BY <1>3, <1>4, <2>1, PlaceType
    <3>2. Behind(commit_ptr', commit_ptr_thre') \in 0 .. FTQ_SIZE - 1
      BY <1>4, <3>1, PlaceBehind
    <3> QED
      BY <2>2, <3>2, SizeAssumption DEF Off
  <2>3. CASE w - d # FTQ_SIZE
    <3>1. w - d \in 0 .. FTQ_SIZE - 1 /\ commit_ptr_thre' = Place(commit_ptr', w - d)
      BY <1>3, <2>1, <2>3, SizeAssumption
    <3>2. Behind(commit_ptr', commit_ptr_thre') = w - d
      BY <1>4, <3>1, BehindPlace
    <3> QED
      BY <3>1, <3>2, SizeAssumption DEF Off
  <2> QED
    BY <2>2, <2>3
<1>8. {pred_ptr', fetch_ptr', commit_ptr_thre'} \subseteq Slots
  BY <1>1, <1>2, PlaceType, SizeAssumption DEF At
<1>9. buffer_vld' \subseteq Slots
  <2>1. ASSUME NEW o \in 0 .. (m - d) - 1 PROVE Place(commit_ptr', o) \in Slots
    BY <1>2, <1>4, PlaceType, SizeAssumption
  <2> QED
    BY <1>6, <2>1
<1>10. cptr_flipped' \in BOOLEAN
  BY <1>2 DEF CommitRing
<1>11. m - d \in Int /\ g - d \in Int /\ g - d <= m - d /\ w - d <= m - d
       /\ Off(commit_ptr_thre)' \in Int
  <2>1. Off(commit_ptr_thre)' \in Int
    BY <1>4, <1>8, PlaceBehind DEF Off
  <2> QED
    BY <1>2, <2>1, SizeAssumption
<1>12. Off(commit_ptr_thre)' <= m - d
  BY <1>2, <1>7, <1>11, SizeAssumption
<1>13. Pointers(m - d, g - d)'
  <2>1. /\ pred_ptr' = At(m - d)' /\ fetch_ptr' = At(g - d)'
        /\ buffer_vld' = {At(o)' : o \in 0 .. (m - d) - 1}
    BY <1>3, <1>6 DEF At
  <2> QED
    BY <1>5, <1>11, <1>12, <2>1 DEF Pointers
<1> QED
  BY <1>2, <1>4, <1>7, <1>8, <1>9, <1>10, <1>13

\* The positions to come after a cycle, by the old places.
Then(m, o) == IF o = m THEN next' ELSE buf_baseInfo'[At(o)]

\* The fetcher.
LEMMA RebaseStages ==
  ASSUME TypeOK, {s1', s2', new_inst'} \subseteq AtMostOne,
         NEW req, NEW commit, CommitRing(req, commit), NEW d, d = Leaves,
         NEW g \in d .. FTQ_SIZE, NEW u \in d .. g,
         u = ((g - Len(s1')) - Len(s2')) - Len(new_inst'),
         s1' # << >> => s1'[1].idx = At(g - 1),
         s2' # << >> => s2'[1].idx = At((g - Len(s1')) - Len(s2')),
         new_inst' # << >> => new_inst'[1].idx = At(u)
  PROVE  /\ Stages(g - d)'
         /\ Undelivered(g - d)' = u - d /\ Refetch(g - d)' = ((g - d) - Len(s1')) - Len(s2')
<1>1. d \in {0, 1} /\ \A o \in d .. FTQ_SIZE : Place(commit_ptr', o - d) = At(o)
  BY CommitMoves
<1> DEFINE a == Len(s1')
           b == Len(s2')
           c == Len(new_inst')
<1>2. /\ a \in {0, 1} /\ b \in {0, 1} /\ c \in {0, 1}
      /\ (s1' # << >> => a = 1) /\ (s2' # << >> => b = 1) /\ (new_inst' # << >> => c = 1)
  BY StageFacts
<1>3. u = ((g - a) - b) - c /\ (s2' # << >> => s2'[1].idx = At((g - a) - b))
  OBVIOUS
<1>4. Refetch(g - d)' = ((g - d) - a) - b /\ Undelivered(g - d)' = (((g - d) - a) - b) - c
  BY DEF Refetch, Undelivered
<1> HIDE DEF a, b, c
<1>5. Undelivered(g - d)' = u - d /\ u - d >= 0 /\ Refetch(g - d)' = ((g - a) - b) - d
  BY <1>1, <1>2, <1>3, <1>4, SizeAssumption
<1>6. ASSUME s1' # << >> PROVE s1'[1].idx = At((g - d) - 1)'
  <2>1. g - 1 \in d .. FTQ_SIZE /\ (g - d) - 1 = (g - 1) - d
    BY <1>1, <1>2, <1>3, <1>6, SizeAssumption
  <2>2. Place(commit_ptr', (g - 1) - d) = At(g - 1)
    BY <1>1, <2>1
  <2> QED
    BY <1>6, <2>1, <2>2 DEF At
<1>7. ASSUME s2' # << >> PROVE s2'[1].idx = Place(commit_ptr', ((g - a) - b) - d)
  <2>1. (g - a) - b \in d .. FTQ_SIZE
    BY <1>1, <1>2, <1>3, SizeAssumption
  <2> QED
    BY <1>1, <1>3, <1>7, <2>1
<1>8. ASSUME new_inst' # << >> PROVE new_inst'[1].idx = Place(commit_ptr', u - d)
  <2>1. u \in d .. FTQ_SIZE
    BY <1>1, SizeAssumption
  <2> QED
    BY <1>1, <1>8, <2>1
<1>9. Stages(g - d)'
  <2>1. /\ Undelivered(g - d)' >= 0
        /\ s1' # << >> => s1'[1].idx = At((g - d) - 1)'
        /\ s2' # << >> => s2'[1].idx = Place(commit_ptr', Refetch(g - d)')
        /\ new_inst' # << >> => new_inst'[1].idx = Place(commit_ptr', Undelivered(g - d)')
    BY <1>5, <1>6, <1>7, <1>8
  <2> QED
    BY <2>1 DEF Stages, At
<1> QED
  BY <1>4, <1>5, <1>9 DEF a, b

\* The backend, and what branches have written.
LEMMA RebaseBackend ==
  ASSUME TypeOK, TypeOK', NEW req, NEW commit, CommitRing(req, commit), NEW d, d = Leaves,
         NEW m \in d .. FTQ_SIZE, NEW g \in d .. m, NEW u \in d .. g, NEW w \in d .. m,
         Undelivered(g - d)' = u - d, Off(commit_ptr_thre)' <= w - d,
         \A j \in DOMAIN back' : Off(back'[j].idx) \in d .. u - 1,
         \A i, j \in DOMAIN back' : i < j => Off(back'[i].idx) < Off(back'[j].idx),
         squash' # "mispred" => w <= u /\ \A j \in DOMAIN back' : w <= Off(back'[j].idx),
         \A j \in Unwritten' : back'[j].idx \notin wasWrote',
         \A o \in u .. m - 1 : At(o) \notin wasWrote'
  PROVE  Backend(g - d)' /\ Fresh(m - d, g - d)'
<1>1. /\ d \in {0, 1} /\ \A o \in d .. FTQ_SIZE : Place(commit_ptr', o - d) = At(o)
      /\ \A x \in Slots : Off(x) >= d => Behind(commit_ptr', x) = Off(x) - d
  BY CommitMoves
<1>2. ASSUME NEW j \in DOMAIN back'
      PROVE  Behind(commit_ptr', back'[j].idx) = Off(back'[j].idx) - d /\ Off(back'[j].idx) \in d .. u - 1
  <2>1. back' \in Seq(Blocks)
    BY DEF TypeOK
  <2>2. back'[j] \in Blocks
    BY <1>2, <2>1
  <2>3. back'[j].idx \in Slots
    BY <2>2 DEF Blocks
  <2>4. Off(back'[j].idx) \in d .. u - 1
    BY <1>2
  <2>5. Off(back'[j].idx) >= d
    BY <1>1, <2>4, SizeAssumption
  <2> QED
    BY <1>1, <2>3, <2>4, <2>5
<1>3. Off(commit_ptr_thre)' \in Int
  <2>1. commit_ptr' \in Slots /\ commit_ptr_thre' \in Slots
    BY DEF TypeOK
  <2> QED
    BY <2>1, PlaceBehind DEF Off
<1>4. \A j \in DOMAIN back' : Behind(commit_ptr', back'[j].idx) < u - d
  <2> SUFFICES ASSUME NEW j \in DOMAIN back' PROVE Behind(commit_ptr', back'[j].idx) < u - d
    OBVIOUS
  <2> QED
    BY <1>1, <1>2, SizeAssumption
<1>5. \A i, j \in DOMAIN back' : i < j => Behind(commit_ptr', back'[i].idx) < Behind(commit_ptr', back'[j].idx)
  <2> SUFFICES ASSUME NEW i \in DOMAIN back', NEW j \in DOMAIN back', i < j
               PROVE  Behind(commit_ptr', back'[i].idx) < Behind(commit_ptr', back'[j].idx)
    OBVIOUS
  <2>1. Off(back'[i].idx) < Off(back'[j].idx)
    OBVIOUS
  <2> QED
    BY <1>1, <1>2, <2>1, SizeAssumption
<1>6. ASSUME squash' # "mispred"
      PROVE  /\ Off(commit_ptr_thre)' <= u - d
             /\ \A j \in DOMAIN back' : Off(commit_ptr_thre)' <= Behind(commit_ptr', back'[j].idx)
  <2>1. w <= u
    BY <1>6
  <2>2. Off(commit_ptr_thre)' <= u - d
    BY <1>1, <1>3, <2>1, SizeAssumption
  <2>3. ASSUME NEW j \in DOMAIN back' PROVE Off(commit_ptr_thre)' <= Behind(commit_ptr', back'[j].idx)
    <3>1. w <= Off(back'[j].idx)
      BY <1>6
    <3> QED
      BY <1>1, <1>2, <1>3, <3>1, SizeAssumption
  <2> QED
    BY <2>2, <2>3
<1>7. Backend(g - d)'
  BY <1>4, <1>5, <1>6 DEF Backend, Off
<1>8. ASSUME NEW o \in u - d .. (m - d) - 1 PROVE Place(commit_ptr', o) \notin wasWrote'
  <2>1. o + d \in u .. m - 1 /\ o + d \in d .. FTQ_SIZE /\ (o + d) - d = o
    BY <1>1, SizeAssumption
  <2>2. Place(commit_ptr', (o + d) - d) = At(o + d)
    BY <1>1, <2>1
  <2> QED
    BY <2>1, <2>2
<1>9. Fresh(m - d, g - d)'
  BY <1>8 DEF Fresh, At
<1> QED
  BY <1>7, <1>9

\* The order of the blocks.
LEMMA RebaseStream ==
  ASSUME TypeOK, NEW req, NEW commit, CommitRing(req, commit), NEW d, d = Leaves,
         NEW m \in d .. FTQ_SIZE, NEW g \in d .. m, NEW u \in d .. g,
         Undelivered(g - d)' = u - d,
         ~lost' => IF falsepred' = << >>
                   THEN /\ Then(m, u) = want'
                        /\ \A o \in u .. m - 1 : Then(m, o + 1) = Following(Then(m, o))
                   ELSE falsepred' = new_inst' /\ new_inst'[1].pos = want'
  PROVE  Stream(m - d, g - d)'
<1>1. d \in {0, 1} /\ \A o \in d .. FTQ_SIZE : Place(commit_ptr', o - d) = At(o)
  BY CommitMoves
<1>2. ASSUME NEW o \in u .. m PROVE Coming(m - d, o - d)' = Then(m, o)
  <2>1. o \in d .. FTQ_SIZE /\ (o - d = m - d <=> o = m)
    BY <1>1, SizeAssumption
  <2>2. Place(commit_ptr', o - d) = At(o)
    BY <1>1, <2>1
  <2> QED
    BY <2>1, <2>2 DEF Coming, Then, At
<1>3. ASSUME ~lost', falsepred' = << >>
      PROVE  /\ Coming(m - d, u - d)' = want'
             /\ \A o \in u - d .. (m - d) - 1 : Coming(m - d, o + 1)' = Following(Coming(m - d, o))'
  <2>1. Coming(m - d, u - d)' = want'
    <3>1. u \in u .. m
      BY <1>1, SizeAssumption
    <3> QED
      BY <1>2, <1>3, <3>1
  <2>2. ASSUME NEW o \in u - d .. (m - d) - 1
        PROVE  Coming(m - d, o + 1)' = Following(Coming(m - d, o))'
    <3>1. /\ o + d \in u .. m - 1 /\ o + d \in u .. m /\ (o + d) + 1 \in u .. m
          /\ (o + d) - d = o /\ ((o + d) + 1) - d = o + 1
      BY <1>1, SizeAssumption
    <3>2. Coming(m - d, (o + d) - d)' = Then(m, o + d) /\ Coming(m - d, ((o + d) + 1) - d)' = Then(m, (o + d) + 1)
      BY <1>2, <3>1
    <3>3. Then(m, (o + d) + 1) = Following(Then(m, o + d))
      BY <1>3, <3>1
    <3>4. Coming(m - d, o)' = Then(m, o + d) /\ Coming(m - d, o + 1)' = Then(m, (o + d) + 1)
      BY <3>1, <3>2
    <3> QED
      BY <3>3, <3>4 DEF Following
  <2> QED
    BY <2>1, <2>2
<1>4. (Undelivered(g - d) = u - d)'
  OBVIOUS
<1>5. ASSUME ~lost', falsepred' # << >> PROVE falsepred' = new_inst' /\ new_inst'[1].pos = want'
  BY <1>5
<1> QED
  BY <1>3, <1>4, <1>5 DEF Stream

-----------------------------------------------------------------------------
(* What the backend holds, what is written, and the order of the blocks,   *)
(* counted from where commit_ptr was.                                      *)

\* the blocks of the backend from place k on, and what is delivered
Passed(S, m, k, stall) == SubSeq(Executed(S, m), k, Len(back)) \o Delivered(stall)

\* Block by block: each was there, k - 1 places further, or is the one delivered.
Moved(S, k, stall) ==
  /\ back' \in Seq(Blocks)
  /\ \A j \in DOMAIN back' :
       \/ /\ j + k - 1 \in DOMAIN back
          /\ back'[j].idx = back[j + k - 1].idx /\ back'[j].pos = back[j + k - 1].pos
       \/ /\ Delivered(stall) # << >> /\ j + k - 1 = Len(back) + 1
          /\ back'[j] = Delivered(stall)[1]
  /\ \A j \in DOMAIN back' : Open(back'[j]) /\ j + k - 1 \in DOMAIN back
       => j + k - 1 \in Unwritten /\ j + k - 1 \notin S
  /\ k \in DOMAIN back => back' # << >>

\* The backend keeps its blocks from place k on, and gets what is delivered.
LEMMA BackMoves ==
  ASSUME TypeOK, NEW S \in SUBSET Unwritten, NEW m \in BOOLEAN, NEW k \in 1 .. Len(back) + 1,
         NEW stall \in BOOLEAN, back' = Passed(S, m, k, stall)
  PROVE  Moved(S, k, stall)
<1> DEFINE e == Executed(S, m)
           x == Delivered(stall)
           l == Len(e) + 1 - k
<1>1. /\ Len(back) \in Nat /\ DOMAIN back = 1 .. Len(back)
      /\ e \in Seq(Blocks) /\ Len(e) = Len(back)
      /\ \A j \in DOMAIN back : /\ e[j].idx = back[j].idx /\ e[j].pos = back[j].pos
                                /\ Open(e[j]) => j \in Unwritten /\ j \notin S
  BY BackFacts, ExecutedFacts
<1>2. /\ x \in AtMostOne /\ Len(x) \in Nat
      /\ x = << >> => Len(x) = 0
      /\ x # << >> => Len(x) = 1
  <2>1. x \in AtMostOne
    BY DEF Delivered, TypeOK, AtMostOne
  <2>2. ASSUME NEW y \in AtMostOne
        PROVE  Len(y) \in Nat /\ (y = << >> => Len(y) = 0) /\ (y # << >> => Len(y) = 1)
    BY StageFacts
  <2> QED
    BY <2>1, <2>2
<1>3. back' = SubSeq(e, k, Len(e)) \o x /\ k \in 1 .. Len(e) + 1
  BY <1>1 DEF Passed
<1> HIDE DEF e, x
<1>4. /\ back' \in Seq(Blocks) /\ l \in Nat /\ Len(back') = l + Len(x)
      /\ \A j \in 1 .. l : back'[j] = e[j + k - 1]
      /\ x # << >> => back'[l + 1] = x[1]
  <2> DEFINE y == SubSeq(e, k, Len(e)) \o x
  <2>1. /\ y \in Seq(Blocks) /\ l \in Nat /\ Len(y) = l + Len(x)
        /\ \A j \in 1 .. l : y[j] = e[j + k - 1]
        /\ x # << >> => y[l + 1] = x[1]
    BY <1>1, <1>2, <1>3, ListMoves
  <2>2. y = back'
    BY <1>3
  <2> HIDE DEF y
  <2> QED
    BY <2>1, <2>2
<1>5. ASSUME NEW j \in DOMAIN back', j <= l
      PROVE  /\ j + k - 1 \in DOMAIN back
             /\ back'[j].idx = back[j + k - 1].idx /\ back'[j].pos = back[j + k - 1].pos
             /\ Open(back'[j]) => j + k - 1 \in Unwritten /\ j + k - 1 \notin S
  <2>1. j \in 1 .. l /\ j + k - 1 \in DOMAIN back
    BY <1>1, <1>4, <1>5
  <2> QED
    BY <1>1, <1>4, <2>1
<1>6. ASSUME NEW j \in DOMAIN back', ~(j <= l)
      PROVE  x # << >> /\ j + k - 1 = Len(back) + 1 /\ back'[j] = x[1]
  <2>1. j \in 1 .. l + Len(x)
    BY <1>4
  <2>2. x # << >>
    BY <1>2, <1>4, <1>6, <2>1
  <2>3. j = l + 1
    <3>1. Len(x) = 1 /\ l \in Nat
      BY <1>2, <1>4, <2>2
    <3> QED
      BY <1>6, <2>1, <3>1
  <2>4. j + k - 1 = Len(back) + 1
    BY <1>1, <1>4, <2>3
  <2> QED
    BY <1>4, <2>2, <2>3, <2>4
<1>7. ASSUME NEW j \in DOMAIN back', Open(back'[j]), j + k - 1 \in DOMAIN back
      PROVE  j + k - 1 \in Unwritten /\ j + k - 1 \notin S
  <2>1. j <= l
    <3>1. ~(j + k - 1 = Len(back) + 1)
      BY <1>1, <1>7
    <3> QED
      BY <1>6, <3>1
  <2> QED
    BY <1>5, <1>7, <2>1
<1>8. ASSUME NEW j \in DOMAIN back'
      PROVE  \/ /\ j + k - 1 \in DOMAIN back
                /\ back'[j].idx = back[j + k - 1].idx /\ back'[j].pos = back[j + k - 1].pos
             \/ x # << >> /\ j + k - 1 = Len(back) + 1 /\ back'[j] = x[1]
  BY <1>5, <1>6
<1>9. ASSUME k \in DOMAIN back PROVE back' # << >>
  <2>1. l >= 1 /\ Len(x) \in Nat
    BY <1>1, <1>2, <1>9
  <2>2. Len(back') # 0
    BY <1>4, <2>1
  <2>3. Len(<< >>) = 0
    OBVIOUS
  <2> QED
    BY <2>2, <2>3
<1> QED
  BY <1>4, <1>7, <1>8, <1>9 DEF x, Moved

\* Its blocks are again in order, and no branch that is not executed has
\* written its entry.
LEMMA BackOrder ==
  ASSUME TypeOK, NEW n \in 0 .. FTQ_SIZE, NEW f \in 0 .. FTQ_SIZE, Shape(n, f),
         NEW S \in SUBSET Unwritten, NEW m \in BOOLEAN, NEW k \in 1 .. Len(back) + 1,
         NEW stall \in BOOLEAN, back' = Passed(S, m, k, stall)
  PROVE  /\ \A j \in DOMAIN back' : Off(back'[j].idx) \in 0 .. Undelivered(f) + Len(Delivered(stall)) - 1
         /\ \A i, j \in DOMAIN back' : i < j => Off(back'[i].idx) < Off(back'[j].idx)
         /\ k \in DOMAIN back => \A j \in DOMAIN back' : Off(back[k].idx) <= Off(back'[j].idx)
         /\ squash # "mispred" => \A j \in DOMAIN back' : Off(commit_ptr_thre) <= Off(back'[j].idx)
         /\ \A j \in DOMAIN back' : Open(back'[j]) => back'[j].idx \notin wasWrote \union EntriesOf(S)
         /\ \A o \in Undelivered(f) .. n - 1 : At(o) \notin wasWrote \union EntriesOf(S)
<1>0. Moved(S, k, stall)
  BY BackMoves
<1> DEFINE u == Undelivered(f)
           x == Delivered(stall)
<1>1. /\ Pointers(n, f) /\ Stages(f) /\ Backend(f) /\ Fresh(n, f)
      /\ commit_ptr \in Slots /\ Unwritten \subseteq DOMAIN back /\ f <= n
  BY DEF TypeOK, Shape, Unwritten, Pointers
<1>2. u \in 0 .. f /\ u + Len(new_inst) <= f /\ Len(new_inst) \in {0, 1}
  BY <1>1, StageCounts, SizeAssumption
<1>3. /\ Len(back) \in Nat /\ DOMAIN back = 1 .. Len(back)
      /\ \A j \in DOMAIN back : /\ Off(back[j].idx) \in 0 .. FTQ_SIZE - 1
                                /\ At(Off(back[j].idx)) = back[j].idx
                                /\ Off(back[j].idx) < u
  BY <1>1, BackFacts DEF Backend
<1>4. /\ x # << >> => Len(x) = 1 /\ u < n /\ x[1].idx = At(u) /\ Off(x[1].idx) = u
      /\ Len(x) \in {0, 1}
  <2>1. CASE stall
    BY <2>1 DEF Delivered
  <2>2. CASE ~stall
    <3>1. x = new_inst /\ new_inst \in AtMostOne
      BY <2>2 DEF Delivered, TypeOK
    <3>2. x # << >> => Len(x) = 1 /\ x[1].idx = At(u) /\ Len(new_inst) = 1
      BY <1>1, <3>1, StageFacts DEF Stages
    <3>3. x # << >> => u < n /\ u \in 0 .. FTQ_SIZE - 1
      BY <1>1, <1>2, <3>2, SizeAssumption
    <3>4. x # << >> => Off(x[1].idx) = u
      BY <1>1, <3>2, <3>3, BehindPlace DEF Off, At
    <3> QED
      BY <1>2, <3>1, <3>2, <3>3, <3>4
  <2> QED
    BY <2>1, <2>2
<1>5. ASSUME NEW j \in DOMAIN back'
      PROVE  \/ /\ j + k - 1 \in DOMAIN back
                /\ back'[j].idx = back[j + k - 1].idx
                /\ Open(back'[j]) => j + k - 1 \in Unwritten /\ j + k - 1 \notin S
             \/ /\ x # << >> /\ j + k - 1 = Len(back) + 1 /\ back'[j].idx = x[1].idx
  BY <1>0 DEF Moved
<1>6. DOMAIN back' \subseteq Nat
  <2>1. back' \in Seq(Blocks)
    BY <1>0 DEF Moved
  <2>2. DOMAIN back' = 1 .. Len(back') /\ Len(back') \in Nat
    BY <2>1
  <2> QED
    BY <2>2
<1> HIDE DEF x, u
<1>7. ASSUME NEW j \in DOMAIN back' PROVE Off(back'[j].idx) \in 0 .. u + Len(x) - 1
  <2>1. CASE j + k - 1 \in DOMAIN back /\ back'[j].idx = back[j + k - 1].idx
    BY <1>2, <1>3, <1>4, <2>1, SizeAssumption
  <2>2. CASE x # << >> /\ back'[j].idx = x[1].idx
    BY <1>2, <1>4, <2>2, SizeAssumption
  <2> QED
    BY <1>5, <2>1, <2>2
<1>8. ASSUME NEW i \in DOMAIN back', NEW j \in DOMAIN back', i < j
      PROVE  Off(back'[i].idx) < Off(back'[j].idx)
  <2>1. i \in Nat /\ j \in Nat /\ k \in Nat
    BY <1>3, <1>6
  <2>2. i + k - 1 \in DOMAIN back /\ back'[i].idx = back[i + k - 1].idx
    <3>1. ~(i + k - 1 = Len(back) + 1)
      <4>1. j + k - 1 <= Len(back) + 1
        BY <1>3, <1>5, <2>1
      <4> QED
        BY <1>3, <1>8, <2>1, <4>1
    <3> QED
      BY <1>5, <3>1
  <2>3. CASE j + k - 1 \in DOMAIN back /\ back'[j].idx = back[j + k - 1].idx
    <3>1. i + k - 1 < j + k - 1
      BY <1>8, <2>1
    <3>2. Off(back[i + k - 1].idx) < Off(back[j + k - 1].idx)
      BY <1>1, <2>2, <2>3, <3>1 DEF Backend
    <3> QED
      BY <2>2, <2>3, <3>2
  <2>4. CASE x # << >> /\ back'[j].idx = x[1].idx
    BY <1>3, <1>4, <2>2, <2>4
  <2> QED
    BY <1>5, <2>3, <2>4
<1>9. ASSUME k \in DOMAIN back, NEW j \in DOMAIN back' PROVE Off(back[k].idx) <= Off(back'[j].idx)
  <2>1. CASE j + k - 1 \in DOMAIN back /\ back'[j].idx = back[j + k - 1].idx
    <3>1. j \in DOMAIN back' /\ j >= 1 /\ j \in Nat
      <4>1. back' \in Seq(Blocks)
        BY <1>0 DEF Moved
      <4>2. DOMAIN back' = 1 .. Len(back')
        BY <4>1
      <4> QED
        BY <1>6, <1>9, <4>2
    <3>2. CASE j = 1
      <4>1. j + k - 1 = k
        BY <1>3, <1>9, <3>2
      <4> QED
        BY <1>3, <1>9, <2>1, <4>1, SizeAssumption
    <3>3. CASE j > 1
      <4>1. k < j + k - 1
        BY <1>3, <1>9, <3>1, <3>3
      <4>2. Off(back[k].idx) < Off(back[j + k - 1].idx)
        BY <1>1, <1>9, <2>1, <4>1 DEF Backend
      <4> QED
        BY <1>3, <1>9, <2>1, <4>2, SizeAssumption
    <3> QED
      BY <3>1, <3>2, <3>3
  <2>2. CASE x # << >> /\ back'[j].idx = x[1].idx
    BY <1>2, <1>3, <1>4, <1>9, <2>2, SizeAssumption
  <2> QED
    BY <1>5, <1>9, <2>1, <2>2
<1>10. ASSUME squash # "mispred", NEW j \in DOMAIN back'
       PROVE  Off(commit_ptr_thre) <= Off(back'[j].idx)
  <2>1. Off(commit_ptr_thre) <= u /\ \A i \in DOMAIN back : Off(commit_ptr_thre) <= Off(back[i].idx)
    BY <1>1, <1>10 DEF Backend, u
  <2> QED
    BY <1>4, <1>5, <1>10, <2>1
<1>11. ASSUME NEW o \in u .. n - 1 PROVE At(o) \notin wasWrote \union EntriesOf(S)
  <2>1. At(o) \notin wasWrote
    BY <1>1 DEF Fresh, u
  <2>2. ASSUME NEW i \in S, At(o) = back[i].idx PROVE FALSE
    <3>1. i \in DOMAIN back /\ Off(back[i].idx) < u /\ Off(back[i].idx) \in Int
      BY <1>1, <1>3, <2>2
    <3>2. o \in 0 .. FTQ_SIZE - 1
      BY <1>2, SizeAssumption
    <3>3. Off(At(o)) = o
      BY <1>1, <3>2, BehindPlace DEF Off, At
    <3> QED
      BY <1>2, <2>2, <3>1, <3>3
  <2> QED
    BY <2>1, <2>2 DEF EntriesOf
<1>12. ASSUME NEW j \in DOMAIN back', Open(back'[j])
       PROVE  back'[j].idx \notin wasWrote \union EntriesOf(S)
  <2>1. CASE j + k - 1 \in Unwritten /\ j + k - 1 \notin S /\ back'[j].idx = back[j + k - 1].idx
    <3> DEFINE p == j + k - 1
    <3>1. p \in DOMAIN back /\ back[p].idx \notin wasWrote /\ back'[j].idx = back[p].idx
      BY <1>1, <2>1 DEF Fresh
    <3>2. ASSUME NEW i \in S, back[i].idx = back[p].idx PROVE FALSE
      <4>1. i \in DOMAIN back /\ i # p
        BY <1>1, <2>1, <3>2
      <4>2. i < p \/ p < i
        BY <1>3, <3>1, <4>1
      <4>3. Off(back[i].idx) < Off(back[p].idx) \/ Off(back[p].idx) < Off(back[i].idx)
        BY <1>1, <3>1, <4>1, <4>2 DEF Backend
      <4>4. Off(back[i].idx) \in Int /\ Off(back[i].idx) = Off(back[p].idx)
        BY <1>3, <3>2, <4>1
      <4> QED
        BY <4>3, <4>4
    <3> QED
      BY <3>1, <3>2 DEF EntriesOf
  <2>2. CASE x # << >> /\ back'[j].idx = x[1].idx
    <3>1. u \in u .. n - 1
      BY <1>1, <1>2, <1>4, <2>2, SizeAssumption
    <3> QED
      BY <1>4, <1>11, <2>2, <3>1
  <2> QED
    BY <1>5, <1>12, <2>1, <2>2
<1> QED
  BY <1>7, <1>8, <1>9, <1>10, <1>11, <1>12 DEF u, x

\* Only the entry behind the last one is written.
LEMMA WritesKeep ==
  ASSUME TypeOK, NEW n \in 0 .. FTQ_SIZE, NEW f \in 0 .. FTQ_SIZE, Pointers(n, f),
         NEW req \in BOOLEAN, NEW wb, EntryWrites(req, wb)
  PROVE  /\ \A o \in 0 .. n - 1 : buf_baseInfo'[At(o)] = buf_baseInfo[At(o)]
         /\ DoPred(req) => buf_baseInfo'[At(n)] = next /\ n < FTQ_SIZE /\ falsepred = << >>
         /\ buf_baseInfo' \in [Slots -> 0 .. POS - 1]
<1>1. /\ commit_ptr \in Slots /\ pred_ptr = At(n) /\ pred_ptr \in Slots /\ next \in 0 .. POS - 1
      /\ buf_baseInfo \in [Slots -> 0 .. POS - 1]
  BY DEF TypeOK, Pointers
<1>2. CASE DoPred(req)
  <2>1. n < FTQ_SIZE /\ falsepred = << >>
    BY <1>2, FullMeans, SizeAssumption DEF DoPred
  <2>2. buf_baseInfo' = [buf_baseInfo EXCEPT ![pred_ptr] = next]
    BY <1>2 DEF EntryWrites
  <2>3. ASSUME NEW o \in 0 .. n - 1 PROVE buf_baseInfo'[At(o)] = buf_baseInfo[At(o)]
    <3>1. o \in 0 .. FTQ_SIZE - 1 /\ n \in 0 .. FTQ_SIZE - 1 /\ o # n /\ o \in 0 .. FTQ_SIZE
      BY <2>1, SizeAssumption
    <3>2. At(o) # At(n) /\ At(o) \in Slots
      BY <1>1, <3>1, PlaceOnce, PlaceType DEF At
    <3> QED
      BY <1>1, <2>2, <3>2
  <2> QED
    BY <1>1, <2>1, <2>2, <2>3
<1>3. CASE ~DoPred(req)
  BY <1>1, <1>3 DEF EntryWrites
<1> QED
  BY <1>2, <1>3

\* The blocks on their way are in the ring, behind commit_ptr.
LEMMA BlocksInRing ==
  ASSUME TypeOK, NEW n \in 0 .. FTQ_SIZE, NEW f \in 0 .. FTQ_SIZE, Shape(n, f)
  PROVE  /\ s1 # << >> => \E o \in 0 .. n - 1 : s1[1].idx = At(o)
         /\ s2 # << >> => \E o \in 0 .. n - 1 : s2[1].idx = At(o)
         /\ new_inst # << >> => Undelivered(f) \in 0 .. n - 1 /\ new_inst[1].idx = At(Undelivered(f))
         /\ \A j \in DOMAIN back : \E o \in 0 .. n - 1 : back[j].idx = At(o)
<1>1. Pointers(n, f) /\ Stages(f) /\ Backend(f) /\ f <= n
  BY DEF Shape, Pointers
<1> DEFINE a == Len(s1)
           b == Len(s2)
           c == Len(new_inst)
           r == Refetch(f)
           u == Undelivered(f)
<1>2. /\ r \in 0 .. f /\ u \in 0 .. r /\ r = u + c
      /\ a \in {0, 1} /\ b \in {0, 1} /\ c \in {0, 1} /\ f = r + b + a
  BY <1>1, StageCounts
<1>3. (s1 # << >> => a = 1) /\ (s2 # << >> => b = 1) /\ (new_inst # << >> => c = 1)
  BY StageFacts DEF TypeOK
<1>4. ASSUME s1 # << >> PROVE f - 1 \in 0 .. n - 1 /\ s1[1].idx = At(f - 1)
  <2>1. a = 1
    BY <1>3, <1>4
  <2>2. f - 1 \in 0 .. n - 1
    BY <1>1, <1>2, <2>1, SizeAssumption
  <2> QED
    BY <1>1, <1>4, <2>2 DEF Stages
<1>5. ASSUME s2 # << >> PROVE r \in 0 .. n - 1 /\ s2[1].idx = At(r)
  <2>1. b = 1
    BY <1>3, <1>5
  <2>2. r \in 0 .. n - 1
    BY <1>1, <1>2, <2>1, SizeAssumption
  <2> QED
    BY <1>1, <1>5, <2>2 DEF Stages
<1>6. ASSUME new_inst # << >> PROVE u \in 0 .. n - 1 /\ new_inst[1].idx = At(u)
  <2>1. c = 1
    BY <1>3, <1>6
  <2>2. u \in 0 .. n - 1
    BY <1>1, <1>2, <2>1, SizeAssumption
  <2> QED
    BY <1>1, <1>6, <2>2 DEF Stages
<1>7. ASSUME NEW j \in DOMAIN back PROVE Off(back[j].idx) \in 0 .. n - 1 /\ back[j].idx = At(Off(back[j].idx))
  <2>1. Off(back[j].idx) \in 0 .. FTQ_SIZE - 1 /\ back[j].idx = At(Off(back[j].idx)) /\ Off(back[j].idx) < u
    BY <1>1, BackFacts DEF Backend
  <2> QED
    BY <1>1, <1>2, <2>1, SizeAssumption
<1> QED
  BY <1>4, <1>5, <1>6, <1>7

\* Their entries still hold them after a cycle.
LEMMA OwnMoves ==
  ASSUME TypeOK, NEW n \in 0 .. FTQ_SIZE, NEW f \in 0 .. FTQ_SIZE, Shape(n, f), Own,
         ~Squashed, NEW req \in BOOLEAN, NEW rdy \in BOOLEAN, NEW stall \in BOOLEAN,
         NEW bad \in BOOLEAN, Fetcher(req, rdy, stall, bad), NEW wb, EntryWrites(req, wb),
         NEW S \in SUBSET Unwritten, NEW m \in BOOLEAN, NEW k \in 1 .. Len(back) + 1,
         back' = Passed(S, m, k, stall),
         falsepred = << >> /\ DoFetch(req, stall) => f < n \/ (f = n /\ Bypass(req))
  PROVE  Own'
<1>0. Moved(S, k, stall)
  BY BackMoves
<1>1. /\ \A o \in 0 .. n - 1 : buf_baseInfo'[At(o)] = buf_baseInfo[At(o)]
      /\ DoPred(req) => buf_baseInfo'[At(n)] = next
  BY WritesKeep DEF Shape
<1>2. /\ s1 # << >> => buf_baseInfo'[s1[1].idx] = s1[1].pos
      /\ s2 # << >> => buf_baseInfo'[s2[1].idx] = s2[1].pos
      /\ new_inst # << >> => buf_baseInfo'[new_inst[1].idx] = new_inst[1].pos
      /\ \A j \in DOMAIN back : buf_baseInfo'[back[j].idx] = back[j].pos
  BY <1>1, BlocksInRing DEF Own, Owns
<1>3. \A j \in DOMAIN back' : Owns(back[j])'
  <2>1. ASSUME NEW j \in DOMAIN back' PROVE buf_baseInfo'[back'[j].idx] = back'[j].pos
    <3>1. CASE j + k - 1 \in DOMAIN back /\ back'[j].idx = back[j + k - 1].idx /\ back'[j].pos = back[j + k - 1].pos
      BY <1>2, <3>1
    <3>2. CASE Delivered(stall) # << >> /\ back'[j] = Delivered(stall)[1]
      <4>1. Delivered(stall) = new_inst /\ new_inst # << >>
        BY <3>2 DEF Delivered
      <4> QED
        BY <1>2, <3>2, <4>1
    <3> QED
      BY <1>0, <3>1, <3>2 DEF Moved
  <2> QED
    BY <2>1 DEF Owns
<1>4. CASE falsepred # << >>
  <2>1. s1' = << >> /\ s2' = << >> /\ new_inst' = << >> /\ falsepred' = << >>
    BY <1>4 DEF Fetcher
  <2> QED
    BY <1>3, <2>1 DEF Own
<1>5. CASE falsepred = << >>
  <2>1. /\ s1' = IF DoFetch(req, stall) /\ rdy /\ ~stall THEN <<Asked(req)>> ELSE << >>
        /\ s2' = IF stall THEN << >> ELSE s1
        /\ falsepred' = IF bad THEN s2 ELSE << >>
        /\ new_inst' = IF stall THEN new_inst ELSE s2
    BY <1>5 DEF Fetcher
  <2>2. s1' # << >> => Owns(s1[1])'
    <3>1. CASE DoFetch(req, stall) /\ rdy /\ ~stall
      <4>1. fetch_ptr \in Slots /\ fetch_ptr = At(f) /\ next \in 0 .. POS - 1
            /\ buf_baseInfo[fetch_ptr] \in 0 .. POS - 1
        BY DEF TypeOK, Shape, Pointers
      <4>2. /\ Asked(req).idx = At(f)
            /\ Asked(req).pos = IF Bypass(req) THEN next ELSE buf_baseInfo[fetch_ptr]
        BY <4>1, BlockType DEF Asked
      <4>3. buf_baseInfo'[At(f)] = IF Bypass(req) THEN next ELSE buf_baseInfo[fetch_ptr]
        <5>1. CASE Bypass(req)
          <6>1. DoPred(req) /\ fetch_ptr = At(n)
            BY <5>1 DEF Bypass, Shape, Pointers
          <6> QED
            BY <1>1, <4>1, <5>1, <6>1
        <5>2. CASE ~Bypass(req)
          <6>1. f < n
            BY <1>5, <3>1, <5>2
          <6>2. f \in 0 .. n - 1
            BY <6>1, SizeAssumption
          <6> QED
            BY <1>1, <4>1, <5>2, <6>2
        <5> QED
          BY <5>1, <5>2
      <4>4. s1'[1] = Asked(req)
        BY <2>1, <3>1
      <4> QED
        BY <4>2, <4>3, <4>4 DEF Owns
    <3>2. CASE ~(DoFetch(req, stall) /\ rdy /\ ~stall)
      BY <2>1, <3>2
    <3> QED
      BY <3>1, <3>2
  <2>3. s2' # << >> => Owns(s2[1])'
    BY <1>2, <2>1 DEF Owns
  <2>4. new_inst' # << >> => Owns(new_inst[1])'
    BY <1>2, <2>1 DEF Owns
  <2>5. falsepred' # << >> => Owns(falsepred[1])'
    BY <1>2, <2>1 DEF Owns
  <2> QED
    BY <1>3, <2>2, <2>3, <2>4, <2>5 DEF Own
<1> QED
  BY <1>4, <1>5

\* The blocks to come follow each other after a cycle.
LEMMA StreamMoves ==
  ASSUME TypeOK, NEW n \in 0 .. FTQ_SIZE, NEW f \in 0 .. FTQ_SIZE, Shape(n, f), Own, Own',
         ~Squashed, NEW req \in BOOLEAN, NEW rdy \in BOOLEAN, NEW stall \in BOOLEAN,
         NEW bad \in BOOLEAN, bad => s2 # << >>, Fetcher(req, rdy, stall, bad),
         NEW wb, EntryWrites(req, wb), History(stall, bad, 0), Predictor(req, 0),
         NEW m, m = NewFilled(n, f, req), NEW u, u = NewUndelivered(f, req, rdy, stall),
         ~lost'
  PROVE  IF falsepred' = << >>
         THEN /\ Then(m, u) = want'
              /\ \A o \in u .. m - 1 : Then(m, o + 1) = Following(Then(m, o))
         ELSE falsepred' = new_inst' /\ new_inst'[1].pos = want'
<1> DEFINE U == Undelivered(f)
           x == Delivered(stall)
<1>1. Pointers(n, f) /\ Stages(f) /\ f <= n
  BY DEF Shape, Pointers
<1>2. /\ Refetch(f) \in 0 .. f /\ U \in 0 .. Refetch(f) /\ Refetch(f) = U + Len(new_inst)
      /\ Len(new_inst) \in {0, 1} /\ f = Refetch(f) + Len(s2) + Len(s1)
      /\ Len(s1) \in {0, 1} /\ Len(s2) \in {0, 1}
  BY <1>1, StageCounts
<1>3. /\ ~lost /\ ~Skips(stall, bad)
      /\ want' = (IF x = << >> THEN want ELSE Following(new_inst[1].pos))
  BY DEF History
<1>4. /\ new_inst # << >> => Len(new_inst) = 1
      /\ s2 # << >> => Len(s2) = 1
  BY StageFacts DEF TypeOK
<1>5. CASE falsepred # << >>
  <2>1. falsepred = new_inst /\ new_inst[1].pos = want /\ new_inst # << >>
    BY <1>3, <1>5 DEF Shape, Stream
  <2>2. ~stall /\ x = new_inst
    BY <1>3, <1>5, <2>1 DEF Skips, Delivered
  <2>3. want' = Following(want) /\ next' = Following(want)
    BY <1>3, <1>5, <2>1, <2>2 DEF Predictor
  <2>4. u = Refetch(f)
    BY <1>1, <1>5, StagesMove
  <2>5. m = u
    <3>1. Refetch(f) # 0
      BY <1>2, <1>4, <2>1, SizeAssumption
    <3> QED
      BY <1>5, <2>4, <3>1 DEF NewFilled
  <2>6. falsepred' = << >>
    BY <1>5 DEF Fetcher
  <2>7. m \in Int
    BY <1>2, <2>4, <2>5, SizeAssumption
  <2>8. m .. m - 1 = {}
    BY <2>7
  <2> QED
    BY <2>3, <2>5, <2>6, <2>8 DEF Then
<1>6. CASE falsepred = << >>
  <2>1. /\ Coming(n, U) = want
        /\ \A o \in U .. n - 1 : Coming(n, o + 1) = Following(Coming(n, o))
    BY <1>3, <1>6 DEF Shape, Stream
  <2>2. /\ \A o \in 0 .. n - 1 : buf_baseInfo'[At(o)] = buf_baseInfo[At(o)]
        /\ DoPred(req) => buf_baseInfo'[At(n)] = next
    BY <1>1, WritesKeep
  <2>3. /\ DoPred(req) => m = n + 1 /\ next' = Following(next)
        /\ ~DoPred(req) => m = n /\ next' = next
    BY <1>6 DEF NewFilled, Predictor
  <2>4. m \in Int /\ U \in Int /\ U <= n /\ U >= 0
    BY <1>1, <1>2, <2>3, SizeAssumption
  <2>5. ASSUME NEW o \in U .. n PROVE Then(m, o) = Coming(n, o)
    <3>1. CASE o = n
      BY <2>2, <2>3, <3>1 DEF Then, Coming
    <3>2. CASE o # n
      <4>1. o \in 0 .. n - 1 /\ o # m
        BY <2>3, <2>4, <3>2, SizeAssumption
      <4> QED
        BY <2>2, <3>2, <4>1 DEF Then, Coming
    <3> QED
      BY <3>1, <3>2
  <2>6. ASSUME NEW o \in U .. m - 1 PROVE Then(m, o + 1) = Following(Then(m, o))
    <3>1. CASE o = n
      <4>1. DoPred(req) /\ o + 1 = m
        BY <2>3, <2>4, <3>1
      <4>2. Then(m, o) = next
        BY <2>4, <2>5, <3>1 DEF Coming
      <4>3. Then(m, o + 1) = next'
        BY <4>1 DEF Then
      <4> QED
        BY <2>3, <4>1, <4>2, <4>3
    <3>2. CASE o # n
      <4>1. o \in U .. n - 1 /\ o \in U .. n /\ o + 1 \in U .. n
        BY <2>3, <2>4, <3>2, SizeAssumption
      <4> QED
        BY <2>1, <2>5, <4>1
    <3> QED
      BY <3>1, <3>2
  <2>7. u = U + Len(x) /\ u <= NewFetched(f, req, rdy, stall)
    <3>1. u \in U + Len(x) .. NewFetched(f, req, rdy, stall) /\ u = U + Len(x)
      BY <1>1, <1>6, StagesMove
    <3> QED
      BY <3>1
  <2>8. Then(m, u) = want'
    <3>1. CASE x = << >>
      <4>1. Len(x) = 0
        BY <3>1
      <4>2. u = U /\ U \in U .. n
        BY <2>4, <2>7, <4>1
      <4> QED
        BY <1>3, <2>1, <2>5, <3>1, <4>2
    <3>2. CASE x # << >>
      <4>1. x = new_inst /\ new_inst # << >> /\ Len(x) = 1
        BY <1>4, <3>2 DEF Delivered
      <4>2. U \in 0 .. n - 1 /\ new_inst[1].idx = At(U)
        BY <4>1, BlocksInRing
      <4>3. new_inst[1].pos = Coming(n, U)
        BY <4>1, <4>2 DEF Own, Owns, Coming
      <4>4. u = U + 1 /\ U \in U .. m - 1 /\ U \in U .. n
        BY <2>3, <2>4, <2>7, <4>1, <4>2, SizeAssumption
      <4>5. Then(m, U + 1) = Following(Then(m, U)) /\ Then(m, U) = Coming(n, U)
        BY <2>5, <2>6, <4>4
      <4> QED
        BY <1>3, <3>2, <4>3, <4>4, <4>5
    <3> QED
      BY <3>1, <3>2
  <2>9. \A o \in u .. m - 1 : Then(m, o + 1) = Following(Then(m, o))
    <3>1. Len(x) \in {0, 1}
      <4>1. x = << >> \/ x = new_inst
        BY DEF Delivered
      <4>2. x = << >> => Len(x) = 0
        OBVIOUS
      <4> QED
        BY <1>2, <4>1, <4>2
    <3>2. U <= u /\ u \in Int
      BY <2>4, <2>7, <3>1
    <3>3. ASSUME NEW o \in u .. m - 1 PROVE o \in U .. m - 1
      BY <2>4, <3>2
    <3> QED
      BY <2>6, <3>3
  <2>10. ASSUME falsepred' # << >> PROVE falsepred' = new_inst' /\ new_inst'[1].pos = want'
    <3>1. falsepred' = IF bad THEN s2 ELSE << >>
      BY <1>6 DEF Fetcher
    <3>2. bad /\ s2 # << >> /\ ~stall
      BY <1>3, <1>6, <2>10, <3>1 DEF Skips
    <3>3. new_inst' = s2 /\ falsepred' = s2
      BY <1>6, <3>1, <3>2 DEF Fetcher
    <3>4. new_inst'[1].idx = At(u)
      <4>1. new_inst' # << >> => new_inst'[1].idx = At(NewUndelivered(f, req, rdy, stall))
        BY <1>1, StagesMove
      <4> QED
        BY <3>2, <3>3, <4>1
    <3>5. u = Refetch(f)
      <4>1. x = new_inst
        BY <3>2 DEF Delivered
      <4> QED
        BY <1>2, <2>7, <4>1
    <3>6. u # m
      BY <1>1, <1>2, <1>4, <2>3, <3>2, <3>5, SizeAssumption
    <3>7. buf_baseInfo'[new_inst'[1].idx] = new_inst'[1].pos
      BY <3>2, <3>3 DEF Own, Owns
    <3> QED
      BY <2>8, <3>3, <3>4, <3>6, <3>7 DEF Then
  <2> QED
    BY <2>8, <2>9, <2>10
<1> QED
  BY <1>5, <1>6

-----------------------------------------------------------------------------
(* The invariant through a cycle without a squash.  The ROB passes the     *)
(* entry w places behind commit_ptr, and the backend keeps its blocks from *)
(* place k on.                                                             *)

\* one such cycle
Moves(n, f, req, rdy, stall, bad, S, b, k, commit, w) ==
  /\ ~Squashed /\ Cycle(req, rdy, stall, bad, commit, EntriesOf(S), 0)
  /\ bad => s2 # << >>
  /\ back' = Passed(S, b, k, stall)
  /\ NextThre(commit) = At(w) /\ Off(commit_ptr_thre) <= w /\ w <= Undelivered(f)
  /\ squash' \in {"no", "mispred", "except"} /\ (squash' # "no" => k \in DOMAIN back)
  /\ squash' # "mispred" => \A j \in DOMAIN back' : w <= Off(back'[j].idx)

\* What leaves was passed before: nothing that is named, and not the limit.
LEMMA LeavesBehind ==
  ASSUME TypeOK, NEW n \in 0 .. FTQ_SIZE, NEW f \in 0 .. FTQ_SIZE, Pointers(n, f), NEW d, d = Leaves
  PROVE  d \in {0, 1} /\ d <= Off(commit_ptr_thre) /\ Off(commit_ptr_thre) \in 0 .. n
<1>1. commit_ptr \in Slots /\ commit_ptr_thre \in Slots
  BY DEF TypeOK
<1>2. Off(commit_ptr_thre) \in 0 .. FTQ_SIZE - 1 /\ At(Off(commit_ptr_thre)) = commit_ptr_thre
  BY <1>1, PlaceBehind DEF Off, At
<1>3. Off(commit_ptr_thre) \in 0 .. n
  BY <1>2, SizeAssumption DEF Pointers
<1>4. At(0) = commit_ptr
  BY <1>1, SizeAssumption DEF At, Place, Slots
<1>5. DoCommit => Off(commit_ptr_thre) # 0
  BY <1>2, <1>4 DEF DoCommit
<1>6. d \in {0, 1} /\ (d = 1 => DoCommit)
  BY DEF Leaves
<1> QED
  BY <1>3, <1>5, <1>6, SizeAssumption

\* The counts of the next state.
LEMMA NextCounts ==
  ASSUME TypeOK, NEW n \in 0 .. FTQ_SIZE, NEW f \in 0 .. FTQ_SIZE, Shape(n, f),
         NEW req \in BOOLEAN, NEW rdy \in BOOLEAN, NEW stall \in BOOLEAN, NEW bad \in BOOLEAN,
         NEW S \in SUBSET Unwritten, NEW b \in BOOLEAN, NEW k \in 1 .. Len(back) + 1,
         NEW commit, NEW w \in 0 .. FTQ_SIZE,
         Moves(n, f, req, rdy, stall, bad, S, b, k, commit, w), NEW d, d = Leaves,
         NEW m, m = NewFilled(n, f, req), NEW g, g = NewFetched(f, req, rdy, stall),
         NEW u, u = NewUndelivered(f, req, rdy, stall)
  PROVE  /\ d \in {0, 1} /\ m \in d .. FTQ_SIZE /\ g \in d .. m /\ u \in d .. g /\ w \in d .. u
         /\ Undelivered(f) + Len(Delivered(stall)) <= u /\ Undelivered(f) \in 0 .. u /\ u <= m
         /\ DoPred(req) => m = n + 1
         /\ ~DoPred(req) => m <= n
         /\ Len(Delivered(stall)) \in {0, 1}
<1>1. /\ Pointers(n, f) /\ Stages(f) /\ ~Squashed /\ PredRing(req) /\ FetchRing(req, rdy, stall)
      /\ Fetcher(req, rdy, stall, bad)
      /\ Off(commit_ptr_thre) <= w /\ w <= Undelivered(f) /\ f <= n
  BY DEF Shape, Moves, Cycle, Ring, Pointers
<1>2. d \in {0, 1} /\ d <= Off(commit_ptr_thre) /\ Off(commit_ptr_thre) \in 0 .. n
  BY <1>1, LeavesBehind
<1>3. m \in 0 .. FTQ_SIZE /\ g \in 0 .. m
  BY <1>1, RingMoves
<1>4. u \in Undelivered(f) + Len(Delivered(stall)) .. g /\ Delivered(stall) \in AtMostOne
  BY <1>1, StagesMove
<1>5. Len(Delivered(stall)) \in {0, 1}
  BY <1>4, StageFacts
<1>6. Refetch(f) \in 0 .. f /\ Undelivered(f) \in 0 .. Refetch(f)
  BY <1>1, StageCounts
<1>7. DoPred(req) => m = n + 1
  BY <1>1, RingMoves DEF NewFilled
<1>8. ~DoPred(req) => m <= n
  BY <1>1, <1>6, SizeAssumption DEF NewFilled
<1>9. /\ w \in Int /\ Undelivered(f) \in Int /\ g \in Int /\ u \in Int /\ m \in Int /\ FTQ_SIZE \in Int
      /\ Off(commit_ptr_thre) \in Int /\ Len(Delivered(stall)) \in Int /\ n \in Int
  BY <1>2, <1>3, <1>4, <1>5, <1>6, SizeAssumption
<1>10. Undelivered(f) + Len(Delivered(stall)) <= u /\ u <= g /\ g <= m /\ m <= FTQ_SIZE
  BY <1>3, <1>4, <1>9
<1>11. d <= w /\ w <= Undelivered(f) /\ Undelivered(f) <= u
  BY <1>1, <1>2, <1>5, <1>9, <1>10
<1>12. /\ m \in d .. FTQ_SIZE /\ g \in d .. m /\ u \in d .. g /\ w \in d .. u
       /\ Undelivered(f) \in 0 .. u /\ u <= m
  <2>1. d <= m /\ d <= g /\ d <= u /\ d \in Int
    BY <1>2, <1>9, <1>10, <1>11
  <2>2. w <= u /\ u <= m
    BY <1>9, <1>10, <1>11
  <2>3. Undelivered(f) >= 0
    BY <1>6
  <2> QED
    BY <1>9, <1>10, <1>11, <2>1, <2>2, <2>3
<1> QED
  BY <1>2, <1>5, <1>7, <1>8, <1>10, <1>12

Flags == {pptr_flipped, fptr_flipped, cptr_flipped} \subseteq BOOLEAN

\* The pointers stay where the counts say.
LEMMA PointersKept ==
  ASSUME TypeOK, NEW n \in 0 .. FTQ_SIZE, NEW f \in 0 .. FTQ_SIZE, Shape(n, f),
         NEW req \in BOOLEAN, NEW rdy \in BOOLEAN, NEW stall \in BOOLEAN, NEW bad \in BOOLEAN,
         NEW S \in SUBSET Unwritten, NEW b \in BOOLEAN, NEW k \in 1 .. Len(back) + 1,
         NEW commit, NEW w \in 0 .. FTQ_SIZE,
         Moves(n, f, req, rdy, stall, bad, S, b, k, commit, w), NEW d, d = Leaves,
         NEW m, m = NewFilled(n, f, req), NEW g, g = NewFetched(f, req, rdy, stall),
         NEW N, N = m - d, NEW G, G = g - d
  PROVE  /\ Pointers(N, G)'
         /\ Off(commit_ptr_thre)' <= w - d
         /\ {commit_ptr', pred_ptr', fetch_ptr', commit_ptr_thre'} \subseteq Slots
         /\ Flags' /\ buffer_vld' \subseteq Slots
<1>1. /\ Pointers(n, f) /\ Stages(f) /\ ~Squashed /\ PredRing(req) /\ FetchRing(req, rdy, stall)
      /\ CommitRing(req, commit) /\ commit_ptr_thre' = At(w)
  BY DEF Shape, Moves, Cycle, Ring, CommitRing
<1>2. d \in {0, 1} /\ m \in d .. FTQ_SIZE /\ g \in d .. m /\ w \in d .. m
  <2>1. PICK u : u = NewUndelivered(f, req, rdy, stall)
    OBVIOUS
  <2>2. d \in {0, 1} /\ m \in d .. FTQ_SIZE /\ g \in d .. m /\ u \in d .. g /\ w \in d .. u
    BY <2>1, NextCounts
  <2> QED
    BY <2>2, SizeAssumption
<1>3. /\ pred_ptr' = At(m) /\ (pptr_flipped' # cptr_flipped <=> commit_ptr + m >= FTQ_SIZE)
      /\ fetch_ptr' = At(g)
      /\ (buffer_vld \ Cleared(commit)) \union (IF ~Squashed /\ DoPred(req) THEN {pred_ptr} ELSE {})
           = {At(o) : o \in 0 .. m - 1}
  <2> DEFINE filled == NewFilled(n, f, req)
             fetched == NewFetched(f, req, rdy, stall)
  <2>1. pred_ptr' = At(filled)
    BY <1>1, RingMoves
  <2>2. pptr_flipped' # cptr_flipped <=> commit_ptr + filled >= FTQ_SIZE
    BY <1>1, RingMoves
  <2>3. fetch_ptr' = At(fetched)
    BY <1>1, RingMoves
  <2>4. (buffer_vld \ Cleared(commit)) \union (IF DoPred(req) THEN {pred_ptr} ELSE {})
          = {At(o) : o \in 0 .. filled - 1}
    BY <1>1, RingMoves, SMTT(30)
  <2> QED
    BY <1>1, <2>1, <2>2, <2>3, <2>4
<1>4. pptr_flipped' \in BOOLEAN /\ fptr_flipped' \in BOOLEAN
  <2>1. pptr_flipped \in BOOLEAN /\ fptr_flipped \in BOOLEAN
    BY DEF TypeOK
  <2>2. FlipAt(Recovery) \in BOOLEAN
    BY <2>1 DEF FlipAt
  <2>3. pptr_flipped' \in BOOLEAN
    BY <1>1, <2>1, <2>2 DEF PredRing
  <2>4. fptr_flipped' \in BOOLEAN
    BY <1>1, <2>1, <2>2 DEF FetchRing
  <2> QED
    BY <2>3, <2>4
<1>5. /\ Pointers(m - d, g - d)'
      /\ Off(commit_ptr_thre)' <= w - d
      /\ {commit_ptr', pred_ptr', fetch_ptr', commit_ptr_thre'} \subseteq Slots
      /\ cptr_flipped' \in BOOLEAN /\ buffer_vld' \subseteq Slots
  BY <1>1, <1>2, <1>3, <1>4, RebasePointers, SMTT(30), ZenonT(40)
<1>6. Pointers(N, G)'
  BY <1>5
<1> QED
  BY <1>4, <1>5, <1>6 DEF Flags

\* The rest of the state keeps its type.
LEMMA TypesKept ==
  ASSUME TypeOK, NEW n \in 0 .. FTQ_SIZE, NEW f \in 0 .. FTQ_SIZE, Shape(n, f),
         NEW req \in BOOLEAN, NEW rdy \in BOOLEAN, NEW stall \in BOOLEAN, NEW bad \in BOOLEAN,
         NEW S \in SUBSET Unwritten, NEW b \in BOOLEAN, NEW k \in 1 .. Len(back) + 1,
         NEW commit, NEW w \in 0 .. FTQ_SIZE,
         Moves(n, f, req, rdy, stall, bad, S, b, k, commit, w)
  PROVE  TypeOK'
<1>1. /\ Pointers(n, f) /\ Stages(f) /\ ~Squashed /\ EntryWrites(req, EntriesOf(S))
      /\ Fetcher(req, rdy, stall, bad) /\ History(stall, bad, 0) /\ Predictor(req, 0)
      /\ back' = Passed(S, b, k, stall)
  BY DEF Shape, Moves, Cycle, Ring
<1>2. /\ {pred_ptr', fetch_ptr', commit_ptr', commit_ptr_thre'} \subseteq Slots
      /\ {pptr_flipped', fptr_flipped', cptr_flipped'} \subseteq BOOLEAN /\ buffer_vld' \subseteq Slots
  <2>1. PICK d, m, g, N, G : /\ d = Leaves /\ m = NewFilled(n, f, req) /\ g = NewFetched(f, req, rdy, stall)
                             /\ N = m - d /\ G = g - d
    OBVIOUS
  <2>2. {pred_ptr', fetch_ptr', commit_ptr', commit_ptr_thre'} \subseteq Slots
    BY <2>1, PointersKept
  <2>3. Flags'
    BY <2>1, PointersKept
  <2>4. buffer_vld' \subseteq Slots
    BY <2>1, PointersKept
  <2> QED
    BY <2>2, <2>3, <2>4 DEF Flags
<1>3. wasWrote' \subseteq Slots
  <2>1. EntriesOf(S) \subseteq Slots
    BY BackFacts DEF EntriesOf, Unwritten
  <2> QED
    BY <1>1, <2>1 DEF TypeOK, EntryWrites
<1>4. buf_baseInfo' \in [Slots -> 0 .. POS - 1]
  BY <1>1, WritesKeep
<1>5. {s1', s2', new_inst', falsepred'} \subseteq AtMostOne
  BY <1>1, StagesMove
<1>6. /\ next \in 0 .. POS - 1 /\ want \in 0 .. POS - 1 /\ lost \in BOOLEAN
      /\ falsepred \in AtMostOne /\ new_inst \in AtMostOne
  BY DEF TypeOK
<1>7. next' \in 0 .. POS - 1
  <2>1. falsepred # << >> => falsepred[1].pos \in 0 .. POS - 1
    BY <1>6, StageFacts
  <2> QED
    BY <1>1, <1>6, <2>1, FollowingType DEF Predictor
<1>8. want' \in 0 .. POS - 1
  <2>1. new_inst # << >> => new_inst[1].pos \in 0 .. POS - 1
    BY <1>6, StageFacts
  <2>2. want' = IF Delivered(stall) = << >> THEN want ELSE Following(new_inst[1].pos)
    BY <1>1 DEF History
  <2>3. Delivered(stall) # << >> => new_inst # << >>
    BY DEF Delivered
  <2> QED
    BY <1>6, <2>1, <2>2, <2>3, FollowingType
<1>9. lost' \in BOOLEAN
  <2>1. lost' = (lost \/ Skips(stall, bad))
    BY <1>1 DEF History
  <2> QED
    BY <2>1
<1>10. Moved(S, k, stall)
  BY <1>1, BackMoves
<1>11. squash' \in {"no", "mispred", "except"} /\ (squash' # "no" => back' # << >>)
  BY <1>10 DEF Moves, Moved
<1> QED
  BY <1>2, <1>3, <1>4, <1>5, <1>7, <1>8, <1>9, <1>10, <1>11 DEF TypeOK, Moved, Squashed

\* The blocks of the backend stay in order and in front of those to come, and
\* no branch has written what is not executed.
LEMMA BackendKept ==
  ASSUME TypeOK, NEW n \in 0 .. FTQ_SIZE, NEW f \in 0 .. FTQ_SIZE, Shape(n, f),
         NEW req \in BOOLEAN, NEW rdy \in BOOLEAN, NEW stall \in BOOLEAN, NEW bad \in BOOLEAN,
         NEW S \in SUBSET Unwritten, NEW b \in BOOLEAN, NEW k \in 1 .. Len(back) + 1,
         NEW commit, NEW w \in 0 .. FTQ_SIZE,
         Moves(n, f, req, rdy, stall, bad, S, b, k, commit, w), NEW d, d = Leaves,
         NEW m, m = NewFilled(n, f, req), NEW g, g = NewFetched(f, req, rdy, stall),
         NEW u, u = NewUndelivered(f, req, rdy, stall),
         Undelivered(g - d)' = u - d
  PROVE  Backend(g - d)' /\ Fresh(m - d, g - d)'
<1>1. /\ Pointers(n, f) /\ ~Squashed /\ CommitRing(req, commit) /\ EntryWrites(req, EntriesOf(S))
      /\ back' = Passed(S, b, k, stall) /\ pred_ptr = At(n) /\ squash # "mispred"
      /\ squash' # "mispred" => \A j \in DOMAIN back' : w <= Off(back'[j].idx)
  BY DEF Shape, Moves, Cycle, Ring, Pointers, Squashed
<1>2. /\ d \in {0, 1} /\ m \in d .. FTQ_SIZE /\ g \in d .. m /\ u \in d .. g /\ w \in d .. u
      /\ Undelivered(f) + Len(Delivered(stall)) <= u /\ Undelivered(f) \in 0 .. u /\ u <= m
      /\ DoPred(req) => m = n + 1
      /\ ~DoPred(req) => m <= n
      /\ Len(Delivered(stall)) \in {0, 1}
  BY NextCounts
<1>3. d <= Off(commit_ptr_thre) /\ Off(commit_ptr_thre) \in 0 .. n
  BY <1>1, LeavesBehind
<1>4. /\ \A j \in DOMAIN back' : Off(back'[j].idx) \in 0 .. Undelivered(f) + Len(Delivered(stall)) - 1
      /\ \A i, j \in DOMAIN back' : i < j => Off(back'[i].idx) < Off(back'[j].idx)
      /\ \A j \in DOMAIN back' : Off(commit_ptr_thre) <= Off(back'[j].idx)
      /\ \A j \in DOMAIN back' : Open(back'[j]) => back'[j].idx \notin wasWrote \union EntriesOf(S)
      /\ \A o \in Undelivered(f) .. n - 1 : At(o) \notin wasWrote \union EntriesOf(S)
  <2>1. \A j \in DOMAIN back' : Off(back'[j].idx) \in 0 .. Undelivered(f) + Len(Delivered(stall)) - 1
    BY <1>1, BackOrder
  <2>2. \A i, j \in DOMAIN back' : i < j => Off(back'[i].idx) < Off(back'[j].idx)
    BY <1>1, BackOrder
  <2>3. \A j \in DOMAIN back' : Off(commit_ptr_thre) <= Off(back'[j].idx)
    BY <1>1, BackOrder
  <2>4. \A j \in DOMAIN back' : Open(back'[j]) => back'[j].idx \notin wasWrote \union EntriesOf(S)
    BY <1>1, BackOrder
  <2>5. \A o \in Undelivered(f) .. n - 1 : At(o) \notin wasWrote \union EntriesOf(S)
    BY <1>1, BackOrder
  <2> QED
    BY <2>1, <2>2, <2>3, <2>4, <2>5
<1>5. \A j \in DOMAIN back' : Off(back'[j].idx) \in d .. u - 1
  <2> SUFFICES ASSUME NEW j \in DOMAIN back' PROVE Off(back'[j].idx) \in d .. u - 1
    OBVIOUS
  <2>1. Off(back'[j].idx) \in 0 .. Undelivered(f) + Len(Delivered(stall)) - 1
    BY <1>4
  <2>2. Off(commit_ptr_thre) <= Off(back'[j].idx)
    BY <1>4
  <2>3. /\ Undelivered(f) \in Int /\ Len(Delivered(stall)) \in Int
        /\ Undelivered(f) + Len(Delivered(stall)) <= u /\ u \in Int /\ d \in Int
        /\ d <= Off(commit_ptr_thre) /\ Off(commit_ptr_thre) \in Int
    BY <1>2, <1>3, SizeAssumption
  <2>4. Off(back'[j].idx) \in Int
    BY <2>1, <2>3
  <2>5. Off(back'[j].idx) < u
    BY <2>1, <2>3
  <2>6. d <= Off(back'[j].idx)
    BY <2>2, <2>3, <2>4
  <2> QED
    BY <2>3, <2>4, <2>5, <2>6
<1>6. wasWrote' = (wasWrote \union EntriesOf(S)) \ (IF DoPred(req) THEN {At(n)} ELSE {})
  BY <1>1 DEF EntryWrites
<1>7. \A j \in Unwritten' : back'[j].idx \notin wasWrote'
  <2>1. ASSUME NEW j \in Unwritten' PROVE j \in DOMAIN back' /\ Open(back'[j])
    BY DEF Unwritten, Open
  <2> QED
    BY <1>4, <1>6, <2>1
<1>8. \A o \in u .. m - 1 : At(o) \notin wasWrote'
  <2> SUFFICES ASSUME NEW o \in u .. m - 1 PROVE At(o) \notin wasWrote'
    OBVIOUS
  <2>1. CASE o = n
    <3>1. DoPred(req)
      BY <1>2, <2>1, SizeAssumption
    <3> QED
      BY <1>6, <2>1, <3>1
  <2>2. CASE o # n
    <3>1. Undelivered(f) \in 0 .. u /\ u \in Int /\ m \in Int
      BY <1>2, SizeAssumption
    <3>2. m <= n + 1
      <4>1. m = n + 1 \/ m <= n
        BY <1>2
      <4> QED
        BY <3>1, <4>1, SizeAssumption
    <3>3. o \in Undelivered(f) .. n - 1
      BY <2>2, <3>1, <3>2, SizeAssumption
    <3> QED
      BY <1>4, <1>6, <3>3
  <2> QED
    BY <2>1, <2>2
<1>9. w \in d .. m /\ w <= u
  BY <1>2, SizeAssumption
<1>10. TypeOK' /\ Off(commit_ptr_thre)' <= w - d
  BY TypesKept, PointersKept
<1>11. squash' # "mispred" => w <= u /\ \A j \in DOMAIN back' : w <= Off(back'[j].idx)
  BY <1>1, <1>9
<1> QED
  BY <1>1, <1>2, <1>4, <1>5, <1>7, <1>8, <1>9, <1>10, <1>11, RebaseBackend

\* Such a cycle keeps the invariant.
LEMMA CycleKeeps ==
  ASSUME TypeOK, Own, NEW n \in 0 .. FTQ_SIZE, NEW f \in 0 .. FTQ_SIZE, Shape(n, f),
         NEW req \in BOOLEAN, NEW rdy \in BOOLEAN, NEW stall \in BOOLEAN, NEW bad \in BOOLEAN,
         NEW S \in SUBSET Unwritten, NEW b \in BOOLEAN, NEW k \in 1 .. Len(back) + 1,
         NEW commit, NEW w \in 0 .. FTQ_SIZE,
         Moves(n, f, req, rdy, stall, bad, S, b, k, commit, w), NEW d, d = Leaves,
         NEW m, m = NewFilled(n, f, req), NEW g, g = NewFetched(f, req, rdy, stall),
         NEW u, u = NewUndelivered(f, req, rdy, stall)
  PROVE  TypeOK' /\ ReadsOwn' /\ m - d \in 0 .. FTQ_SIZE /\ g - d \in 0 .. FTQ_SIZE /\ Shape(m - d, g - d)'
<1>1. /\ d \in {0, 1} /\ m \in d .. FTQ_SIZE /\ g \in d .. m /\ u \in d .. g /\ u <= m
  BY NextCounts
<1>2. /\ Pointers(n, f) /\ Stages(f) /\ ~Squashed /\ CommitRing(req, commit)
      /\ PredRing(req) /\ FetchRing(req, rdy, stall) /\ EntryWrites(req, EntriesOf(S))
      /\ Fetcher(req, rdy, stall, bad) /\ History(stall, bad, 0) /\ Predictor(req, 0)
      /\ back' = Passed(S, b, k, stall) /\ (bad => s2 # << >>)
  BY DEF Shape, Moves, Cycle, Ring
<1>3. TypeOK'
  BY TypesKept
<1>4. Pointers(m - d, g - d)'
  <2>1. PICK N, G : N = m - d /\ G = g - d
    OBVIOUS
  <2>2. Pointers(N, G)'
    BY <2>1, PointersKept
  <2> QED
    BY <2>1, <2>2
<1>5. Stages(g - d)' /\ Undelivered(g - d)' = u - d
  <2>1. {s1', s2', new_inst'} \subseteq AtMostOne
    BY <1>2, StagesMove
  <2>2. u = ((g - Len(s1')) - Len(s2')) - Len(new_inst')
    BY DEF NewUndelivered, NewRefetch
  <2>3. s1' # << >> => s1'[1].idx = At(NewFetched(f, req, rdy, stall) - 1)
    BY <1>2, StagesMove
  <2>4. s2' # << >> => s2'[1].idx = At(NewRefetch(f, req, rdy, stall))
    BY <1>2, StagesMove
  <2>5. new_inst' # << >> => new_inst'[1].idx = At(NewUndelivered(f, req, rdy, stall))
    BY <1>2, StagesMove
  <2>6. /\ s1' # << >> => s1'[1].idx = At(g - 1)
        /\ s2' # << >> => s2'[1].idx = At((g - Len(s1')) - Len(s2'))
        /\ new_inst' # << >> => new_inst'[1].idx = At(u)
    BY <2>3, <2>4, <2>5 DEF NewRefetch
  <2>7. g \in d .. FTQ_SIZE /\ u \in d .. g
    BY <1>1, SizeAssumption
  <2> QED
    BY <1>2, <2>1, <2>2, <2>6, <2>7, RebaseStages
<1>6. Backend(g - d)' /\ Fresh(m - d, g - d)'
  BY <1>5, BackendKept
<1>7. Own'
  <2>1. falsepred = << >> /\ DoFetch(req, stall) => f < n \/ (f = n /\ Bypass(req))
    BY <1>2, RingMoves
  <2> QED
    BY <1>2, <2>1, OwnMoves
<1>8. Stream(m - d, g - d)'
  <2>1. ~lost' => IF falsepred' = << >>
                  THEN /\ Then(m, u) = want'
                       /\ \A o \in u .. m - 1 : Then(m, o + 1) = Following(Then(m, o))
                  ELSE falsepred' = new_inst' /\ new_inst'[1].pos = want'
    BY <1>2, <1>7, StreamMoves
  <2> QED
    BY <1>1, <1>2, <1>5, <2>1, RebaseStream
<1>9. m - d \in 0 .. FTQ_SIZE /\ g - d \in 0 .. FTQ_SIZE
  BY <1>1, SizeAssumption
<1>10. Shape(m - d, g - d)'
  BY <1>4, <1>5, <1>6, <1>8 DEF Shape
<1>11. ReadsOwn'
  <2>1. (TypeOK => (ReadsOwn <=> Own))'
    BY OwnMeans, PTL
  <2> QED
    BY <1>3, <1>7, <2>1
<1> QED
  BY <1>3, <1>9, <1>10, <1>11

-----------------------------------------------------------------------------
(* The cycle of a squash. *)

\* The window that a squash leaves, up to slot t.
LEMMA SquashWindow ==
  ASSUME TypeOK, NEW n \in 0 .. FTQ_SIZE, NEW f \in 0 .. FTQ_SIZE, Pointers(n, f),
         NEW t \in Slots, NEW w, w = Off(t), w <= n, Squashed, NEW commit, NextThre(commit) = t
  PROVE  /\ w \in 0 .. FTQ_SIZE - 1 /\ t = At(w)
         /\ t >= commit_ptr <=> ~(commit_ptr + w >= FTQ_SIZE)
         /\ buffer_vld \ Cleared(commit) = {At(o) : o \in 0 .. w - 1}
<1>1. commit_ptr \in Slots /\ buffer_vld = {At(o) : o \in 0 .. n - 1}
  BY DEF TypeOK, Pointers
<1>2. w \in 0 .. FTQ_SIZE - 1 /\ t = At(w)
  BY <1>1, PlaceBehind DEF Off, At
<1>3. t >= commit_ptr <=> ~(commit_ptr + w >= FTQ_SIZE)
  BY <1>1, <1>2, SizeAssumption DEF At, Place, Slots
<1>4. From(commit_ptr, t) = {At(o) : o \in 0 .. w - 1}
  <2>1. /\ 0 \in 0 .. FTQ_SIZE - 1 /\ w \in 0 .. FTQ_SIZE /\ 0 <= w /\ w - 0 < FTQ_SIZE
        /\ Place(commit_ptr, 0) = commit_ptr /\ Place(commit_ptr, w) = t
    BY <1>1, <1>2, SizeAssumption DEF At, Place, Slots
  <2>2. From(Place(commit_ptr, 0), Place(commit_ptr, w)) = {Place(commit_ptr, o) : o \in 0 .. w - 1}
    BY <1>1, <2>1, FromPlaces
  <2> QED
    BY <2>1, <2>2 DEF At
<1>5. ASSUME NEW o \in 0 .. w - 1 PROVE o \in 0 .. n - 1 /\ At(o) \in Slots
  <2>1. o \in 0 .. n - 1 /\ o \in 0 .. FTQ_SIZE
    BY <1>2, SizeAssumption
  <2> QED
    BY <1>1, <2>1, PlaceType DEF At
<1>6. Cleared(commit) = Slots \ {At(o) : o \in 0 .. w - 1}
  BY <1>4 DEF Cleared
<1>7. ASSUME NEW o \in 0 .. n - 1 PROVE At(o) \in Slots
  BY <1>1, PlaceType, SizeAssumption DEF At
<1>8. buffer_vld \ Cleared(commit) = {At(o) : o \in 0 .. w - 1}
  BY <1>1, <1>5, <1>6, <1>7
<1> QED
  BY <1>2, <1>3, <1>8

\* What a squash leaves in the ring.
LEMMA SquashLimit ==
  ASSUME TypeOK, NEW n \in 0 .. FTQ_SIZE, NEW f \in 0 .. FTQ_SIZE, Shape(n, f), Squashed,
         NEW commit, \/ commit = << >>
                     \/ \E j \in 2 .. Len(back) : commit = <<back[j].idx>>,
         NEW d, d = Leaves
  PROVE  /\ NextThre(commit) \in Slots /\ d \in {0, 1}
         /\ Off(NextThre(commit)) \in d .. n
<1>1. Pointers(n, f) /\ Stages(f) /\ Backend(f) /\ commit_ptr_thre \in Slots /\ f <= n
  BY DEF Shape, Pointers, TypeOK
<1>2. d \in {0, 1} /\ d <= Off(commit_ptr_thre) /\ Off(commit_ptr_thre) \in 0 .. n
  BY <1>1, LeavesBehind
<1>3. CASE commit = << >>
  <2>1. NextThre(commit) = commit_ptr_thre
    BY <1>3 DEF NextThre
  <2>2. Off(commit_ptr_thre) \in d .. n
    BY <1>2
  <2> QED
    BY <1>1, <1>2, <2>1, <2>2
<1>4. ASSUME NEW j \in 2 .. Len(back), commit = <<back[j].idx>>
      PROVE  NextThre(commit) \in Slots /\ Off(NextThre(commit)) \in d .. n
  <2>1. NextThre(commit) = back[j].idx
    <3>1. commit # << >> /\ commit[1] = back[j].idx
      BY <1>4
    <3> QED
      BY <3>1 DEF NextThre
  <2>2. 1 \in DOMAIN back /\ j \in DOMAIN back /\ 1 < j
    BY BackFacts
  <2>3. /\ Off(back[1].idx) \in 0 .. FTQ_SIZE - 1 /\ Off(back[j].idx) \in 0 .. FTQ_SIZE - 1
        /\ back[j].idx \in Slots
    BY <2>2, BackFacts
  <2>4. Off(back[1].idx) < Off(back[j].idx) /\ Off(back[j].idx) < Undelivered(f)
    BY <1>1, <2>2 DEF Backend
  <2>5. Undelivered(f) \in 0 .. n
    BY <1>1, StageCounts, SizeAssumption
  <2>6. Off(back[j].idx) \in d .. n
    BY <1>2, <2>3, <2>4, <2>5, SizeAssumption
  <2> QED
    BY <2>1, <2>3, <2>6
<1> QED
  BY <1>2, <1>3, <1>4

\* A squash empties the fetcher and the backend, and the window ends at the
\* commit limit.
LEMMA SquashKeeps ==
  ASSUME TypeOK, NEW n \in 0 .. FTQ_SIZE, NEW f \in 0 .. FTQ_SIZE, Shape(n, f), Squashed,
         NEW req \in BOOLEAN, NEW S \in SUBSET Unwritten, NEW resume \in 0 .. POS - 1,
         NEW commit, \/ commit = << >>
                     \/ \E j \in 2 .. Len(back) : commit = <<back[j].idx>>,
         Cycle(req, FALSE, FALSE, FALSE, commit, EntriesOf(S), resume),
         back' = << >>, squash' = "no", NEW d, d = Leaves, NEW w, w = Off(NextThre(commit))
  PROVE  /\ TypeOK' /\ ReadsOwn' /\ w - d \in 0 .. FTQ_SIZE /\ Shape(w - d, w - d)'
         /\ d \in {0, 1} /\ w \in d .. n
<1> DEFINE t == NextThre(commit)
<1>1. /\ Pointers(n, f) /\ SquashRing(commit) /\ CommitRing(req, commit) /\ EntryWrites(req, EntriesOf(S))
      /\ Fetcher(req, FALSE, FALSE, FALSE) /\ History(FALSE, FALSE, resume) /\ Predictor(req, resume)
  BY DEF Shape, Cycle, Ring
<1>2. t \in Slots /\ d \in {0, 1} /\ w \in d .. n
  BY SquashLimit
<1>3. w <= n /\ w \in d .. FTQ_SIZE
  BY <1>2, SizeAssumption
<1>4. /\ w \in 0 .. FTQ_SIZE - 1 /\ t = At(w)
      /\ t >= commit_ptr <=> ~(commit_ptr + w >= FTQ_SIZE)
      /\ buffer_vld \ Cleared(commit) = {At(o) : o \in 0 .. w - 1}
  BY <1>1, <1>2, <1>3, SquashWindow
<1>5. s1' = << >> /\ s2' = << >> /\ new_inst' = << >> /\ falsepred' = << >>
  BY <1>1 DEF Fetcher
<1>6. Len(<< >>) = 0 /\ DOMAIN << >> = {} /\ << >> \in AtMostOne
  BY DEF AtMostOne
<1>7. /\ pred_ptr' = At(w) /\ fetch_ptr' = At(w) /\ commit_ptr_thre' = At(w)
      /\ pptr_flipped' = fptr_flipped' /\ pptr_flipped' \in BOOLEAN
      /\ (pptr_flipped' # cptr_flipped <=> commit_ptr + w >= FTQ_SIZE)
  <2>1. cptr_flipped \in BOOLEAN
    BY DEF TypeOK
  <2>2. /\ pred_ptr' = t /\ fetch_ptr' = t /\ commit_ptr_thre' = t
        /\ pptr_flipped' = (IF t >= commit_ptr THEN cptr_flipped ELSE ~cptr_flipped)
        /\ fptr_flipped' = pptr_flipped'
    BY <1>1 DEF SquashRing, CommitRing
  <2>3. CASE t >= commit_ptr
    BY <1>4, <2>1, <2>2, <2>3
  <2>4. CASE ~(t >= commit_ptr)
    BY <1>4, <2>1, <2>2, <2>4
  <2> QED
    BY <2>3, <2>4
<1>8. /\ Pointers(w - d, w - d)'
      /\ Off(commit_ptr_thre)' <= w - d
      /\ {commit_ptr', pred_ptr', fetch_ptr', commit_ptr_thre'} \subseteq Slots
      /\ cptr_flipped' \in BOOLEAN /\ buffer_vld' \subseteq Slots
  <2>1. (buffer_vld \ Cleared(commit)) \union (IF ~Squashed /\ DoPred(req) THEN {pred_ptr} ELSE {})
          = {At(o) : o \in 0 .. w - 1}
    BY <1>4
  <2>2. w \in d .. FTQ_SIZE /\ w \in d .. w
    BY <1>2, <1>3
  <2> QED
    BY <1>1, <1>7, <2>1, <2>2, RebasePointers
<1>9. TypeOK'
  <2>1. EntriesOf(S) \subseteq Slots
    BY BackFacts DEF EntriesOf, Unwritten
  <2>2. wasWrote' \subseteq Slots
    BY <1>1, <2>1 DEF TypeOK, EntryWrites
  <2>3. buf_baseInfo' \in [Slots -> 0 .. POS - 1]
    BY <1>1, WritesKeep
  <2>4. {s1', s2', new_inst', falsepred'} \subseteq AtMostOne
    BY <1>5, <1>6
  <2>5. next' = resume /\ want' = resume /\ lost' = FALSE
    BY <1>1 DEF Predictor, History
  <2>6. << >> \in Seq(Blocks)
    OBVIOUS
  <2>7. {pptr_flipped', fptr_flipped', cptr_flipped', lost'} \subseteq BOOLEAN
    BY <1>7, <1>8, <2>5
  <2>8. ~Squashed'
    BY DEF Squashed
  <2> QED
    BY <1>8, <2>2, <2>3, <2>4, <2>5, <2>6, <2>7, <2>8 DEF TypeOK
<1>10. Stages(w - d)' /\ Undelivered(w - d)' = w - d
  <2>1. {s1', s2', new_inst'} \subseteq AtMostOne
    BY <1>5, <1>6
  <2>2. Len(s1') = 0 /\ Len(s2') = 0 /\ Len(new_inst') = 0
    BY <1>5, <1>6
  <2>3. w = ((w - Len(s1')) - Len(s2')) - Len(new_inst')
    BY <1>4, <2>2, SizeAssumption
  <2>4. w \in d .. FTQ_SIZE /\ w \in d .. w
    BY <1>2, <1>3
  <2> QED
    BY <1>1, <1>5, <2>1, <2>3, <2>4, RebaseStages
<1>11. DOMAIN back' = {} /\ Unwritten' = {}
  BY <1>6 DEF Unwritten
<1>12. w \in Int /\ w .. w - 1 = {} /\ w \in d .. w /\ w <= w
  BY <1>2, <1>4, SizeAssumption
<1>13. Backend(w - d)' /\ Fresh(w - d, w - d)'
  BY <1>1, <1>3, <1>8, <1>9, <1>10, <1>11, <1>12, RebaseBackend
<1>14. Stream(w - d, w - d)'
  <2>1. Then(w, w) = want'
    BY <1>1 DEF Then, Predictor, History
  <2> QED
    BY <1>1, <1>3, <1>5, <1>10, <1>12, <2>1, RebaseStream
<1>15. Shape(w - d, w - d)'
  BY <1>8, <1>10, <1>13, <1>14 DEF Shape
<1>16. ReadsOwn'
  <2>1. Own'
    BY <1>5, <1>11 DEF Own
  <2>2. (TypeOK => (ReadsOwn <=> Own))'
    BY OwnMeans, PTL
  <2> QED
    BY <1>9, <2>1, <2>2
<1>17. w - d \in 0 .. FTQ_SIZE
  BY <1>2, <1>3, SizeAssumption
<1> QED
  BY <1>2, <1>9, <1>15, <1>16, <1>17

-----------------------------------------------------------------------------
(* What the ROB passes, in places. *)

\* A cycle in which nothing commits, or instructions up to some of a block.
LEMMA NormalMoves ==
  ASSUME TypeOK, NEW n \in 0 .. FTQ_SIZE, NEW f \in 0 .. FTQ_SIZE, Shape(n, f),
         NEW req \in BOOLEAN, NEW rdy \in BOOLEAN, NEW stall \in BOOLEAN, NEW bad \in BOOLEAN,
         bad => s2 # << >>, NEW S \in SUBSET Unwritten, NEW b \in BOOLEAN,
         Normal(req, rdy, stall, bad, S, b)
  PROVE  \E k \in 1 .. Len(back) + 1 : \E w \in 0 .. FTQ_SIZE : \E commit :
           Moves(n, f, req, rdy, stall, bad, S, b, k, commit, w)
<1>1. PICK j \in 0 .. Len(back) :
        /\ Cycle(req, rdy, stall, bad, IF j = 0 THEN << >> ELSE <<back[j].idx>>, EntriesOf(S), 0)
        /\ back' = SubSeq(Executed(S, b), IF j = 0 THEN 1 ELSE j, Len(back)) \o Delivered(stall)
        /\ squash' \in {"no"} \union {r \in {"except"} : back # << >>}
  BY DEF Normal
<1>2. /\ ~Squashed /\ Pointers(n, f) /\ Stages(f) /\ Backend(f) /\ squash # "mispred"
      /\ commit_ptr \in Slots /\ commit_ptr_thre \in Slots
  BY DEF Normal, Squashed, Shape, TypeOK
<1>3. /\ Off(commit_ptr_thre) \in 0 .. FTQ_SIZE - 1 /\ At(Off(commit_ptr_thre)) = commit_ptr_thre
      /\ Off(commit_ptr_thre) <= Undelivered(f)
  BY <1>2, PlaceBehind DEF Off, At, Backend
<1>4. Undelivered(f) \in Int
  BY <1>2, StageCounts, SizeAssumption
<1>5. Len(back) \in Nat /\ DOMAIN back = 1 .. Len(back) /\ (back # << >> => Len(back) # 0)
  <2>1. back \in Seq(Blocks)
    BY DEF TypeOK
  <2> QED
    BY <2>1
<1>6. CASE j = 0
  <2>1. Cycle(req, rdy, stall, bad, << >>, EntriesOf(S), 0) /\ NextThre(<< >>) = commit_ptr_thre
    BY <1>1, <1>6 DEF NextThre
  <2>2. back' = Passed(S, b, 1, stall)
    BY <1>1, <1>6 DEF Passed
  <2>3. 1 \in 1 .. Len(back) + 1 /\ (back # << >> => 1 \in DOMAIN back)
    BY <1>5
  <2>4. squash' \in {"no", "mispred", "except"} /\ (squash' # "no" => 1 \in DOMAIN back)
    BY <1>1, <2>3
  <2>5. \A i \in DOMAIN back' : Off(commit_ptr_thre) <= Off(back'[i].idx)
    BY <1>2, <2>2, <2>3, BackOrder
  <2>6. Off(commit_ptr_thre) \in 0 .. FTQ_SIZE /\ Off(commit_ptr_thre) <= Off(commit_ptr_thre)
    BY <1>3, SizeAssumption
  <2>7. Moves(n, f, req, rdy, stall, bad, S, b, 1, << >>, Off(commit_ptr_thre))
    BY <1>2, <1>3, <2>1, <2>2, <2>4, <2>5, <2>6 DEF Moves
  <2> QED
    BY <2>3, <2>6, <2>7
<1>7. CASE j # 0
  <2> DEFINE c == <<back[j].idx>>
             w == Off(back[j].idx)
  <2>1. j \in DOMAIN back /\ j \in 1 .. Len(back) + 1
    BY <1>5, <1>7
  <2>2. Cycle(req, rdy, stall, bad, c, EntriesOf(S), 0) /\ NextThre(c) = back[j].idx
    BY <1>1, <1>7 DEF NextThre
  <2>3. back' = Passed(S, b, j, stall)
    BY <1>1, <1>7 DEF Passed
  <2>4. w \in 0 .. FTQ_SIZE - 1 /\ At(w) = back[j].idx
    BY <2>1, BackFacts
  <2>5. Off(commit_ptr_thre) <= w /\ w < Undelivered(f)
    BY <1>2, <2>1 DEF Backend
  <2>6. w \in 0 .. FTQ_SIZE /\ w <= Undelivered(f)
    BY <1>4, <2>4, <2>5, SizeAssumption
  <2>7. \A i \in DOMAIN back' : w <= Off(back'[i].idx)
    <3>1. j \in DOMAIN back => \A i \in DOMAIN back' : Off(back[j].idx) <= Off(back'[i].idx)
      BY <2>1, <2>3, BackOrder, SMTT(30), ZenonT(40)
    <3> QED
      BY <2>1, <3>1
  <2>8. squash' \in {"no", "mispred", "except"}
    BY <1>1
  <2> HIDE DEF c, w
  <2>9. Moves(n, f, req, rdy, stall, bad, S, b, j, c, w)
    BY <1>2, <2>1, <2>2, <2>3, <2>4, <2>5, <2>6, <2>7, <2>8 DEF Moves
  <2> QED
    BY <2>1, <2>6, <2>9
<1> QED
  BY <1>6, <1>7

\* A cycle in which a mispredicted branch commits.
LEMMA MispredMoves ==
  ASSUME TypeOK, NEW n \in 0 .. FTQ_SIZE, NEW f \in 0 .. FTQ_SIZE, Shape(n, f),
         NEW req \in BOOLEAN, NEW rdy \in BOOLEAN, NEW stall \in BOOLEAN, NEW bad \in BOOLEAN,
         bad => s2 # << >>, NEW S \in SUBSET Unwritten, NEW b \in BOOLEAN,
         CommitMispred(req, rdy, stall, bad, S, b)
  PROVE  \E k \in 1 .. Len(back) + 1 : \E w \in 0 .. FTQ_SIZE : \E commit :
           Moves(n, f, req, rdy, stall, bad, S, b, k, commit, w)
<1>1. PICK k \in DOMAIN back :
        /\ Cycle(req, rdy, stall, bad, <<After(back[k].idx)>>, EntriesOf(S), 0)
        /\ back' = SubSeq(Executed(S, b), k, Len(back)) \o Delivered(stall)
        /\ squash' = "mispred"
  BY DEF CommitMispred
<1>2. /\ ~Squashed /\ Stages(f) /\ Backend(f) /\ squash # "mispred" /\ commit_ptr \in Slots
      /\ commit_ptr_thre \in Slots
  BY DEF CommitMispred, Squashed, Shape, TypeOK
<1> DEFINE o == Off(back[k].idx)
           w == o + 1
           c == <<After(back[k].idx)>>
<1>3. k \in 1 .. Len(back) + 1 /\ o \in 0 .. FTQ_SIZE - 1 /\ At(o) = back[k].idx
  BY BackFacts
<1>4. Off(commit_ptr_thre) <= o /\ o < Undelivered(f)
  BY <1>2 DEF Backend
<1>5. Undelivered(f) \in Int /\ Off(commit_ptr_thre) \in Int
  <2>1. Undelivered(f) \in Int
    BY <1>2, StageCounts, SizeAssumption
  <2>2. Off(commit_ptr_thre) \in 0 .. FTQ_SIZE - 1
    BY <1>2, PlaceBehind DEF Off
  <2> QED
    BY <2>1, <2>2
<1>6. w \in 0 .. FTQ_SIZE /\ Off(commit_ptr_thre) <= w /\ w <= Undelivered(f)
  BY <1>3, <1>4, <1>5, SizeAssumption
<1>7. NextThre(c) = At(w)
  <2>1. After(back[k].idx) = At(w)
    BY <1>2, <1>3, PlaceNext DEF At
  <2>2. NextThre(c) = After(back[k].idx)
    BY DEF NextThre
  <2> QED
    BY <2>1, <2>2
<1>8. back' = Passed(S, b, k, stall)
  BY <1>1 DEF Passed
<1>9. Cycle(req, rdy, stall, bad, c, EntriesOf(S), 0)
  BY <1>1
<1> HIDE DEF o, w, c
<1>10. Moves(n, f, req, rdy, stall, bad, S, b, k, c, w)
  BY <1>1, <1>2, <1>6, <1>7, <1>8, <1>9 DEF Moves
<1> QED
  BY <1>3, <1>6, <1>10

-----------------------------------------------------------------------------
(* The refinement of FetchQueue. *)

\* the blocks in the ring, oldest first
Held(n) == [i \in 1 .. n |-> buf_baseInfo[At(i - 1)]]

\* Once around the ring at most, the remainder is the distance from slot 0.
LEMMA Remainder ==
  ASSUME NEW a \in 0 .. 2 * FTQ_SIZE - 1
  PROVE  a % FTQ_SIZE = IF a < FTQ_SIZE THEN a ELSE a - FTQ_SIZE
<1>1. FTQ_SIZE \in Nat \ {0} /\ a \in Nat
  BY SizeAssumption
<1>2. CASE a < FTQ_SIZE
  BY <1>1, <1>2
<1>3. CASE ~(a < FTQ_SIZE)
  <2>1. a - FTQ_SIZE \in 0 .. FTQ_SIZE - 1
    BY <1>1, <1>3
  <2> QED
    BY <1>1, <1>3, <2>1
<1> QED
  BY <1>2, <1>3

\* the pointers and flip bits show the blocks held
Shown == \A n, f \in 0 .. FTQ_SIZE : TypeOK /\ Pointers(n, f) => Count = n /\ InRing = Held(n)

\* They do.
LEMMA QueueIs == Shown
<1> SUFFICES ASSUME NEW n \in 0 .. FTQ_SIZE, NEW f \in 0 .. FTQ_SIZE, TypeOK, Pointers(n, f)
             PROVE  Count = n /\ InRing = Held(n)
  BY DEF Shown
<1>1. commit_ptr \in Slots /\ pred_ptr = Place(commit_ptr, n) /\ FTQ_SIZE \in Nat /\ FTQ_SIZE > 0
  BY SizeAssumption DEF TypeOK, Pointers, At
<1>2. Count = n
  <2>1. CASE ftqFull
    BY <2>1, FullMeans DEF Count
  <2>2. CASE ~ftqFull
    <3>1. n \in 0 .. FTQ_SIZE - 1
      BY <2>2, FullMeans, SizeAssumption
    <3>2. \/ pred_ptr + FTQ_SIZE - commit_ptr = n
          \/ pred_ptr + FTQ_SIZE - commit_ptr = n + FTQ_SIZE
      BY <1>1, <3>1 DEF Place, Slots
    <3>3. n % FTQ_SIZE = n /\ (n + FTQ_SIZE) % FTQ_SIZE = n
      BY <1>1, <3>1
    <3> QED
      BY <2>2, <3>2, <3>3 DEF Count
  <2> QED
    BY <2>1, <2>2
<1>3. ASSUME NEW i \in 1 .. n PROVE (commit_ptr + i - 1) % FTQ_SIZE = At(i - 1)
  <2>1. i - 1 \in 0 .. FTQ_SIZE - 1 /\ commit_ptr \in 0 .. FTQ_SIZE - 1
    BY <1>1 DEF Slots
  <2>2. commit_ptr + i - 1 \in 0 .. 2 * FTQ_SIZE - 1 /\ commit_ptr + i - 1 = commit_ptr + (i - 1)
    BY <1>1, <2>1
  <2> DEFINE x == commit_ptr + i - 1
  <2>3. x % FTQ_SIZE = IF x < FTQ_SIZE THEN x ELSE x - FTQ_SIZE
    BY <2>2, Remainder
  <2>4. At(i - 1) = IF x < FTQ_SIZE THEN x ELSE x - FTQ_SIZE
    BY <1>1, <2>1, <2>2 DEF At, Place
  <2> HIDE DEF x
  <2>5. x % FTQ_SIZE = At(i - 1)
    BY <2>3, <2>4
  <2> QED
    BY <2>5 DEF x
<1> QED
  BY <1>2, <1>3 DEF InRing, Held

\* The queue is a sequence of positions.
LEMMA HeldType ==
  ASSUME TypeOK, NEW n \in 0 .. FTQ_SIZE
  PROVE  /\ Held(n) \in Seq(0 .. POS - 1) /\ Len(Held(n)) = n
         /\ \A i \in 1 .. n : Held(n)[i] = buf_baseInfo[At(i - 1)]
<1>1. ASSUME NEW i \in 1 .. n PROVE buf_baseInfo[At(i - 1)] \in 0 .. POS - 1
  <2>1. i - 1 \in 0 .. FTQ_SIZE /\ commit_ptr \in Slots
    BY SizeAssumption DEF TypeOK
  <2>2. At(i - 1) \in Slots
    BY <2>1, PlaceType DEF At
  <2> QED
    BY <2>2 DEF TypeOK
<1>2. n \in Nat
  BY SizeAssumption
<1> QED
  BY <1>1, <1>2 DEF Held

\* A sequence that begins with one and goes on with another.
LEMMA Joined ==
  ASSUME NEW T, NEW a \in Seq(T), NEW x \in Seq(T), NEW y \in Seq(T), Len(y) = Len(a) + Len(x),
         \A i \in 1 .. Len(a) : y[i] = a[i], \A i \in 1 .. Len(x) : y[Len(a) + i] = x[i]
  PROVE  y = a \o x
<1>1. /\ a \o x \in Seq(T) /\ Len(a \o x) = Len(a) + Len(x)
      /\ \A i \in 1 .. Len(a) + Len(x) : (a \o x)[i] = IF i <= Len(a) THEN a[i] ELSE x[i - Len(a)]
  BY ConcatProperties
<1>2. ASSUME NEW i \in 1 .. Len(y) PROVE y[i] = (a \o x)[i]
  <2>1. Len(a) \in Nat /\ Len(x) \in Nat
    OBVIOUS
  <2>2. CASE i <= Len(a)
    BY <1>1, <2>1, <2>2
  <2>3. CASE ~(i <= Len(a))
    <3>1. i - Len(a) \in 1 .. Len(x) /\ Len(a) + (i - Len(a)) = i
      BY <2>1, <2>3
    <3>2. y[Len(a) + (i - Len(a))] = x[i - Len(a)]
      BY <3>1
    <3> QED
      BY <1>1, <2>1, <2>3, <3>1, <3>2
  <2> QED
    BY <2>2, <2>3
<1> QED
  BY <1>1, <1>2, SeqEqual

\* A cycle that lets d blocks go, keeps those up to place l and adds joined
\* behind them is a step of the queue.
LEMMA QueueStep ==
  ASSUME TypeOK, TypeOK', NEW n \in 0 .. FTQ_SIZE, NEW f \in 0 .. FTQ_SIZE, Pointers(n, f),
         NEW N \in 0 .. FTQ_SIZE, NEW F \in 0 .. FTQ_SIZE, Pointers(N, F)',
         NEW req \in BOOLEAN, NEW wb, EntryWrites(req, wb), NEW commit, CommitRing(req, commit),
         NEW d, d = Leaves, NEW l \in d .. n,
         NEW joined, \/ joined = << >> /\ N = l - d
                     \/ joined = <<next>> /\ l = n /\ DoPred(req) /\ N = l - d + 1
  PROVE  Queue!Next
<1> DEFINE T == 0 .. POS - 1
           q == InRing
           r == InRing'
           a == SubSeq(q, d + 1, l)
<1>1. d \in {0, 1} /\ \A o \in d .. FTQ_SIZE : Place(commit_ptr', o - d) = At(o)
  BY CommitMoves
<1>2. q = Held(n) /\ q \in Seq(T) /\ Len(q) = n /\ \A i \in 1 .. n : q[i] = buf_baseInfo[At(i - 1)]
  BY QueueIs, HeldType DEF Shown
<1>3. /\ r \in Seq(T) /\ Len(r) = N
      /\ \A i \in 1 .. N : r[i] = buf_baseInfo'[Place(commit_ptr', i - 1)]
  <2>1. Shown'
    BY QueueIs, PTL
  <2>2. r = Held(N)'
    BY <2>1 DEF Shown
  <2>3. Held(N)' = [i \in 1 .. N |-> buf_baseInfo'[Place(commit_ptr', i - 1)]]
    BY DEF Held, At
  <2>4. ASSUME NEW i \in 1 .. N PROVE buf_baseInfo'[Place(commit_ptr', i - 1)] \in T
    <3>1. i - 1 \in 0 .. FTQ_SIZE /\ commit_ptr' \in Slots /\ buf_baseInfo' \in [Slots -> T]
      BY SizeAssumption DEF TypeOK
    <3>2. Place(commit_ptr', i - 1) \in Slots
      BY <3>1, PlaceType
    <3> QED
      BY <3>1, <3>2
  <2>5. N \in Nat
    BY SizeAssumption
  <2> HIDE DEF T, r
  <2> QED
    BY <2>2, <2>3, <2>4, <2>5
<1>4. /\ \A o \in 0 .. n - 1 : buf_baseInfo'[At(o)] = buf_baseInfo[At(o)]
      /\ DoPred(req) => buf_baseInfo'[At(n)] = next /\ n < FTQ_SIZE
  BY WritesKeep
<1>5. next \in T /\ FTQ_SIZE \in Nat /\ l \in Int /\ N \in Int /\ d \in Int
  BY <1>1, SizeAssumption DEF TypeOK
<1>6. joined \in Seq(T) /\ joined \in {<< >>} \union {<<p>> : p \in T}
  <2>1. << >> \in Seq(T) /\ <<next>> \in Seq(T)
    BY <1>5
  <2>2. joined = << >> \/ joined = <<next>>
    OBVIOUS
  <2> HIDE DEF T
  <2> QED
    BY <1>5, <2>1, <2>2
<1> HIDE DEF T, q, r
<1>7. a \in Seq(T) /\ Len(a) = l - d /\ \A i \in 1 .. l - d : a[i] = q[i + d]
  <2>1. d + 1 \in 1 .. Len(q) + 1 /\ l \in (d + 1) - 1 .. Len(q)
    BY <1>1, <1>2, <1>5
  <2>2. \A i \in d + 1 .. l : q[i] \in T
    BY <1>1, <1>2, <1>5
  <2>3. /\ a \in Seq(T) /\ Len(a) = IF d + 1 <= l THEN l - (d + 1) + 1 ELSE 0
        /\ \A i \in 1 .. l - (d + 1) + 1 : a[i] = q[(d + 1) + i - 1]
    BY <1>5, <2>2, SubSeqProperties
  <2>4. /\ l - (d + 1) + 1 = l - d /\ (~(d + 1 <= l) => l - d = 0)
        /\ \A i \in 1 .. l - d : (d + 1) + i - 1 = i + d
    BY <1>1, <1>5
  <2> HIDE DEF a
  <2> QED
    BY <2>3, <2>4
<1> HIDE DEF a
<1>8. ASSUME NEW i \in 1 .. l - d PROVE i \in 1 .. N => r[i] = a[i]
  <2>1. /\ i + d \in 1 .. n /\ i + d - 1 \in 0 .. n - 1 /\ i + d - 1 \in d .. FTQ_SIZE
        /\ (i + d - 1) - d = i - 1 /\ (i + d) - 1 = i + d - 1
    BY <1>1, <1>5
  <2>2. a[i] = buf_baseInfo[At(i + d - 1)]
    BY <1>2, <1>7, <2>1
  <2>3. Place(commit_ptr', (i + d - 1) - d) = At(i + d - 1)
    BY <1>1, <2>1
  <2>4. buf_baseInfo'[At(i + d - 1)] = buf_baseInfo[At(i + d - 1)]
    BY <1>4, <2>1
  <2> QED
    BY <1>3, <2>1, <2>2, <2>3, <2>4
<1>9. ASSUME r = a \o joined, l - d + Len(joined) <= FTQ_SIZE PROVE Queue!Next
  <2>1. Queue!Change(d, l, joined)
    BY <1>9 DEF Queue!Change, a, q, r
  <2>2. d \in 0 .. 1 /\ l \in d .. Len(InRing)
    BY <1>1, <1>2 DEF q
  <2>3. joined \in {<< >>} \union {<<p>> : p \in 0 .. POS - 1}
    BY <1>6 DEF T
  <2> QED
    BY <1>9, <2>1, <2>2, <2>3 DEF Queue!Next
<1>10. CASE joined = << >> /\ N = l - d
  <2>1. Len(joined) = 0 /\ \A i \in 1 .. Len(joined) : r[Len(a) + i] = joined[i]
    BY <1>10
  <2>2. Len(r) = Len(a) + Len(joined) /\ \A i \in 1 .. Len(a) : r[i] = a[i]
    BY <1>3, <1>5, <1>7, <1>8, <1>10, <2>1
  <2>3. r = a \o joined
    BY <1>3, <1>6, <1>7, <2>1, <2>2, Joined
  <2>4. l - d + Len(joined) <= FTQ_SIZE
    BY <1>5, <1>10, <2>1
  <2> QED
    BY <1>6, <1>9, <2>3, <2>4
<1>11. CASE joined = <<next>> /\ l = n /\ DoPred(req) /\ N = l - d + 1
  <2>1. Len(joined) = 1 /\ joined[1] = next
    BY <1>11
  <2>2. r[N] = next
    <3>1. n \in d .. FTQ_SIZE /\ n - d = N - 1 /\ N \in 1 .. N
      BY <1>1, <1>5, <1>11
    <3>2. Place(commit_ptr', n - d) = At(n)
      BY <1>1, <3>1
    <3> QED
      BY <1>3, <1>4, <1>11, <3>1, <3>2
  <2>3. Len(r) = Len(a) + Len(joined) /\ \A i \in 1 .. Len(a) : r[i] = a[i]
    <3>1. Len(r) = Len(a) + Len(joined)
      BY <1>3, <1>5, <1>7, <1>11, <2>1
    <3>2. ASSUME NEW i \in 1 .. Len(a) PROVE r[i] = a[i]
      <4>1. i \in 1 .. l - d /\ i \in 1 .. N
        BY <1>5, <1>7, <1>11
      <4> QED
        BY <1>8, <4>1
    <3> QED
      BY <3>1, <3>2
  <2>4. \A i \in 1 .. Len(joined) : r[Len(a) + i] = joined[i]
    <3>1. Len(a) + 1 = N
      BY <1>5, <1>7, <1>11
    <3> QED
      BY <2>1, <2>2, <3>1
  <2>5. r = a \o joined
    BY <1>3, <1>6, <1>7, <2>3, <2>4, Joined
  <2>6. l - d + Len(joined) <= FTQ_SIZE
    BY <1>5, <1>11, <2>1
  <2> QED
    BY <1>6, <1>9, <2>5, <2>6
<1> QED
  BY <1>10, <1>11

-----------------------------------------------------------------------------
(* All steps. *)

\* A cycle without a squash is a step of the queue.
LEMMA CycleRefines ==
  ASSUME TypeOK, Own, NEW n \in 0 .. FTQ_SIZE, NEW f \in 0 .. FTQ_SIZE, Shape(n, f),
         NEW req \in BOOLEAN, NEW rdy \in BOOLEAN, NEW stall \in BOOLEAN, NEW bad \in BOOLEAN,
         NEW S \in SUBSET Unwritten, NEW b \in BOOLEAN, NEW k \in 1 .. Len(back) + 1,
         NEW commit, NEW w \in 0 .. FTQ_SIZE,
         Moves(n, f, req, rdy, stall, bad, S, b, k, commit, w), NEW d, d = Leaves,
         NEW m, m = NewFilled(n, f, req), NEW g, g = NewFetched(f, req, rdy, stall),
         NEW u, u = NewUndelivered(f, req, rdy, stall)
  PROVE  Queue!Next
<1>1. PICK N, F : N = m - d /\ F = g - d
  OBVIOUS
<1>2. TypeOK' /\ m - d \in 0 .. FTQ_SIZE /\ g - d \in 0 .. FTQ_SIZE /\ Shape(m - d, g - d)'
  BY CycleKeeps
<1>3. Shape(N, F)'
  BY <1>1, <1>2
<1>4. TypeOK' /\ N \in 0 .. FTQ_SIZE /\ F \in 0 .. FTQ_SIZE /\ Pointers(N, F)'
  BY <1>1, <1>2, <1>3 DEF Shape
<1>5. Pointers(n, f) /\ EntryWrites(req, EntriesOf(S)) /\ CommitRing(req, commit)
  BY DEF Shape, Moves, Cycle, Ring
<1>6. d \in {0, 1} /\ d <= Off(commit_ptr_thre) /\ Off(commit_ptr_thre) \in 0 .. n
  BY <1>5, LeavesBehind
<1>7. /\ m \in d .. FTQ_SIZE
      /\ DoPred(req) => m = n + 1
      /\ ~DoPred(req) => m <= n
  BY NextCounts
<1>8. CASE DoPred(req)
  <2>1. n \in d .. n
    BY <1>6, SizeAssumption
  <2>2. N = n - d + 1
    BY <1>1, <1>6, <1>7, <1>8, SizeAssumption
  <2>3. PICK joined : joined = <<next>>
    OBVIOUS
  <2> QED
    BY <1>4, <1>5, <1>8, <2>1, <2>2, <2>3, QueueStep
<1>9. CASE ~DoPred(req)
  <2>1. m \in d .. n
    BY <1>6, <1>7, <1>9, SizeAssumption
  <2>2. PICK joined : joined = << >>
    OBVIOUS
  <2> QED
    BY <1>1, <1>4, <1>5, <2>1, <2>2, QueueStep
<1> QED
  BY <1>8, <1>9

\* Every cycle keeps the invariant, and is a step of the queue.
LEMMA NextKeeps == Inv /\ Next => Inv' /\ Queue!Next
<1> SUFFICES ASSUME Inv, Next PROVE Inv' /\ Queue!Next
  OBVIOUS
<1>1. PICK n \in 0 .. FTQ_SIZE, f \in 0 .. FTQ_SIZE : Shape(n, f)
  BY DEF Inv
<1>2. TypeOK /\ ReadsOwn /\ Own /\ Pointers(n, f)
  BY <1>1, OwnMeans DEF Inv, Shape
<1>3. PICK req \in {r \in BOOLEAN : r => ~ftqFull}, S \in {{}} \union {{j} : j \in Unwritten} :
        \/ \E stall \in BOOLEAN :
             \E rdy \in {r \in BOOLEAN : r => DoFetch(req, stall) /\ ~stall} :
               \E bad \in {r \in BOOLEAN : r => s2 # << >> /\ falsepred = << >>} :
                 \E b \in {r \in BOOLEAN : r => S # {}} :
                   Normal(req, rdy, stall, bad, S, b) \/ CommitMispred(req, rdy, stall, bad, S, b)
        \/ SquashCycle(req, S)
  BY DEF Next
<1>4. req \in BOOLEAN /\ S \in SUBSET Unwritten
  OBVIOUS
<1>5. ASSUME NEW stall \in BOOLEAN, NEW rdy \in BOOLEAN, NEW bad \in BOOLEAN, bad => s2 # << >>,
             NEW b \in BOOLEAN,
             Normal(req, rdy, stall, bad, S, b) \/ CommitMispred(req, rdy, stall, bad, S, b)
      PROVE  Inv' /\ Queue!Next
  <2>0. PICK k \in 1 .. Len(back) + 1, w \in 0 .. FTQ_SIZE :
          \E commit : Moves(n, f, req, rdy, stall, bad, S, b, k, commit, w)
    <3>1. CASE Normal(req, rdy, stall, bad, S, b)
      BY <1>1, <1>2, <1>4, <1>5, <3>1, NormalMoves
    <3>2. CASE CommitMispred(req, rdy, stall, bad, S, b)
      BY <1>1, <1>2, <1>4, <1>5, <3>2, MispredMoves
    <3> QED
      BY <1>5, <3>1, <3>2
  <2>1. PICK commit : Moves(n, f, req, rdy, stall, bad, S, b, k, commit, w)
    BY <2>0
  <2>2. PICK d, m, g, u : /\ d = Leaves /\ m = NewFilled(n, f, req) /\ g = NewFetched(f, req, rdy, stall)
                          /\ u = NewUndelivered(f, req, rdy, stall)
    OBVIOUS
  <2>3. TypeOK' /\ ReadsOwn' /\ m - d \in 0 .. FTQ_SIZE /\ g - d \in 0 .. FTQ_SIZE /\ Shape(m - d, g - d)'
    BY <1>1, <1>2, <1>4, <2>1, <2>2, CycleKeeps
  <2>4. Queue!Next
    BY <1>1, <1>2, <1>4, <2>1, <2>2, CycleRefines
  <2> QED
    BY <2>3, <2>4 DEF Inv
<1>6. ASSUME SquashCycle(req, S) PROVE Inv' /\ Queue!Next
  <2> DEFINE resume == IF squash = "mispred" THEN Following(back[1].pos) ELSE back[1].pos
             wrong == IF squash = "mispred" THEN {<<back[j].idx>> : j \in 2 .. Len(back)} ELSE {}
  <2>1. PICK commit \in {<< >>} \union wrong :
          Cycle(req, FALSE, FALSE, FALSE, commit, EntriesOf(S), resume)
    BY <1>6 DEF SquashCycle
  <2>2. Squashed /\ back' = << >> /\ squash' = "no"
    BY <1>6 DEF SquashCycle
  <2>3. resume \in 0 .. POS - 1
    <3>1. back # << >> /\ back \in Seq(Blocks)
      BY <1>2, <2>2 DEF TypeOK
    <3>2. 1 \in DOMAIN back
      BY <3>1
    <3>3. back[1] \in Blocks
      BY <3>1, <3>2
    <3>4. back[1].pos \in 0 .. POS - 1
      BY <3>3 DEF Blocks
    <3> QED
      BY <3>4, FollowingType
  <2>4. commit = << >> \/ \E j \in 2 .. Len(back) : commit = <<back[j].idx>>
    BY <2>1
  <2> HIDE DEF resume, wrong
  <2>5. PICK d, w : d = Leaves /\ w = Off(NextThre(commit))
    OBVIOUS
  <2>6. /\ TypeOK' /\ ReadsOwn' /\ w - d \in 0 .. FTQ_SIZE /\ Shape(w - d, w - d)'
        /\ d \in {0, 1} /\ w \in d .. n
    BY <1>1, <1>2, <1>4, <2>1, <2>2, <2>3, <2>4, <2>5, SquashKeeps
  <2>7. Queue!Next
    <3>1. PICK N, joined : N = w - d /\ joined = << >>
      OBVIOUS
    <3>2. Shape(N, N)'
      BY <2>6, <3>1
    <3>3. TypeOK' /\ N \in 0 .. FTQ_SIZE /\ Pointers(N, N)'
      BY <2>6, <3>1, <3>2 DEF Shape
    <3>4. EntryWrites(req, EntriesOf(S)) /\ CommitRing(req, commit)
      BY <2>1 DEF Cycle, Ring
    <3> QED
      BY <1>2, <1>4, <2>5, <2>6, <3>1, <3>3, <3>4, QueueStep
  <2> QED
    BY <2>6, <2>7 DEF Inv
<1> QED
  BY <1>3, <1>5, <1>6

\* So does standing still.
LEMMA StutterKeeps == Inv /\ UNCHANGED vars => Inv' /\ InRing' = InRing
<1> SUFFICES ASSUME Inv, UNCHANGED vars PROVE Inv' /\ InRing' = InRing
  OBVIOUS
<1>1. PICK n \in 0 .. FTQ_SIZE, f \in 0 .. FTQ_SIZE : Shape(n, f)
  BY DEF Inv
<1>2. TypeOK'
  BY DEF Inv, TypeOK, vars, ring, Squashed
<1>3. ReadsOwn'
  BY DEF Inv, ReadsOwn, vars, ring
<1>4. Shape(n, f)'
  BY <1>1 DEF Shape, Pointers, Stages, Backend, Fresh, Stream, Coming, Refetch, Undelivered,
     At, Off, Unwritten, vars, ring
<1>5. InRing' = InRing
  BY DEF InRing, Count, ftqFull, vars, ring
<1> QED
  BY <1>2, <1>3, <1>4, <1>5 DEF Inv

-----------------------------------------------------------------------------
(* The theorems. *)

\* The invariant of the fetch target queue, for every size of the ring.
THEOREM Invariance == Spec => []Inv
<1>1. Init => Inv
  BY InitInv
<1>2. Inv /\ [Next]_vars => Inv'
  BY NextKeeps, StutterKeeps
<1> QED
  BY <1>1, <1>2, PTL DEF Spec

\* The pointers, flip bits and valid bits of FTQ.sv describe one window, and the
\* assertions of FTQ.sv on commits and branch write-backs hold.
THEOREM RingConsistency == Spec => []RingConsistent
<1>1. Inv => RingConsistent
  BY InvConsistent
<1> QED
  BY <1>1, Invariance, PTL

\* No entry is overwritten while a block that was read from it is on its way or
\* may still be executed.
THEOREM EntriesKept == Spec => []ReadsOwn
<1>1. Inv => ReadsOwn
  BY DEF Inv
<1> QED
  BY <1>1, Invariance, PTL

\* What reaches the instruction buffer is the next block of the program, unless
\* a stall met a false prediction.
THEOREM StreamSafety == Spec => []OnlyStallLoses
<1>1. Inv => OnlyStallLoses
  <2> SUFFICES ASSUME Inv, ~lost, new_inst # << >> PROVE new_inst[1].pos = want
    BY DEF OnlyStallLoses, StreamInOrder
  <2>1. PICK n \in 0 .. FTQ_SIZE, f \in 0 .. FTQ_SIZE : Shape(n, f)
    BY DEF Inv
  <2>2. TypeOK /\ Own
    BY OwnMeans DEF Inv
  <2>3. CASE falsepred # << >>
    BY <2>1, <2>3 DEF Shape, Stream
  <2>4. CASE falsepred = << >>
    <3>1. Coming(n, Undelivered(f)) = want
      BY <2>1, <2>4 DEF Shape, Stream
    <3>2. Undelivered(f) \in 0 .. n - 1 /\ new_inst[1].idx = At(Undelivered(f))
      BY <2>1, <2>2, BlocksInRing
    <3>3. Undelivered(f) # n
      BY <3>2, SizeAssumption
    <3>4. buf_baseInfo[new_inst[1].idx] = new_inst[1].pos
      BY <2>2 DEF Own, Owns
    <3> QED
      BY <3>1, <3>2, <3>3, <3>4 DEF Coming
  <2> QED
    BY <2>3, <2>4
<1> QED
  BY <1>1, Invariance, PTL

\* Nothing is in the ring at first.
LEMMA InitRefines == Init => Queue!Init
<1> SUFFICES ASSUME Init PROVE InRing = << >>
  BY DEF Queue!Init
<1>1. ~ftqFull
  BY DEF Init, ftqFull
<1>2. (0 + FTQ_SIZE - 0) % FTQ_SIZE = 0
  BY Remainder, SizeAssumption
<1>3. Count = 0
  BY <1>1, <1>2 DEF Init, Count
<1>4. InRing = [i \in 1 .. 0 |-> buf_baseInfo[(commit_ptr + i - 1) % FTQ_SIZE]]
  BY <1>3 DEF InRing
<1>5. 1 .. 0 = {}
  OBVIOUS
<1>6. Len(InRing) = 0 /\ InRing \in Seq({0})
  BY <1>4, <1>5
<1> QED
  BY <1>6

\* The ring, with its pointers, flip bits and bits, is a queue of blocks that
\* loses the oldest to commits and the youngest to corrections and squashes.
THEOREM Refinement == Spec => ImplementsQueue
<1>1. Init => Queue!Init
  BY InitRefines
<1>2. Inv /\ [Next]_vars => [Queue!Next]_InRing
  BY NextKeeps, StutterKeeps
<1> QED
  BY <1>1, <1>2, Invariance, PTL DEF Spec, ImplementsQueue, Queue!Spec
=============================================================================
