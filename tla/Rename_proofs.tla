---------------------------- MODULE Rename_proofs ----------------------------
(***************************************************************************)
(* Three arguments about renaming, for any number of registers,            *)
(* instructions and ports.                                                 *)
(*                                                                         *)
(* The first: the speculative map is the architectural one with the        *)
(* instructions in flight applied.  Written looks for the last writer of   *)
(* each register in one list; that two lists can be applied one after the  *)
(* other (WrittenJoined) is the whole argument, because every cycle only   *)
(* moves the point where the list of instructions is cut.                  *)
(*                                                                         *)
(* The second: where the physical registers are.  None is lost or freed    *)
(* twice, a register that somebody still reads is not handed out, and a    *)
(* squash finds what it has to take back.                                  *)
(*                                                                         *)
(* Nothing counts the references to a register that eliminated moves put   *)
(* behind several logical ones, so the invariant cannot speak of counts.   *)
(* It says (AsRenamed) that the instructions in flight are renamed as if   *)
(* they were renamed now, in order, from the architectural map and the     *)
(* ring at arch_deq_ptr.  From it follows where any register comes from    *)
(* (Origin): x0, the architectural map, or an older instruction in flight  *)
(* that took it from the ring; a chain of moves ends there.  Hence what a  *)
(* commit maps and displaces is what was mapped and what commits           *)
(* (MapMoves), which is all that conservation needs.                       *)
(*                                                                         *)
(* The third: out-of-order execution over the renamed registers shows the  *)
(* programmer the program executed in order.  No counting of references is *)
(* needed for it, and none is done.  The instructions in flight are those  *)
(* of the program, each with its source looked up in the architectural map *)
(* as the older ones leave it (Follows).  What has been computed is the    *)
(* complement of its source (Computed): a statement about one instruction, *)
(* true as long as nobody overwrites either register.  And nobody does:    *)
(* what is written, by an execution or by the mark on a group that enters  *)
(* the ROB, belongs to an instruction that took it from the ring, and is   *)
(* neither in the map nor any older instruction's (TakenApart, MarkApart,  *)
(* ExecuteWrites), which the second argument says of the registers.        *)
(***************************************************************************)
EXTENDS Dataflow, SequenceTheorems, FiniteSetTheorems, WellFoundedInduction, TLAPS

\* A sequence, whatever its elements are.
IsList(s) == s \in Seq(SeqRange(s))

\* A map has an entry for every logical register.
IsMap(m) == m = [l \in LRegs |-> m[l]]

Inv ==
  /\ IsList(rob) /\ IsList(renamed)
  /\ IsMap(arch_mapping)
  /\ SpecIsReplay

-----------------------------------------------------------------------------
(* Lists. *)

\* What is a function from 1 .. n is a list.
LEMMA ListDef ==
  ASSUME NEW s
  PROVE  /\ IsList(s) <=> \E n \in Nat : s = [i \in 1 .. n |-> s[i]]
         /\ IsList(s) => Len(s) \in Nat /\ DOMAIN s = 1 .. Len(s) /\ s = [i \in 1 .. Len(s) |-> s[i]]
<1>1. ASSUME IsList(s)
      PROVE  Len(s) \in Nat /\ DOMAIN s = 1 .. Len(s) /\ s = [i \in 1 .. Len(s) |-> s[i]]
  <2>1. s \in Seq(SeqRange(s))
    BY <1>1 DEF IsList
  <2>2. Len(s) \in Nat /\ s \in [1 .. Len(s) -> SeqRange(s)]
    BY <2>1, LenProperties
  <2> QED
    BY <2>2
<1>2. ASSUME NEW n \in Nat, s = [i \in 1 .. n |-> s[i]] PROVE IsList(s)
  <2>1. DOMAIN s = 1 .. n
    BY <1>2
  <2>2. \A i \in 1 .. n : s[i] \in SeqRange(s)
    BY <2>1 DEF SeqRange
  <2>3. s \in [1 .. n -> SeqRange(s)]
    BY <1>2, <2>2
  <2> QED
    BY <2>3 DEF IsList
<1> QED
  BY <1>1, <1>2

\* The empty list is one.
LEMMA EmptyList == IsList(<< >>) /\ Len(<< >>) = 0 /\ DOMAIN << >> = {}
  BY DEF IsList

\* Two lists joined.
LEMMA JoinedList ==
  ASSUME NEW s, NEW t, IsList(s), IsList(t)
  PROVE  /\ IsList(s \o t)
         /\ Len(s \o t) = Len(s) + Len(t)
         /\ \A i \in 1 .. Len(s) : (s \o t)[i] = s[i]
         /\ \A i \in 1 .. Len(t) : (s \o t)[Len(s) + i] = t[i]
<1> DEFINE S == SeqRange(s) \union SeqRange(t)
<1>1. s \in Seq(S) /\ t \in Seq(S)
  <2>1. Len(s) \in Nat /\ s \in [1 .. Len(s) -> S]
    BY ListDef DEF SeqRange
  <2>2. Len(t) \in Nat /\ t \in [1 .. Len(t) -> S]
    BY ListDef DEF SeqRange
  <2> QED
    BY <2>1, <2>2
<1> HIDE DEF S
<1>2. Len(s) \in Nat /\ Len(t) \in Nat
  BY <1>1, LenProperties
<1>3. /\ s \o t \in Seq(S)
      /\ Len(s \o t) = Len(s) + Len(t)
      /\ \A i \in 1 .. Len(s) + Len(t) : (s \o t)[i] = IF i <= Len(s) THEN s[i] ELSE t[i - Len(s)]
  BY <1>1, ConcatProperties
<1>4. \A i \in 1 .. Len(s) : (s \o t)[i] = s[i]
  BY <1>2, <1>3
<1>5. ASSUME NEW i \in 1 .. Len(t) PROVE (s \o t)[Len(s) + i] = t[i]
  <2>1. PICK j \in 1 .. Len(s) + Len(t) : j = Len(s) + i
    BY <1>2
  <2>2. ~(j <= Len(s)) /\ j - Len(s) = i
    BY <1>2, <2>1
  <2> QED
    BY <1>3, <2>1, <2>2
<1>6. IsList(s \o t)
  <2>1. Len(s \o t) \in Nat /\ s \o t \in [1 .. Len(s \o t) -> S]
    BY <1>3, LenProperties
  <2> QED
    BY <2>1, ListDef
<1> QED
  BY <1>3, <1>4, <1>5, <1>6

\* Joining is associative.
LEMMA JoinAssociative ==
  ASSUME NEW s, NEW t, NEW u, IsList(s), IsList(t), IsList(u)
  PROVE  (s \o t) \o u = s \o (t \o u)
<1> DEFINE S == SeqRange(s) \union SeqRange(t) \union SeqRange(u)
<1>1. s \in Seq(S) /\ t \in Seq(S) /\ u \in Seq(S)
  <2>1. Len(s) \in Nat /\ s \in [1 .. Len(s) -> S]
    BY ListDef DEF SeqRange
  <2>2. Len(t) \in Nat /\ t \in [1 .. Len(t) -> S]
    BY ListDef DEF SeqRange
  <2>3. Len(u) \in Nat /\ u \in [1 .. Len(u) -> S]
    BY ListDef DEF SeqRange
  <2> QED
    BY <2>1, <2>2, <2>3
<1> HIDE DEF S
<1> QED
  BY <1>1, ConcatAssociative

\* A list is cut anywhere into two.
LEMMA CutList ==
  ASSUME NEW s, IsList(s), NEW n \in 0 .. Len(s)
  PROVE  /\ IsList(SubSeq(s, 1, n)) /\ IsList(SubSeq(s, n + 1, Len(s)))
         /\ s = SubSeq(s, 1, n) \o SubSeq(s, n + 1, Len(s))
<1> DEFINE p == SubSeq(s, 1, n)
           q == SubSeq(s, n + 1, Len(s))
           S == SeqRange(s)
<1>1. PICK m \in Nat : m = Len(s) /\ s \in [1 .. m -> S]
  BY ListDef DEF SeqRange
<1> HIDE DEF S
<1>2. /\ p \in Seq(S) /\ Len(p) = n
      /\ \A i \in 1 .. n : p[i] = s[i]
  <2>1. /\ SubSeq(s, 1, n) \in Seq(S)
        /\ Len(SubSeq(s, 1, n)) = IF 1 <= n THEN n - 1 + 1 ELSE 0
        /\ \A i \in 1 .. n - 1 + 1 : SubSeq(s, 1, n)[i] = s[1 + i - 1]
    <3>1. 1 \in Int /\ n \in Int /\ \A i \in 1 .. n : s[i] \in S
      BY <1>1
    <3> QED
      BY <3>1, SubSeqProperties
  <2>2. n \in Nat /\ n - 1 + 1 = n /\ \A i \in 1 .. n : 1 + i - 1 = i
    BY <1>1
  <2> QED
    BY <2>1, <2>2
<1>3. /\ q \in Seq(S) /\ Len(q) = m - n
      /\ \A i \in 1 .. m - n : q[i] = s[n + i]
  <2>1. /\ SubSeq(s, n + 1, m) \in Seq(S)
        /\ Len(SubSeq(s, n + 1, m)) = IF n + 1 <= m THEN m - (n + 1) + 1 ELSE 0
        /\ \A i \in 1 .. m - (n + 1) + 1 : SubSeq(s, n + 1, m)[i] = s[(n + 1) + i - 1]
    <3>1. n + 1 \in Int /\ m \in Int /\ \A i \in n + 1 .. m : s[i] \in S
      BY <1>1
    <3> QED
      BY <3>1, SubSeqProperties
  <2>2. m - (n + 1) + 1 = m - n /\ \A i \in 1 .. m - n : (n + 1) + i - 1 = n + i
    BY <1>1
  <2>3. n \in 0 .. m /\ q = SubSeq(s, n + 1, m)
    BY <1>1
  <2> HIDE DEF q
  <2> QED
    BY <2>1, <2>2, <2>3
<1> HIDE DEF p, q
<1>4. IsList(p) /\ IsList(q)
  <2>1. n \in Nat /\ p \in [1 .. n -> S]
    BY <1>1, <1>2, LenProperties
  <2>2. Len(q) \in Nat /\ q \in [1 .. Len(q) -> S]
    BY <1>3, LenProperties
  <2> QED
    BY <2>1, <2>2, ListDef
<1>5. s = p \o q
  <2>1. s \in Seq(S)
    BY <1>1
  <2>2. /\ p \o q \in Seq(S)
        /\ Len(p \o q) = Len(p) + Len(q)
        /\ \A i \in 1 .. Len(p) + Len(q) : (p \o q)[i] = IF i <= Len(p) THEN p[i] ELSE q[i - Len(p)]
    BY <1>2, <1>3, ConcatProperties
  <2>3. Len(p) + Len(q) = m
    BY <1>1, <1>2, <1>3
  <2>4. ASSUME NEW i \in 1 .. m PROVE s[i] = (p \o q)[i]
    <3>1. CASE i <= n
      <4>1. i \in 1 .. n /\ i <= Len(p)
        BY <1>1, <1>2, <3>1
      <4> QED
        BY <1>2, <2>2, <2>3, <4>1
    <3>2. CASE ~(i <= n)
      <4>1. PICK j \in 1 .. m - n : j = i - n
        BY <1>1, <3>2
      <4>2. n + j = i /\ ~(i <= Len(p)) /\ i - Len(p) = j
        BY <1>1, <1>2, <3>2, <4>1
      <4> QED
        BY <1>3, <2>2, <2>3, <4>2
    <3> QED
      BY <3>1, <3>2
  <2> QED
    BY <1>1, <2>1, <2>2, <2>3, <2>4, SeqEqual
<1> QED
  BY <1>4, <1>5 DEF p, q

-----------------------------------------------------------------------------
(* The last writer of a register. *)

\* A set of naturals that is not empty has a least element.
LEMMA LeastElement ==
  ASSUME NEW T \in SUBSET Nat, T # {}
  PROVE  \E m \in T : \A k \in T : m <= k
<1> DEFINE R == {ss \in Nat \X Nat : ss[1] < ss[2]}
<1>1. IsWellFoundedOn(R, Nat)
  BY NatLessThanWellFounded DEF OpToRel
<1>2. PICK m \in T : \A k \in T : <<k, m>> \notin R
  BY <1>1, WFMin, Zenon
<1>3. ASSUME NEW k \in T PROVE m <= k
  <2>1. k \in Nat /\ m \in Nat
    OBVIOUS
  <2>2. ~(k < m)
    BY <1>2, <2>1
  <2> QED
    BY <2>1, <2>2
<1> QED
  BY <1>3

\* The greatest element of a set of positions is one of them.
LEMMA MaxFacts ==
  ASSUME NEW n \in Nat, NEW W \in SUBSET (1 .. n), W # {}
  PROVE  Max(W) \in W /\ \A y \in W : y <= Max(W)
<1> DEFINE T == {k \in 0 .. n : n - k \in W}
<1>1. T \in SUBSET Nat
  OBVIOUS
<1>2. T # {}
  <2>1. PICK y \in W : TRUE
    OBVIOUS
  <2>2. n - y \in 0 .. n /\ n - (n - y) = y
    BY <2>1
  <2> QED
    BY <2>2
<1>3. PICK m \in T : \A k \in T : m <= k
  BY <1>1, <1>2, LeastElement
<1>4. n - m \in W
  BY <1>3
<1>5. ASSUME NEW y \in W PROVE n - m >= y
  <2>1. n - y \in 0 .. n /\ n - (n - y) = y
    OBVIOUS
  <2>2. m <= n - y
    BY <1>3, <2>1
  <2> QED
    BY <1>3, <2>2
<1>6. \E x \in W : \A y \in W : x >= y
  BY <1>4, <1>5
<1>7. Max(W) \in W /\ \A y \in W : Max(W) >= y
  BY <1>6 DEF Max
<1> QED
  BY <1>7

\* ... and known by being so.
LEMMA MaxUnique ==
  ASSUME NEW W \in SUBSET Int, NEW x \in W, \A y \in W : y <= x
  PROVE  Max(W) = x
<1>1. Max(W) \in W /\ \A y \in W : Max(W) >= y
  <2>1. \E z \in W : \A y \in W : z >= y
    OBVIOUS
  <2> QED
    BY <2>1 DEF Max
<1>2. PICK z \in W : z = Max(W) /\ z >= x /\ z <= x
  BY <1>1
<1>3. z \in Int /\ x \in Int
  OBVIOUS
<1>4. z = x
  BY <1>2, <1>3
<1> QED
  BY <1>2, <1>4

\* the places of s that write register l
Writers(s, l) == {k \in DOMAIN s : HasRd(s[k]) /\ s[k].rd = l}

\* Two lists are written one after the other or as one.
LEMMA WrittenJoined ==
  ASSUME NEW map, NEW s, NEW t, IsList(s), IsList(t)
  PROVE  Written(Written(map, s), t) = Written(map, s \o t)
<1>1. PICK a \in Nat, b \in Nat : a = Len(s) /\ b = Len(t)
  BY ListDef
<1> DEFINE u == s \o t
<1>2. /\ DOMAIN s = 1 .. a /\ DOMAIN t = 1 .. b /\ DOMAIN u = 1 .. a + b
      /\ \A i \in 1 .. a : u[i] = s[i]
      /\ \A i \in 1 .. b : u[a + i] = t[i]
  BY <1>1, ListDef, JoinedList
<1> HIDE DEF u
<1>3. SUFFICES ASSUME NEW l \in LRegs
               PROVE  (IF Writers(t, l) = {} THEN Written(map, s)[l] ELSE t[Max(Writers(t, l))].prd)
                        = (IF Writers(u, l) = {} THEN map[l] ELSE u[Max(Writers(u, l))].prd)
  BY DEF Written, Writers, u
<1>4. Written(map, s)[l] = IF Writers(s, l) = {} THEN map[l] ELSE s[Max(Writers(s, l))].prd
  BY DEF Written, Writers
<1>5. ASSUME NEW k \in 1 .. a PROVE k \in Writers(u, l) <=> k \in Writers(s, l)
  <2>1. k \in 1 .. a + b /\ u[k] = s[k]
    BY <1>2
  <2> QED
    BY <1>2, <2>1 DEF Writers
<1>6. ASSUME NEW k \in 1 .. b PROVE a + k \in Writers(u, l) <=> k \in Writers(t, l)
  <2>1. a + k \in 1 .. a + b /\ u[a + k] = t[k]
    BY <1>2
  <2> QED
    BY <1>2, <2>1 DEF Writers
<1>7. /\ Writers(s, l) \in SUBSET (1 .. a) /\ Writers(t, l) \in SUBSET (1 .. b)
      /\ Writers(u, l) \in SUBSET (1 .. a + b)
  BY <1>2 DEF Writers
<1>8. CASE Writers(t, l) # {}
  <2>1. PICK j \in Writers(t, l) : j = Max(Writers(t, l)) /\ \A y \in Writers(t, l) : y <= j
    BY <1>7, <1>8, MaxFacts
  <2>2. j \in 1 .. b /\ a + j \in Writers(u, l)
    BY <1>6, <1>7, <2>1
  <2>3. ASSUME NEW y \in Writers(u, l) PROVE y <= a + j
    <3>1. y \in 1 .. a + b
      BY <1>7
    <3>2. CASE y <= a
      BY <2>2, <3>1, <3>2
    <3>3. CASE y > a
      <4>1. PICK k \in 1 .. b : y = a + k
        <5>1. y - a \in 1 .. b /\ y = a + (y - a)
          BY <3>1, <3>3
        <5> QED
          BY <5>1
      <4>2. k <= j
        BY <1>6, <2>1, <4>1
      <4> QED
        BY <2>2, <4>1, <4>2
    <3> QED
      BY <3>1, <3>2, <3>3
  <2>4. Writers(u, l) \in SUBSET Int
    BY <1>7
  <2>5. Max(Writers(u, l)) = a + j
    BY <2>2, <2>3, <2>4, MaxUnique
  <2>6. u[a + j] = t[j]
    BY <1>2, <2>2
  <2> QED
    BY <1>8, <2>1, <2>2, <2>5, <2>6
<1>9. CASE Writers(t, l) = {}
  <2>1. Writers(u, l) = Writers(s, l)
    <3>1. ASSUME NEW y \in Writers(u, l) PROVE y \in Writers(s, l)
      <4>1. y \in 1 .. a + b
        BY <1>7
      <4>2. ~(y > a)
        <5>1. SUFFICES ASSUME y > a PROVE FALSE
          OBVIOUS
        <5>2. PICK k \in 1 .. b : y = a + k
          <6>1. y - a \in 1 .. b /\ y = a + (y - a)
            BY <4>1, <5>1
          <6> QED
            BY <6>1
        <5> QED
          BY <1>6, <1>9, <5>2
      <4>3. y \in 1 .. a
        BY <4>1, <4>2
      <4> QED
        BY <1>5, <4>3
    <3>2. ASSUME NEW y \in Writers(s, l) PROVE y \in Writers(u, l)
      BY <1>5, <1>7
    <3> QED
      BY <3>1, <3>2
  <2>2. CASE Writers(s, l) = {}
    BY <1>4, <1>9, <2>1, <2>2
  <2>3. CASE Writers(s, l) # {}
    <3>1. Max(Writers(s, l)) \in 1 .. a
      BY <1>7, <2>3, MaxFacts
    <3>2. u[Max(Writers(s, l))] = s[Max(Writers(s, l))]
      BY <1>2, <3>1
    <3> QED
      BY <1>4, <1>9, <2>1, <2>3, <3>2
  <2> QED
    BY <2>2, <2>3
<1> QED
  BY <1>8, <1>9

\* A map that nothing writes stays, and what is written is a map.
LEMMA WrittenFacts ==
  ASSUME NEW map, NEW s
  PROVE  IsMap(Written(map, s)) /\ (IsMap(map) => Written(map, << >>) = map)
<1>1. IsMap(Written(map, s))
  BY DEF IsMap, Written
<1>2. Written(map, << >>) = [l \in LRegs |-> map[l]]
  BY EmptyList DEF Written
<1> QED
  BY <1>1, <1>2 DEF IsMap

-----------------------------------------------------------------------------
(* The steps. *)

\* Instructions that commit are written to the architectural map first, those
\* renamed now to the speculative map last: d commits, r stays in the ROB, p
\* enters it and q is renamed.
LEMMA Regroup ==
  ASSUME NEW map, NEW d, NEW r, NEW p, NEW q, IsList(d), IsList(r), IsList(p), IsList(q)
  PROVE  Written(Written(map, d), (r \o p) \o q) = Written(Written(map, (d \o r) \o p), q)
<1>1. IsList(d \o r) /\ IsList(r \o p)
  BY JoinedList
<1>2. IsList((d \o r) \o p) /\ IsList((r \o p) \o q)
  BY <1>1, JoinedList
<1>3. Written(Written(map, (d \o r) \o p), q) = Written(map, ((d \o r) \o p) \o q)
  BY <1>2, WrittenJoined
<1>4. Written(Written(map, d), (r \o p) \o q) = Written(map, d \o ((r \o p) \o q))
  BY <1>2, WrittenJoined
<1>5. (d \o r) \o p = d \o (r \o p)
  BY JoinAssociative
<1>6. (d \o (r \o p)) \o q = d \o ((r \o p) \o q)
  <2> DEFINE x == r \o p
  <2>1. IsList(x)
    BY <1>1
  <2> HIDE DEF x
  <2>2. (d \o x) \o q = d \o (x \o q)
    BY <2>1, JoinAssociative, SMTT(20)
  <2> QED
    BY <2>2 DEF x
<1> QED
  BY <1>3, <1>4, <1>5, <1>6

\* The widths are numbers.
LEMMA WidthFacts ==
  /\ RENAME_WIDTH \in Nat /\ COMMIT_WIDTH \in Nat
  /\ \A n \in Commits : n \in Int /\ n <= COMMIT_WIDTH
<1>1. RENAME_WIDTH \in Nat /\ COMMIT_WIDTH \in Nat
  BY FS_CardinalityType, PhysRegsAssumption, CommitWidthAssumption, RenameWidthAssumption
<1> QED
  BY <1>1 DEF Commits

\* What commits is the front of the ROB.
LEMMA CommitFacts ==
  ASSUME Inv, NEW n \in Commits, CommitCycle(n)
  PROVE  /\ IsList(SubSeq(rob, 1, n)) /\ IsList(SubSeq(rob, n + 1, Len(rob)))
         /\ rob = SubSeq(rob, 1, n) \o SubSeq(rob, n + 1, Len(rob))
         /\ arch_mapping' = Written(arch_mapping, SubSeq(rob, 1, n))
<1>1. Len(rob) \in Nat /\ IsList(rob)
  BY ListDef DEF Inv
<1>2. n \in 0 .. Len(rob)
  BY <1>1, WidthFacts DEF Commits
<1> QED
  BY <1>1, <1>2, CutList DEF CommitCycle

\* A renamed group is a list.
LEMMA RenamedList ==
  ASSUME NEW g \in Groups
  PROVE  IsList(RenamedGroup(g))
<1>1. PICK k \in 0 .. RENAME_WIDTH : g \in [1 .. k -> DecInsts]
  BY DEF Groups
<1>2. k \in Nat /\ DOMAIN g = 1 .. k
  BY <1>1, WidthFacts
<1>3. RenamedGroup(g) = [i \in 1 .. k |-> RenamedGroup(g)[i]]
  BY <1>2 DEF RenamedGroup
<1> QED
  BY <1>2, <1>3, ListDef

\* At reset nothing is in flight.
LEMMA ReplayInit ==
  ASSUME Init
  PROVE  Inv
<1>1. rob = << >> /\ renamed = << >> /\ IsMap(arch_mapping) /\ spec_mapping = arch_mapping
  BY DEF Init, IsMap
<1>2. << >> \o << >> = << >>
  BY EmptyList, ConcatEmptySeq DEF IsList
<1> QED
  BY <1>1, <1>2, EmptyList, WrittenFacts DEF Inv, SpecIsReplay, InFlight

\* Each cycle moves the cut between what is committed and what is in flight.
LEMMA ReplayStep ==
  ASSUME Inv, [Next]_vars
  PROVE  Inv'
<1>0. /\ IsList(rob) /\ IsList(renamed) /\ IsMap(arch_mapping)
      /\ spec_mapping = Written(arch_mapping, rob \o renamed)
  BY DEF Inv, SpecIsReplay, InFlight
<1>1. ASSUME NEW n \in Commits, NEW g \in Groups, RenameGroup(g, n) PROVE Inv'
  <2> DEFINE d == SubSeq(rob, 1, n)
             r == SubSeq(rob, n + 1, Len(rob))
             q == RenamedGroup(g)
  <2>1. /\ IsList(d) /\ IsList(r) /\ IsList(q) /\ rob = d \o r
        /\ arch_mapping' = Written(arch_mapping, d)
    BY <1>1, CommitFacts, RenamedList DEF RenameGroup
  <2>2. rob' = r \o renamed /\ renamed' = q /\ spec_mapping' = Written(spec_mapping, q)
    BY <1>1 DEF RenameGroup, Dispatched
  <2> HIDE DEF d, r, q
  <2>3. Written(Written(arch_mapping, d), (r \o renamed) \o q)
          = Written(Written(arch_mapping, (d \o r) \o renamed), q)
    BY <1>0, <2>1, Regroup
  <2>4. spec_mapping' = Written(arch_mapping', rob' \o renamed')
    BY <1>0, <2>1, <2>2, <2>3
  <2>5. IsList(rob') /\ IsList(renamed') /\ IsMap(arch_mapping')
    BY <1>0, <2>1, <2>2, JoinedList, WrittenFacts
  <2> QED
    BY <2>4, <2>5 DEF Inv, SpecIsReplay, InFlight, IsList, IsMap
<1>2. ASSUME NEW n \in Commits, NEW g \in Groups, RenameRefused(g, n) PROVE Inv'
  <2> DEFINE d == SubSeq(rob, 1, n)
             r == SubSeq(rob, n + 1, Len(rob))
  <2>1. /\ IsList(d) /\ IsList(r) /\ rob = d \o r
        /\ arch_mapping' = Written(arch_mapping, d)
    BY <1>2, CommitFacts DEF RenameRefused
  <2>2. rob' = r \o renamed /\ renamed' = << >> /\ spec_mapping' = spec_mapping
    BY <1>2 DEF RenameRefused, Dispatched
  <2> HIDE DEF d, r
  <2>3. Written(Written(arch_mapping, d), (r \o renamed) \o << >>)
          = Written(Written(arch_mapping, (d \o r) \o renamed), << >>)
    <3> DEFINE none == << >>
    <3>1. IsList(none)
      BY EmptyList
    <3> HIDE DEF none
    <3>2. Written(Written(arch_mapping, d), (r \o renamed) \o none)
            = Written(Written(arch_mapping, (d \o r) \o renamed), none)
      BY <1>0, <2>1, <3>1, Regroup
    <3> QED
      BY <3>2 DEF none
  <2>4. Written(Written(arch_mapping, (d \o r) \o renamed), << >>) = spec_mapping
    BY <1>0, <2>1, WrittenFacts
  <2>5. spec_mapping' = Written(arch_mapping', rob' \o renamed')
    BY <2>1, <2>2, <2>3, <2>4
  <2>6. IsList(rob') /\ IsList(renamed') /\ IsMap(arch_mapping')
    BY <1>0, <2>1, <2>2, EmptyList, JoinedList, WrittenFacts
  <2> QED
    BY <2>5, <2>6 DEF Inv, SpecIsReplay, InFlight, IsList, IsMap
<1>3. ASSUME NEW n \in Commits, DispatchStall(n) PROVE Inv'
  <2> DEFINE d == SubSeq(rob, 1, n)
             r == SubSeq(rob, n + 1, Len(rob))
  <2>1. /\ IsList(d) /\ IsList(r) /\ rob = d \o r
        /\ arch_mapping' = Written(arch_mapping, d)
    BY <1>3, CommitFacts DEF DispatchStall
  <2>2. rob' = r /\ renamed' = renamed /\ spec_mapping' = spec_mapping
    BY <1>3 DEF DispatchStall
  <2> HIDE DEF d, r
  <2>3. IsList(r \o renamed)
    BY <1>0, <2>1, JoinedList
  <2>4. Written(Written(arch_mapping, d), r \o renamed) = Written(arch_mapping, d \o (r \o renamed))
    BY <2>1, <2>3, WrittenJoined
  <2>5. (d \o r) \o renamed = d \o (r \o renamed)
    <3>1. IsList(d) /\ IsList(r) /\ IsList(renamed)
      BY <1>0, <2>1
    <3> QED
      BY <3>1, JoinAssociative, SMTT(20)
  <2>6. spec_mapping' = Written(arch_mapping', rob' \o renamed')
    BY <1>0, <2>1, <2>2, <2>4, <2>5
  <2>7. IsList(rob') /\ IsList(renamed') /\ IsMap(arch_mapping')
    BY <1>0, <2>1, <2>2, WrittenFacts
  <2> QED
    BY <2>6, <2>7 DEF Inv, SpecIsReplay, InFlight, IsList, IsMap
<1>4. CASE Squash
  <2>1. SubSeq(rob, 1, 0) = << >>
    BY SubSeqEmpty
  <2>2. arch_mapping' = arch_mapping
    BY <1>0, <1>4, <2>1, WrittenFacts DEF Squash, CommitCycle
  <2>3. rob' = << >> /\ renamed' = << >> /\ spec_mapping' = arch_mapping
    BY <1>4 DEF Squash
  <2>4. << >> \o << >> = << >>
    BY EmptyList, ConcatEmptySeq DEF IsList
  <2>5. spec_mapping' = Written(arch_mapping', rob' \o renamed')
    BY <1>0, <2>2, <2>3, <2>4, WrittenFacts
  <2>6. IsList(rob') /\ IsList(renamed') /\ IsMap(arch_mapping')
    BY <1>0, <2>2, <2>3, EmptyList
  <2> QED
    BY <2>5, <2>6 DEF Inv, SpecIsReplay, InFlight, IsList, IsMap
<1>5. CASE UNCHANGED vars
  BY <1>5 DEF vars, Inv, SpecIsReplay, InFlight, IsList, IsMap
<1> QED
  BY <1>1, <1>2, <1>3, <1>4, <1>5 DEF Next

\* At every moment the speculative map (rat_map.sv) is the architectural one
\* with the instructions in flight applied in program order: a squash that
\* copies the second over the first undoes exactly what has not committed.
THEOREM ReplayInvariance == Spec => []SpecIsReplay
<1>1. Init => Inv
  BY ReplayInit
<1>2. Inv /\ [Next]_vars => Inv'
  BY ReplayStep
<1>3. Inv => SpecIsReplay
  BY DEF Inv
<1> QED
  BY <1>1, <1>2, <1>3, PTL DEF Spec

-----------------------------------------------------------------------------
(* Where the registers are. *)

\* the free list, with what is proved of it
Ring == INSTANCE FreeList_proofs

-----------------------------------------------------------------------------
(* Counting in order. *)

\* how many members of T are not behind i
Rank(T, i) == Cardinality({k \in T : k <= i})

\* The rank counts one member after the other.
LEMMA RankStep ==
  ASSUME NEW m \in Nat, NEW T \in SUBSET (1 .. m), NEW i \in 1 .. m
  PROVE  /\ Rank(T, i - 1) \in Nat /\ Rank(T, i) \in Nat
         /\ Rank(T, i) = IF i \in T THEN Rank(T, i - 1) + 1 ELSE Rank(T, i - 1)
<1> DEFINE U == {k \in T : k <= i - 1}
           V == {k \in T : k <= i}
<1>1. IsFiniteSet(T)
  <2>1. IsFiniteSet(1 .. m)
    BY FS_Interval
  <2> QED
    BY <2>1, FS_Subset
<1>2. IsFiniteSet(U) /\ IsFiniteSet(V)
  <2>1. U \in SUBSET T /\ V \in SUBSET T
    OBVIOUS
  <2> QED
    BY <1>1, <2>1, FS_Subset
<1>3. V = IF i \in T THEN U \union {i} ELSE U
  <2>1. ASSUME NEW k \in T PROVE k <= i <=> k <= i - 1 \/ k = i
    <3>1. k \in 1 .. m
      OBVIOUS
    <3> QED
      BY <3>1
  <2>2. i <= i
    OBVIOUS
  <2> QED
    BY <2>1, <2>2
<1>4. i \notin U
  OBVIOUS
<1> HIDE DEF U, V
<1>5. Cardinality(U) \in Nat /\ Cardinality(V) \in Nat
  BY <1>2, FS_CardinalityType
<1>6. Cardinality(U \union {i}) = Cardinality(U) + 1
  BY <1>2, <1>4, FS_AddElement
<1>7. Cardinality(V) = IF i \in T THEN Cardinality(U) + 1 ELSE Cardinality(U)
  BY <1>3, <1>6
<1> QED
  BY <1>5, <1>7 DEF Rank, U, V

\* It grows from nothing to the size of the set.
LEMMA RankGrows ==
  ASSUME NEW m \in Nat, NEW T \in SUBSET (1 .. m)
  PROVE  /\ IsFiniteSet(T) /\ Cardinality(T) \in Nat
         /\ Rank(T, 0) = 0 /\ Rank(T, m) = Cardinality(T)
         /\ \A i, j \in 0 .. m : i <= j => Rank(T, i) \in Nat /\ Rank(T, i) <= Rank(T, j)
<1>1. IsFiniteSet(T)
  <2>1. IsFiniteSet(1 .. m)
    BY FS_Interval
  <2> QED
    BY <2>1, FS_Subset
<1>2. Cardinality(T) \in Nat
  BY <1>1, FS_CardinalityType
<1>3. {k \in T : k <= 0} = {} /\ {k \in T : k <= m} = T
  <2>1. ASSUME NEW k \in T PROVE ~(k <= 0) /\ k <= m
    <3>1. k \in 1 .. m
      OBVIOUS
    <3> QED
      BY <3>1
  <2> QED
    BY <2>1
<1>4. Rank(T, 0) = 0 /\ Rank(T, m) = Cardinality(T)
  BY <1>3, FS_EmptySet DEF Rank
<1>5. ASSUME NEW i \in 0 .. m, NEW j \in 0 .. m, i <= j
      PROVE  Rank(T, i) \in Nat /\ Rank(T, i) <= Rank(T, j)
  <2> DEFINE U == {k \in T : k <= i}
             V == {k \in T : k <= j}
  <2>1. U \in SUBSET V /\ V \in SUBSET T
    <3>1. ASSUME NEW k \in T, k <= i PROVE k <= j
      <4>1. k \in 1 .. m
        OBVIOUS
      <4> QED
        BY <1>5, <3>1, <4>1
    <3> QED
      BY <3>1
  <2>2. IsFiniteSet(V)
    BY <1>1, <2>1, FS_Subset
  <2>3. IsFiniteSet(U) /\ Cardinality(U) <= Cardinality(V)
    BY <2>1, <2>2, FS_Subset
  <2>4. Cardinality(U) \in Nat
    BY <2>3, FS_CardinalityType
  <2> QED
    BY <2>3, <2>4 DEF Rank
<1> QED
  BY <1>1, <1>2, <1>4, <1>5

\* A member that comes later has the higher rank.
LEMMA RankOrder ==
  ASSUME NEW m \in Nat, NEW T \in SUBSET (1 .. m), NEW i \in T, NEW j \in T, i < j
  PROVE  Rank(T, i) < Rank(T, j)
<1>1. i \in 0 .. m /\ j - 1 \in 0 .. m /\ i <= j - 1 /\ j \in 1 .. m
  OBVIOUS
<1>2. Rank(T, i) \in Nat /\ Rank(T, i) <= Rank(T, j - 1)
  BY <1>1, RankGrows
<1>3. Rank(T, j - 1) \in Nat /\ Rank(T, j) = Rank(T, j - 1) + 1
  BY <1>1, RankStep
<1> QED
  BY <1>2, <1>3

\* A member's rank is between 1 and the size of the set, and no other has it.
LEMMA RankOwn ==
  ASSUME NEW m \in Nat, NEW T \in SUBSET (1 .. m), NEW i \in T
  PROVE  /\ Rank(T, i) \in 1 .. Cardinality(T)
         /\ \A j \in T : Rank(T, j) = Rank(T, i) => j = i
<1>1. i \in 1 .. m /\ i - 1 \in 0 .. m /\ i \in 0 .. m /\ m \in 0 .. m /\ i <= m
  OBVIOUS
<1>2. Rank(T, i - 1) \in Nat /\ Rank(T, i) = Rank(T, i - 1) + 1
  BY <1>1, RankStep
<1>3. Rank(T, i) <= Cardinality(T) /\ Cardinality(T) \in Nat
  BY <1>1, RankGrows
<1>4. ASSUME NEW j \in T, Rank(T, j) = Rank(T, i) PROVE j = i
  <2>1. Rank(T, i) \in Nat
    BY <1>2
  <2>2. ~(j < i)
    <3>1. j < i => Rank(T, j) < Rank(T, i)
      BY RankOrder
    <3> QED
      BY <1>4, <2>1, <3>1
  <2>3. ~(i < j)
    <3>1. i < j => Rank(T, i) < Rank(T, j)
      BY RankOrder
    <3> QED
      BY <1>4, <2>1, <3>1
  <2> QED
    BY <1>1, <2>2, <2>3
<1> QED
  BY <1>2, <1>3, <1>4

\* Every rank is some member's.
LEMMA RankAttained ==
  ASSUME NEW m \in Nat, NEW T \in SUBSET (1 .. m), NEW n \in 1 .. Cardinality(T)
  PROVE  \E i \in T : Rank(T, i) = n
<1> DEFINE W == {i \in 0 .. m : Rank(T, i) >= n}
<1>1. Cardinality(T) \in Nat /\ n \in Nat /\ n >= 1 /\ n <= Cardinality(T)
  BY RankGrows
<1>2. m \in W
  BY <1>1, RankGrows
<1>3. W \in SUBSET Nat /\ W # {}
  BY <1>2
<1>4. PICK i \in W : \A k \in W : i <= k
  BY <1>3, LeastElement
<1>5. i \in 0 .. m /\ Rank(T, i) >= n
  BY <1>4
<1>6. i # 0
  <2>1. Rank(T, 0) = 0
    BY RankGrows
  <2> QED
    BY <1>1, <1>5, <2>1
<1>7. i \in 1 .. m /\ i - 1 \in 0 .. m
  BY <1>5, <1>6
<1>8. ~(Rank(T, i - 1) >= n)
  <2>1. i - 1 \notin W
    <3>1. ~(i <= i - 1)
      BY <1>7
    <3> QED
      BY <1>4, <3>1
  <2> QED
    BY <1>7, <2>1
<1>9. /\ Rank(T, i - 1) \in Nat
      /\ Rank(T, i) = IF i \in T THEN Rank(T, i - 1) + 1 ELSE Rank(T, i - 1)
  BY <1>7, RankStep
<1>10. i \in T /\ Rank(T, i) = n
  BY <1>1, <1>5, <1>8, <1>9
<1> QED
  BY <1>10

-----------------------------------------------------------------------------
(* The instructions of a list that take a register. *)

\* their places
Allocs(s) == {i \in DOMAIN s : Allocates(s[i])}

\* The number of a list's allocations up to a place is the rank of that place.
LEMMA NumAllocUpto ==
  ASSUME NEW s, IsList(s), NEW i \in 0 .. Len(s)
  PROVE  NumAlloc(SubSeq(s, 1, i)) = Rank(Allocs(s), i)
<1> DEFINE p == SubSeq(s, 1, i)
           q == SubSeq(s, i + 1, Len(s))
<1>1. IsList(p) /\ IsList(q) /\ s = p \o q
  BY CutList
<1>2. Len(p) = i
  <2>1. PICK n \in Nat : n = Len(s) /\ s \in [1 .. n -> SeqRange(s)]
    BY ListDef DEF SeqRange
  <2>2. 1 \in Int /\ i \in Int /\ \A k \in 1 .. i : s[k] \in SeqRange(s)
    BY <2>1
  <2>3. Len(p) = IF 1 <= i THEN i - 1 + 1 ELSE 0
    BY <2>2, SubSeqProperties
  <2>4. i \in Nat
    BY <2>1
  <2> QED
    BY <2>3, <2>4
<1> HIDE DEF p, q
<1>3. Len(q) \in Nat /\ i \in Nat /\ Len(s) = i + Len(q)
  <2>1. Len(p \o q) = Len(p) + Len(q)
    BY <1>1, JoinedList
  <2>2. Len(q) \in Nat /\ Len(p) \in Nat
    BY <1>1, ListDef
  <2> QED
    BY <1>1, <1>2, <2>1, <2>2
<1>4. DOMAIN p = 1 .. i /\ DOMAIN s = 1 .. Len(s)
  BY <1>1, <1>2, ListDef
<1>5. \A k \in 1 .. i : p[k] = s[k]
  BY <1>1, <1>2, JoinedList
<1>6. {k \in DOMAIN p : Allocates(p[k])} = {k \in {j \in DOMAIN s : Allocates(s[j])} : k <= i}
  <2>1. ASSUME NEW k \in 1 .. i PROVE Allocates(p[k]) <=> Allocates(s[k])
    BY <1>5
  <2>2. ASSUME NEW k PROVE k \in 1 .. i <=> k \in 1 .. Len(s) /\ k <= i
    BY <1>3
  <2> QED
    BY <1>4, <2>1, <2>2
<1> QED
  BY <1>6 DEF NumAlloc, Rank, Allocs, p

\* The places that take a register, of one list and of two joined.
LEMMA AllocsJoined ==
  ASSUME NEW s, NEW t, IsList(s), IsList(t)
  PROVE  /\ Allocs(s) \in SUBSET (1 .. Len(s)) /\ NumAlloc(s) \in Nat
         /\ NumAlloc(s) = Rank(Allocs(s), Len(s))
         /\ NumAlloc(s \o t) = NumAlloc(s) + NumAlloc(t)
         /\ \A i \in 0 .. Len(s) : Rank(Allocs(s \o t), i) = Rank(Allocs(s), i)
         /\ \A j \in 0 .. Len(t) : Rank(Allocs(s \o t), Len(s) + j) = NumAlloc(s) + Rank(Allocs(t), j)
<1>1. PICK a \in Nat, b \in Nat : a = Len(s) /\ b = Len(t)
  BY ListDef
<1> DEFINE u == s \o t
<1>2. /\ DOMAIN s = 1 .. a /\ DOMAIN t = 1 .. b /\ DOMAIN u = 1 .. a + b
      /\ \A i \in 1 .. a : u[i] = s[i]
      /\ \A i \in 1 .. b : u[a + i] = t[i]
      /\ Len(u) = a + b
  BY <1>1, ListDef, JoinedList
<1> HIDE DEF u
<1>3. ASSUME NEW k \in 1 .. a PROVE k \in Allocs(u) <=> k \in Allocs(s)
  <2>1. k \in 1 .. a + b /\ u[k] = s[k]
    BY <1>2
  <2> QED
    BY <1>2, <2>1 DEF Allocs
<1>4. ASSUME NEW k \in 1 .. b PROVE a + k \in Allocs(u) <=> k \in Allocs(t)
  <2>1. a + k \in 1 .. a + b /\ u[a + k] = t[k]
    BY <1>2
  <2> QED
    BY <1>2, <2>1 DEF Allocs
<1>5. /\ Allocs(s) \in SUBSET (1 .. a) /\ Allocs(t) \in SUBSET (1 .. b)
      /\ Allocs(u) \in SUBSET (1 .. a + b)
  BY <1>2 DEF Allocs
<1>6. ASSUME NEW i \in 0 .. a PROVE Rank(Allocs(u), i) = Rank(Allocs(s), i)
  <2>1. ASSUME NEW k PROVE k \in Allocs(u) /\ k <= i <=> k \in Allocs(s) /\ k <= i
    <3>1. CASE k \in 1 .. a
      BY <1>3, <3>1
    <3>2. CASE k \notin 1 .. a
      <4>1. k \notin Allocs(s)
        BY <1>5, <3>2
      <4>2. k \in 1 .. a + b => ~(k <= i)
        BY <3>2
      <4> QED
        BY <1>5, <4>1, <4>2
    <3> QED
      BY <3>1, <3>2
  <2>2. {k \in Allocs(u) : k <= i} = {k \in Allocs(s) : k <= i}
    BY <2>1
  <2> QED
    BY <2>2 DEF Rank
<1>7. /\ NumAlloc(s) = Cardinality(Allocs(s)) /\ NumAlloc(t) = Cardinality(Allocs(t))
      /\ NumAlloc(u) = Cardinality(Allocs(u))
  BY DEF NumAlloc, Allocs
<1>8. ASSUME NEW j \in 0 .. b PROVE Rank(Allocs(u), a + j) = NumAlloc(s) + Rank(Allocs(t), j)
  <2> DEFINE S == Allocs(s)
             V == {k \in Allocs(t) : k <= j}
             X == {a + k : k \in V}
             f == [k \in V |-> a + k]
  <2>1. {k \in Allocs(u) : k <= a + j} = S \union X
    <3>1. ASSUME NEW k \in Allocs(u), k <= a + j PROVE k \in S \union X
      <4>1. k \in 1 .. a + b
        BY <1>5
      <4>2. CASE k <= a
        BY <1>3, <4>1, <4>2
      <4>3. CASE k > a
        <5>1. PICK l \in 1 .. b : k = a + l
          <6>1. k - a \in 1 .. b /\ k = a + (k - a)
            BY <4>1, <4>3
          <6> QED
            BY <6>1
        <5>2. l \in Allocs(t) /\ l <= j
          BY <1>4, <3>1, <5>1
        <5> QED
          BY <5>1, <5>2
      <4> QED
        BY <4>1, <4>2, <4>3
    <3>2. ASSUME NEW k \in S PROVE k \in Allocs(u) /\ k <= a + j
      <4>1. k \in 1 .. a
        BY <1>5
      <4> QED
        BY <1>3, <4>1
    <3>3. ASSUME NEW l \in V PROVE a + l \in Allocs(u) /\ a + l <= a + j
      <4>1. l \in 1 .. b /\ l <= j /\ l \in Allocs(t)
        BY <1>5
      <4> QED
        BY <1>4, <4>1
    <3> HIDE DEF S, V
    <3> QED
      BY <3>1, <3>2, <3>3
  <2>2. IsFiniteSet(S) /\ IsFiniteSet(Allocs(t))
    BY <1>5, RankGrows
  <2>3. IsFiniteSet(V)
    <3>1. V \in SUBSET Allocs(t)
      OBVIOUS
    <3> QED
      BY <2>2, <3>1, FS_Subset
  <2>4. f \in Bijection(V, X)
    <3>1. V \in SUBSET Nat
      BY <1>5
    <3>2. f \in [V -> X]
      OBVIOUS
    <3>3. ASSUME NEW x \in V, NEW y \in V, f[x] = f[y] PROVE x = y
      <4>1. x \in Nat /\ y \in Nat
        BY <3>1
      <4> HIDE DEF V
      <4>2. a + x = a + y
        BY <3>3
      <4> QED
        BY <4>1, <4>2
    <3>4. ASSUME NEW y \in X PROVE \E x \in V : f[x] = y
      OBVIOUS
    <3> HIDE DEF V, X, f
    <3> QED
      BY <3>2, <3>3, <3>4 DEF Bijection, Injection, IsInjective, Surjection
  <2>5. IsFiniteSet(X) /\ Cardinality(X) = Cardinality(V)
    <3> HIDE DEF V, X, f
    <3>1. ExistsBijection(V, X)
      BY <2>4 DEF ExistsBijection
    <3> QED
      BY <2>3, <3>1, FS_Bijection
  <2>6. S \cap X = {}
    <3>1. ASSUME NEW k \in S, NEW l \in V PROVE k # a + l
      <4>1. k \in 1 .. a /\ l \in 1 .. b
        BY <1>5
      <4> QED
        BY <4>1
    <3> QED
      BY <3>1
  <2>7. Rank(Allocs(u), a + j) = Cardinality(S \union X) /\ Rank(Allocs(t), j) = Cardinality(V)
    BY <2>1 DEF Rank
  <2> HIDE DEF S, V, X, f
  <2>8. Cardinality(S \union X) = Cardinality(S) + Cardinality(X) - Cardinality(S \cap X)
    BY <2>2, <2>5, FS_Union
  <2>9. Cardinality(S \cap X) = 0
    BY <2>6, FS_EmptySet
  <2>10. Cardinality(S) \in Nat /\ Cardinality(X) \in Nat
    BY <2>2, <2>5, FS_CardinalityType
  <2>11. NumAlloc(s) = Cardinality(S)
    BY <1>7 DEF S
  <2> QED
    BY <2>5, <2>7, <2>8, <2>9, <2>10, <2>11
<1>9. NumAlloc(s) \in Nat /\ NumAlloc(s) = Rank(Allocs(s), a)
  BY <1>5, <1>7, RankGrows
<1>10. NumAlloc(u) = NumAlloc(s) + NumAlloc(t)
  <2>1. b \in 0 .. b /\ a + b \in Nat
    OBVIOUS
  <2>2. Rank(Allocs(u), a + b) = NumAlloc(u) /\ Rank(Allocs(t), b) = NumAlloc(t)
    BY <1>5, <1>7, <2>1, RankGrows
  <2> QED
    BY <1>8, <2>1, <2>2
<1> QED
  BY <1>1, <1>5, <1>6, <1>8, <1>9, <1>10 DEF u

-----------------------------------------------------------------------------
(* A renamed group. *)

\* What a slot gets depends on the slots before it.
LEMMA NewRegLocal ==
  ASSUME NEW g, NEW f, NEW h, NEW i \in Nat, \A k \in 1 .. i - 1 : f[k] = h[k]
  PROVE  SourceReg(g, f, i) = SourceReg(g, h, i) /\ NewReg(g, f, i) = NewReg(g, h, i)
<1> DEFINE W == WritersBefore(g, i, g[i].rs)
<1>1. W # {} => Max(W) \in 1 .. i - 1
  <2>1. W \in SUBSET (1 .. i - 1)
    BY DEF WritersBefore
  <2>2. CASE i = 0
    BY <2>1, <2>2
  <2>3. CASE i # 0
    <3>1. i - 1 \in Nat
      BY <2>3
    <3> QED
      BY <2>1, <3>1, MaxFacts
  <2> QED
    BY <2>2, <2>3
<1>2. SourceReg(g, f, i) = SourceReg(g, h, i)
  BY <1>1 DEF SourceReg
<1> QED
  BY <1>2 DEF NewReg

\* f gives the first n slots their registers
Gives(g, n, f) == f = [i \in 1 .. n |-> NewReg(g, f, i)]

\* The bypass chain of a group ends: every slot gets a register.
LEMMA ChainEnds ==
  ASSUME NEW g, NEW n \in Nat
  PROVE  \E f : Gives(g, n, f)
<1> DEFINE T == {m \in Nat : ~ \E f : Gives(g, m, f)}
<1>1. SUFFICES ASSUME T # {} PROVE FALSE
  OBVIOUS
<1>2. PICK m \in T : \A k \in T : m <= k
  <2>1. T \in SUBSET Nat
    OBVIOUS
  <2> QED
    BY <1>1, <2>1, LeastElement
<1>3. m \in Nat /\ ~ \E f : Gives(g, m, f)
  OBVIOUS
<1>4. CASE m = 0
  <2> DEFINE f == [i \in 1 .. 0 |-> Zero]
  <2>1. 1 .. 0 = {}
    OBVIOUS
  <2>2. f = [i \in 1 .. 0 |-> NewReg(g, f, i)]
    BY <2>1
  <2> QED
    BY <1>3, <1>4, <2>2 DEF Gives
<1>5. CASE m # 0
  <2>1. m - 1 \in Nat /\ m - 1 \notin T
    <3>1. m - 1 \in Nat /\ ~(m <= m - 1)
      BY <1>3, <1>5
    <3> QED
      BY <1>2, <3>1
  <2>2. PICK h : Gives(g, m - 1, h)
    BY <2>1
  <2> DEFINE f == [i \in 1 .. m |-> IF i < m THEN h[i] ELSE NewReg(g, h, m)]
  <2>3. \A i \in 1 .. m - 1 : f[i] = h[i]
    BY <1>3
  <2>4. ASSUME NEW i \in 1 .. m PROVE f[i] = NewReg(g, f, i)
    <3>1. \A k \in 1 .. i - 1 : f[k] = h[k]
      BY <1>3, <2>3
    <3>2. NewReg(g, f, i) = NewReg(g, h, i)
      <4> HIDE DEF f
      <4>1. i \in Nat
        OBVIOUS
      <4> QED
        BY <3>1, <4>1, NewRegLocal
    <3>3. CASE i < m
      <4>1. i \in 1 .. m - 1
        BY <1>3, <3>3
      <4>2. h[i] = NewReg(g, h, i)
        BY <2>2, <4>1 DEF Gives
      <4> QED
        BY <2>3, <3>2, <4>1, <4>2
    <3>4. CASE ~(i < m)
      <4>1. i = m
        BY <1>3, <3>4
      <4> QED
        BY <3>2, <4>1
    <3> QED
      BY <3>3, <3>4
  <2>5. f = [i \in 1 .. m |-> NewReg(g, f, i)]
    <3>1. f = [i \in 1 .. m |-> f[i]]
      OBVIOUS
    <3> HIDE DEF f
    <3> QED
      BY <2>4, <3>1
  <2> QED
    BY <1>3, <2>5 DEF Gives
<1> QED
  BY <1>4, <1>5

\* How an instruction is renamed when the map is m before it and the free list
\* offers r.
RenamedFrom(x, m, r) ==
  /\ \E l \in LRegs : x.prs = m[l]
  /\ x.ismv => x.prd = x.prs
  /\ Allocates(x) => x.prd = r
  /\ ~x.ismv /\ ~HasRd(x) => x.prd = Zero

\* x is the decoded instruction dec, its source looked up in m.
Renames(x, dec, m) == x.rd = dec.rd /\ x.ismv = dec.ismv /\ x.prs = m[dec.rs]

\* a renamed instruction has these fields
Shaped(x) ==
  /\ x = [rd |-> x.rd, prd |-> x.prd, ismv |-> x.ismv, prs |-> x.prs]
  /\ x.rd \in LRegs /\ x.ismv \in BOOLEAN

\* Each instruction of a group is renamed from the map as the ones before it
\* leave it, with the next register of the free list.
LEMMA GroupRenamed ==
  ASSUME NEW g \in Groups
  PROVE  /\ IsList(RenamedGroup(g)) /\ Len(RenamedGroup(g)) <= RENAME_WIDTH
         /\ NumAlloc(RenamedGroup(g)) = NumAlloc(g)
         /\ Len(RenamedGroup(g)) = Len(g) /\ IsList(g)
         /\ \A i \in DOMAIN RenamedGroup(g) :
              /\ g[i] \in DecInsts
              /\ Renames(RenamedGroup(g)[i], g[i],
                         Written(spec_mapping, SubSeq(RenamedGroup(g), 1, i - 1)))
              /\ Shaped(RenamedGroup(g)[i])
              /\ RenamedFrom(RenamedGroup(g)[i],
                             Written(spec_mapping, SubSeq(RenamedGroup(g), 1, i - 1)),
                             FL!AllocReg(Rank(Allocs(RenamedGroup(g)), i - 1)))
<1>1. PICK n \in 0 .. RENAME_WIDTH : g \in [1 .. n -> DecInsts]
  BY DEF Groups
<1>2. n \in Nat /\ RENAME_WIDTH \in Nat
  <2>1. Cardinality(PhysRegs) \in Nat
    BY FS_CardinalityType, PhysRegsAssumption
  <2> QED
    BY <2>1, RenameWidthAssumption
<1>3. DOMAIN g = 1 .. n
  BY <1>1
<1>4. PICK f : /\ f = [i \in 1 .. n |-> NewReg(g, f, i)]
               /\ RenamedGroup(g) = [i \in 1 .. n |-> [rd |-> g[i].rd, prd |-> f[i], ismv |-> g[i].ismv,
                                                       prs |-> SourceReg(g, f, i)]]
  <2> DEFINE f == CHOOSE f : f = [i \in DOMAIN g |-> NewReg(g, f, i)]
  <2>1. \E h : h = [i \in DOMAIN g |-> NewReg(g, h, i)]
    <3>1. PICK h : Gives(g, n, h)
      BY <1>2, ChainEnds
    <3>2. h = [i \in DOMAIN g |-> NewReg(g, h, i)]
      BY <1>3, <3>1 DEF Gives
    <3> QED
      BY <3>2
  <2>2. f = [i \in DOMAIN g |-> NewReg(g, f, i)]
    BY <2>1
  <2>3. RenamedGroup(g) = [i \in DOMAIN g |-> [rd |-> g[i].rd, prd |-> f[i], ismv |-> g[i].ismv,
                                               prs |-> SourceReg(g, f, i)]]
    BY DEF RenamedGroup
  <2> HIDE DEF f
  <2> QED
    BY <1>3, <2>2, <2>3
<1> DEFINE q == RenamedGroup(g)
<1>5. ASSUME NEW i \in 1 .. n
      PROVE  /\ q[i] = [rd |-> g[i].rd, prd |-> f[i], ismv |-> g[i].ismv, prs |-> SourceReg(g, f, i)]
             /\ q[i].rd = g[i].rd /\ q[i].prd = f[i] /\ q[i].ismv = g[i].ismv
             /\ q[i].prs = SourceReg(g, f, i)
             /\ f[i] = NewReg(g, f, i)
             /\ g[i].rd \in LRegs /\ g[i].ismv \in BOOLEAN /\ g[i].rs \in LRegs
  <2>1. f[i] = NewReg(g, f, i)
    BY <1>4
  <2>2. g[i] \in [rd : LRegs, ismv : BOOLEAN, rs : LRegs]
    BY <1>1, DecInstsAssumption
  <2> QED
    BY <1>4, <2>1, <2>2
<1>6. IsList(q) /\ Len(q) = n /\ DOMAIN q = 1 .. n
  <2>1. q = [i \in 1 .. n |-> q[i]]
    BY <1>4
  <2>2. IsList(q)
    BY <1>2, <2>1, ListDef
  <2>3. DOMAIN q = 1 .. n
    BY <1>4
  <2>4. DOMAIN q = 1 .. Len(q) /\ Len(q) \in Nat
    BY <2>2, ListDef
  <2>5. Len(q) = n
    BY <1>2, <2>3, <2>4
  <2> QED
    BY <2>2, <2>3, <2>5
<1>7. IsList(g) /\ Len(g) = n
  <2>1. g = [i \in 1 .. n |-> g[i]]
    BY <1>1
  <2>2. IsList(g)
    BY <1>2, <2>1, ListDef
  <2>3. DOMAIN g = 1 .. Len(g) /\ Len(g) \in Nat
    BY <2>2, ListDef
  <2>4. Len(g) = n
    BY <1>2, <1>3, <2>3
  <2> QED
    BY <2>2, <2>4
<1>8. \A i \in 1 .. n : Allocates(q[i]) <=> Allocates(g[i])
  BY <1>5 DEF Allocates, HasRd
<1>9. Allocs(q) = Allocs(g) /\ NumAlloc(q) = NumAlloc(g)
  BY <1>3, <1>6, <1>8 DEF Allocs, NumAlloc
<1> HIDE DEF q
<1>10. ASSUME NEW i \in 1 .. n
       PROVE  /\ g[i] \in DecInsts
              /\ Renames(q[i], g[i], Written(spec_mapping, SubSeq(q, 1, i - 1)))
              /\ Shaped(q[i])
              /\ RenamedFrom(q[i], Written(spec_mapping, SubSeq(q, 1, i - 1)),
                             FL!AllocReg(Rank(Allocs(q), i - 1)))
  <2>1. Shaped(q[i])
    BY <1>5 DEF Shaped
  <2> DEFINE p == SubSeq(q, 1, i - 1)
             l == g[i].rs
  <2>2. i - 1 \in 0 .. Len(q) /\ i - 1 \in 0 .. Len(g) /\ i \in Nat
    BY <1>2, <1>6, <1>7
  <2>3. IsList(p) /\ Len(p) = i - 1 /\ \A k \in 1 .. i - 1 : p[k] = q[k]
    <3>1. 1 \in Int /\ i - 1 \in Int /\ \A k \in 1 .. i - 1 : q[k] \in SeqRange(q)
      BY <1>6, <2>2 DEF SeqRange
    <3>2. /\ Len(p) = IF 1 <= i - 1 THEN (i - 1) - 1 + 1 ELSE 0
          /\ \A k \in 1 .. (i - 1) - 1 + 1 : p[k] = q[1 + k - 1]
      BY <3>1, SubSeqProperties
    <3>3. Len(p) = i - 1 /\ (i - 1) - 1 + 1 = i - 1 /\ \A k \in 1 .. i - 1 : 1 + k - 1 = k
      BY <2>2, <3>2
    <3>4. IsList(p)
      BY <1>6, <2>2, CutList
    <3> HIDE DEF p
    <3> QED
      BY <3>2, <3>3, <3>4
  <2>4. DOMAIN p = 1 .. i - 1
    <3> HIDE DEF p
    <3> QED
      BY <2>3, ListDef
  <2>5. Writers(p, l) = WritersBefore(g, i, l)
    <3>1. ASSUME NEW k \in 1 .. i - 1 PROVE p[k].rd = g[k].rd
      <4>1. k \in 1 .. n
        BY <1>2
      <4> QED
        BY <1>5, <2>3, <4>1
    <3> HIDE DEF p, l
    <3> QED
      BY <2>4, <3>1 DEF Writers, WritersBefore, HasRd
  <2>6. q[i].prs = Written(spec_mapping, p)[l]
    <3>1. l \in LRegs
      BY <1>5
    <3>2. Written(spec_mapping, p)[l]
            = IF Writers(p, l) = {} THEN spec_mapping[l] ELSE p[Max(Writers(p, l))].prd
      BY <3>1 DEF Written, Writers
    <3>3. SourceReg(g, f, i) = IF WritersBefore(g, i, l) = {} THEN spec_mapping[l]
                               ELSE f[Max(WritersBefore(g, i, l))]
      BY DEF SourceReg
    <3>4. CASE Writers(p, l) # {}
      <4>1. Writers(p, l) \in SUBSET (1 .. i - 1) /\ i - 1 \in Nat
        BY <2>2, <2>4 DEF Writers
      <4>2. PICK k \in 1 .. i - 1 : k = Max(Writers(p, l))
        BY <3>4, <4>1, MaxFacts
      <4>3. k \in 1 .. n
        BY <1>2
      <4>4. p[k].prd = f[k]
        BY <1>5, <2>3, <4>3
      <4> HIDE DEF p, l
      <4> QED
        BY <1>5, <2>5, <3>2, <3>3, <3>4, <4>2, <4>4
    <3>5. CASE Writers(p, l) = {}
      <4> HIDE DEF p, l
      <4> QED
        BY <1>5, <2>5, <3>2, <3>3, <3>5
    <3> QED
      BY <3>4, <3>5
  <2>7. Allocates(q[i]) => q[i].prd = FL!AllocReg(Rank(Allocs(q), i - 1))
    <3>1. NumAlloc(SubSeq(g, 1, i - 1)) = Rank(Allocs(g), i - 1)
      BY <1>7, <2>2, NumAllocUpto
    <3>2. AllocFor(g, i) = FL!AllocReg(Rank(Allocs(q), i - 1))
      BY <1>9, <3>1 DEF AllocFor
    <3>3. Allocates(q[i]) => NewReg(g, f, i) = AllocFor(g, i)
      BY <1>5 DEF NewReg, Allocates, HasRd
    <3> QED
      BY <1>5, <3>2, <3>3
  <2>8. /\ q[i].ismv => q[i].prd = q[i].prs
        /\ ~q[i].ismv /\ ~HasRd(q[i]) => q[i].prd = Zero
    <3>1. HasRd(q[i]) <=> HasRd(g[i])
      BY <1>5 DEF HasRd
    <3> QED
      BY <1>5, <3>1 DEF NewReg
  <2>9. \E ll \in LRegs : q[i].prs = Written(spec_mapping, SubSeq(q, 1, i - 1))[ll]
    BY <1>5, <2>6
  <2>10. g[i] \in DecInsts /\ Renames(q[i], g[i], Written(spec_mapping, SubSeq(q, 1, i - 1)))
    BY <1>1, <1>5, <2>6 DEF Renames
  <2> QED
    BY <2>1, <2>7, <2>8, <2>9, <2>10 DEF RenamedFrom
<1> QED
  BY <1>2, <1>6, <1>7, <1>9, <1>10 DEF q

-----------------------------------------------------------------------------
(* Parts of lists. *)

\* Lists are equal when their elements are.
LEMMA SameElements ==
  ASSUME NEW s, NEW t, IsList(s), IsList(t), Len(s) = Len(t), \A i \in 1 .. Len(s) : s[i] = t[i]
  PROVE  s = t
<1>1. s = [i \in 1 .. Len(s) |-> s[i]] /\ t = [i \in 1 .. Len(t) |-> t[i]]
  BY ListDef
<1> QED
  BY <1>1

\* The first i elements of a list, and the others.
LEMMA PartFacts ==
  ASSUME NEW s, IsList(s), NEW i \in 0 .. Len(s)
  PROVE  /\ IsList(SubSeq(s, 1, i)) /\ Len(SubSeq(s, 1, i)) = i
         /\ \A k \in 1 .. i : SubSeq(s, 1, i)[k] = s[k]
         /\ IsList(SubSeq(s, i + 1, Len(s))) /\ Len(SubSeq(s, i + 1, Len(s))) = Len(s) - i
         /\ \A k \in 1 .. Len(s) - i : SubSeq(s, i + 1, Len(s))[k] = s[i + k]
<1> DEFINE p == SubSeq(s, 1, i)
           q == SubSeq(s, i + 1, Len(s))
<1>1. IsList(p) /\ IsList(q) /\ s = p \o q
  BY CutList
<1>2. PICK n \in Nat : n = Len(s) /\ s \in [1 .. n -> SeqRange(s)]
  BY ListDef DEF SeqRange
<1>3. i \in Nat /\ 1 \in Int /\ i \in Int /\ \A k \in 1 .. i : s[k] \in SeqRange(s)
  BY <1>2
<1>4. Len(p) = i
  <2>1. Len(p) = IF 1 <= i THEN i - 1 + 1 ELSE 0
    BY <1>3, SubSeqProperties
  <2> QED
    BY <1>3, <2>1
<1> HIDE DEF p, q
<1>5. Len(q) \in Nat /\ n = i + Len(q)
  <2>1. Len(p \o q) = Len(p) + Len(q)
    BY <1>1, JoinedList
  <2>2. Len(q) \in Nat
    BY <1>1, ListDef
  <2> QED
    BY <1>1, <1>2, <1>4, <2>1, <2>2
<1>6. /\ \A k \in 1 .. i : p[k] = s[k]
      /\ \A k \in 1 .. Len(q) : q[k] = s[i + k]
  BY <1>1, <1>4, JoinedList
<1>7. Len(q) = Len(s) - i
  BY <1>2, <1>3, <1>5
<1> QED
  BY <1>1, <1>4, <1>6, <1>7 DEF p, q

\* The beginning of two lists joined.
LEMMA BeginJoined ==
  ASSUME NEW s, NEW t, IsList(s), IsList(t)
  PROVE  /\ \A i \in 0 .. Len(s) : SubSeq(s \o t, 1, i) = SubSeq(s, 1, i)
         /\ \A j \in 0 .. Len(t) : SubSeq(s \o t, 1, Len(s) + j) = s \o SubSeq(t, 1, j)
<1>1. PICK a \in Nat, b \in Nat : a = Len(s) /\ b = Len(t)
  BY ListDef
<1> DEFINE u == s \o t
<1>2. /\ IsList(u) /\ Len(u) = a + b
      /\ \A i \in 1 .. a : u[i] = s[i]
      /\ \A i \in 1 .. b : u[a + i] = t[i]
  BY <1>1, JoinedList
<1> HIDE DEF u
<1>3. ASSUME NEW i \in 0 .. a PROVE SubSeq(u, 1, i) = SubSeq(s, 1, i)
  <2> DEFINE p == SubSeq(u, 1, i)
             r == SubSeq(s, 1, i)
  <2>1. i \in 0 .. Len(u) /\ i \in 0 .. Len(s)
    BY <1>1, <1>2
  <2>2. IsList(p) /\ Len(p) = i /\ \A k \in 1 .. i : p[k] = u[k]
    BY <1>2, <2>1, PartFacts
  <2>3. IsList(r) /\ Len(r) = i /\ \A k \in 1 .. i : r[k] = s[k]
    BY <2>1, PartFacts
  <2> HIDE DEF p, r
  <2>4. ASSUME NEW k \in 1 .. i PROVE p[k] = r[k]
    <3>1. k \in 1 .. a
      OBVIOUS
    <3> QED
      BY <1>2, <2>2, <2>3, <3>1
  <2>5. p = r
    BY <2>2, <2>3, <2>4, SameElements
  <2> QED
    BY <2>5 DEF p, r
<1>4. ASSUME NEW j \in 0 .. b PROVE SubSeq(u, 1, a + j) = s \o SubSeq(t, 1, j)
  <2> DEFINE p == SubSeq(u, 1, a + j)
             r == SubSeq(t, 1, j)
             v == s \o r
  <2>1. a + j \in 0 .. Len(u) /\ j \in 0 .. Len(t)
    BY <1>1, <1>2
  <2>2. IsList(p) /\ Len(p) = a + j /\ \A k \in 1 .. a + j : p[k] = u[k]
    BY <1>2, <2>1, PartFacts
  <2>3. IsList(r) /\ Len(r) = j /\ \A k \in 1 .. j : r[k] = t[k]
    BY <2>1, PartFacts
  <2> HIDE DEF r
  <2>4. /\ IsList(v) /\ Len(v) = a + j
        /\ \A k \in 1 .. a : v[k] = s[k]
        /\ \A k \in 1 .. j : v[a + k] = r[k]
    BY <1>1, <2>3, JoinedList
  <2> HIDE DEF p, v
  <2>5. ASSUME NEW k \in 1 .. a + j PROVE p[k] = v[k]
    <3>1. p[k] = u[k]
      BY <2>2
    <3>2. CASE k <= a
      <4>1. k \in 1 .. a
        BY <3>2
      <4> QED
        BY <1>2, <2>4, <3>1, <4>1
    <3>3. CASE ~(k <= a)
      <4>1. PICK l \in 1 .. j : k = a + l
        <5>1. k - a \in 1 .. j /\ k = a + (k - a)
          BY <3>3
        <5> QED
          BY <5>1
      <4>2. l \in 1 .. b
        OBVIOUS
      <4> QED
        BY <1>2, <2>3, <2>4, <3>1, <4>1, <4>2
    <3> QED
      BY <3>2, <3>3
  <2>6. p = v
    BY <2>2, <2>4, <2>5, SameElements
  <2> QED
    BY <2>6 DEF p, v, r
<1> QED
  BY <1>1, <1>3, <1>4 DEF u

-----------------------------------------------------------------------------
(* The free list, as renaming sees it. *)

\* Its sets are counted as sets are.
LEMMA SameCounting ==
  /\ \A S : Ring!Cardinality(S) = Cardinality(S)
  /\ \A S : FL!Cardinality(S) = Cardinality(S)
  /\ \A S : Ring!IsFiniteSet(S) <=> IsFiniteSet(S)
<1>1. \A S : Ring!Cardinality(S) = Cardinality(S)
  BY DEF Cardinality, Ring!Cardinality
<1>2. \A S : FL!Cardinality(S) = Cardinality(S)
  BY DEF Cardinality, FL!Cardinality
<1>3. \A S : Ring!IsFiniteSet(S) <=> IsFiniteSet(S)
  BY DEF IsFiniteSet, Ring!IsFiniteSet
<1> QED
  BY <1>1, <1>2, <1>3

\* What the free list assumes is assumed here.
LEMMA RingAssumptions ==
  /\ Ring!IsFiniteSet(PhysRegs) /\ Ring!DEPTH = Cardinality(PhysRegs)
  /\ RENAME_WIDTH \in 1 .. Ring!DEPTH /\ COMMIT_WIDTH \in 1 .. Ring!DEPTH
  BY SameCounting, PhysRegsAssumption, RenameWidthAssumption, CommitWidthAssumption DEF Ring!DEPTH

\* The two instances are one.
LEMMA SameFreeList ==
  /\ FL!Init <=> Ring!Init
  /\ FL!TypeOK <=> Ring!TypeOK
  /\ FL!NoDuplicate <=> Ring!NoDuplicate
  /\ FL!Taken = Ring!Taken /\ FL!Free = Ring!Free
  /\ \A n : FL!CanAlloc(n) <=> Ring!CanAlloc(n)
  /\ \A k : FL!AllocReg(k) = Ring!AllocReg(k)
  /\ \A p : FL!Wrap(p) = Ring!Wrap(p)
  /\ \A f : FL!CanEnq(f) <=> Ring!CanEnq(f)
  /\ \A a, f, c, r : FL!Cycle(a, f, c, r) <=> Ring!Cycle(a, f, c, r)
  /\ FL!DEPTH = Ring!DEPTH
<1>1. FL!DEPTH = Ring!DEPTH /\ FL!Slots = Ring!Slots
  BY SameCounting DEF FL!DEPTH, Ring!DEPTH, FL!Slots, Ring!Slots
<1>2. \A p : FL!Wrap(p) = Ring!Wrap(p)
  BY <1>1 DEF FL!Wrap, Ring!Wrap
<1>3. /\ \A n : FL!CanAlloc(n) <=> Ring!CanAlloc(n)
      /\ \A f : FL!CanEnq(f) <=> Ring!CanEnq(f)
      /\ \A k : FL!AllocReg(k) = Ring!AllocReg(k)
  BY <1>1, <1>2 DEF FL!CanAlloc, Ring!CanAlloc, FL!CanEnq, Ring!CanEnq, FL!AllocReg, Ring!AllocReg
<1>4. FL!Init <=> Ring!Init
  BY <1>1 DEF FL!Init, Ring!Init
<1>5. (FL!TypeOK <=> Ring!TypeOK) /\ (FL!NoDuplicate <=> Ring!NoDuplicate)
  BY <1>1, <1>2 DEF FL!TypeOK, Ring!TypeOK, FL!NoDuplicate, Ring!NoDuplicate
<1>6. FL!Taken = Ring!Taken /\ FL!Free = Ring!Free
  BY <1>2 DEF FL!Taken, Ring!Taken, FL!Free, Ring!Free
<1>7. \A a, f, c, r : FL!Cycle(a, f, c, r) <=> Ring!Cycle(a, f, c, r)
  <2> TAKE a, f, c, r
  <2>1. FL!Enqueued(f) = Ring!Enqueued(f) /\ FL!Dequeued(a) = Ring!Dequeued(a)
    BY <1>3 DEF FL!Enqueued, Ring!Enqueued, FL!Dequeued, Ring!Dequeued
  <2>2. \A e : FL!Written(e) = Ring!Written(e)
    BY Zenon DEF FL!Written, Ring!Written, FL!Wrap, Ring!Wrap, FL!Slots, Ring!Slots, FL!DEPTH, Ring!DEPTH,
                 FL!Cardinality, Ring!Cardinality
  <2> QED
    BY <1>2, <2>1, <2>2 DEF FL!Cycle, Ring!Cycle, FL!NextCount, Ring!NextCount,
                            FL!NextArchCount, Ring!NextArchCount
<1> QED
  BY <1>1, <1>2, <1>3, <1>4, <1>5, <1>6, <1>7

\* Its numbers.
LEMMA RingFacts ==
  ASSUME Ring!Inv
  PROVE  /\ Ring!DEPTH \in Nat \ {0} /\ Ring!DEPTH = Cardinality(PhysRegs)
         /\ RENAME_WIDTH \in Nat /\ COMMIT_WIDTH \in Nat
         /\ count \in Nat /\ arch_count \in Nat /\ count <= arch_count /\ arch_count <= Ring!DEPTH
         /\ \A i \in 0 .. arch_count - 1 : Ring!RegAt(i) \in PhysRegs
         /\ \A i, j \in 0 .. arch_count - 1 : Ring!RegAt(i) = Ring!RegAt(j) => i = j
<1>1. Ring!DEPTH \in Nat \ {0} /\ Ring!DEPTH = Cardinality(PhysRegs)
  BY RingAssumptions, Ring!DepthType
<1>2. /\ count \in Nat /\ arch_count \in Nat /\ count <= arch_count /\ arch_count <= Ring!DEPTH
  BY <1>1 DEF Ring!Inv, Ring!TypeOK, Ring!PointersAgree
<1>3. ASSUME NEW i \in 0 .. arch_count - 1 PROVE Ring!RegAt(i) \in PhysRegs
  <2>1. i \in 0 .. Ring!DEPTH /\ arch_deq_ptr \in Ring!Slots /\ buffer \in [Ring!Slots -> PhysRegs]
    BY <1>1, <1>2 DEF Ring!Inv, Ring!TypeOK
  <2>2. Ring!Wrap(arch_deq_ptr + i) \in Ring!Slots
    BY <2>1, RingAssumptions, Ring!WrapType
  <2> QED
    BY <2>1, <2>2 DEF Ring!RegAt
<1>4. \A i, j \in 0 .. arch_count - 1 : Ring!RegAt(i) = Ring!RegAt(j) => i = j
  BY DEF Ring!Inv, Ring!NoDuplicate, Ring!RegAt
<1>5. RENAME_WIDTH \in Nat /\ COMMIT_WIDTH \in Nat
  BY <1>1, RenameWidthAssumption, CommitWidthAssumption
<1> QED
  BY <1>1, <1>2, <1>3, <1>4, <1>5

\* The next registers to hand out stand behind the ones that are out.
LEMMA NextOffered ==
  ASSUME Ring!Inv, NEW k \in Nat, k < count
  PROVE  Ring!AllocReg(k) = Ring!RegAt((arch_count - count) + k)
<1>1. Ring!DEPTH \in Nat \ {0}
  BY RingFacts
<1>2. /\ count \in Nat /\ arch_count \in Nat /\ count <= arch_count /\ arch_count <= Ring!DEPTH
      /\ deq_ptr \in Ring!Slots /\ arch_deq_ptr \in Ring!Slots
      /\ Ring!Wrap(deq_ptr + count) = Ring!Wrap(arch_deq_ptr + arch_count)
  BY <1>1 DEF Ring!Inv, Ring!TypeOK, Ring!PointersAgree
<1>3. Ring!Wrap(deq_ptr + k) = Ring!Wrap(arch_deq_ptr + ((arch_count - count) + k))
  BY <1>1, <1>2 DEF Ring!Wrap, Ring!Slots
<1> QED
  BY <1>3 DEF Ring!AllocReg, Ring!RegAt

-----------------------------------------------------------------------------
(* The invariant. *)

\* What is in flight is renamed as if it were renamed now, one instruction after
\* the other, from the architectural map and the ring behind arch_deq_ptr.
AsRenamed(s) ==
  \A i \in DOMAIN s :
    /\ Shaped(s[i])
    /\ RenamedFrom(s[i], Written(arch_mapping, SubSeq(s, 1, i - 1)),
                   Ring!RegAt(Rank(Allocs(s), i - 1)))

\* the buffers keep their sizes, and x0 its register
Sizes ==
  /\ Len(rob) <= ROB_SIZE /\ Len(renamed) <= RENAME_WIDTH
  /\ arch_mapping[0] = Zero
  /\ prev_saved = [c \in CommitPorts |-> prev_saved[c]]
  /\ dealloc = [c \in CommitPorts |-> dealloc[c]]

\* every register that is out belongs to an instruction in flight
FlightInv ==
  /\ arch_count - count = NumAlloc(InFlight)
  /\ AsRenamed(InFlight)

RegInv == Inv /\ Ring!Inv /\ Sizes /\ FlightInv /\ RegistersConserved

-----------------------------------------------------------------------------
(* Where registers come from. *)

\* the registers that the instructions of s before place i have taken
TakenBefore(s, i) == {s[k].prd : k \in {k \in Allocs(s) : k < i}}

\* What is in flight is a list, and its instructions that take a register are
\* counted by the ring.
LEMMA FlightFacts ==
  ASSUME Inv
  PROVE  /\ IsList(InFlight) /\ Len(InFlight) = Len(rob) + Len(renamed)
         /\ Len(InFlight) \in Nat /\ Len(rob) \in Nat /\ Len(renamed) \in Nat
         /\ DOMAIN InFlight = 1 .. Len(InFlight)
         /\ Allocs(InFlight) \in SUBSET (1 .. Len(InFlight))
         /\ NumAlloc(InFlight) = Cardinality(Allocs(InFlight))
         /\ IsMap(arch_mapping)
<1>1. IsList(rob) /\ IsList(renamed) /\ IsMap(arch_mapping)
  BY DEF Inv
<1>2. IsList(InFlight) /\ Len(InFlight) = Len(rob) + Len(renamed)
  BY <1>1, JoinedList DEF InFlight
<1>3. Len(InFlight) \in Nat /\ Len(rob) \in Nat /\ Len(renamed) \in Nat /\ DOMAIN InFlight = 1 .. Len(InFlight)
  BY <1>1, <1>2, ListDef
<1>4. Allocs(InFlight) \in SUBSET (1 .. Len(InFlight))
  BY <1>3 DEF Allocs
<1> QED
  BY <1>1, <1>2, <1>3, <1>4 DEF NumAlloc, Allocs

\* An instruction's destination is the register it took, and its source and, if
\* it moves, its destination are Zero, in the architectural map, or taken by an
\* older instruction: a chain of eliminated moves ends at one of those.
LEMMA Origin ==
  ASSUME Inv, AsRenamed(InFlight), NEW i \in DOMAIN InFlight
  PROVE  /\ InFlight[i].prs \in {Zero} \union Mapped \union TakenBefore(InFlight, i)
         /\ InFlight[i].prd \in {Zero} \union Mapped \union TakenBefore(InFlight, i + 1)
<1> DEFINE F == InFlight
           N == Len(InFlight)
           Good(j) == /\ F[j].prs \in {Zero} \union Mapped \union TakenBefore(F, j)
                      /\ F[j].prd \in {Zero} \union Mapped \union TakenBefore(F, j + 1)
           T == {j \in 1 .. N : ~Good(j)}
<1>1. IsList(F) /\ N \in Nat /\ DOMAIN F = 1 .. N /\ Allocs(F) \in SUBSET (1 .. N) /\ IsMap(arch_mapping)
  BY FlightFacts
<1> HIDE DEF F, N
<1>2. SUFFICES ASSUME T # {} PROVE FALSE
  BY <1>1 DEF F
<1>3. PICK j \in T : \A k \in T : j <= k
  <2>1. T \in SUBSET Nat
    BY <1>1
  <2> HIDE DEF T
  <2> QED
    BY <1>2, <2>1, LeastElement
<1>4. j \in 1 .. N /\ ~Good(j)
  OBVIOUS
<1>5. ASSUME NEW k \in 1 .. j - 1 PROVE F[k].prd \in {Zero} \union Mapped \union TakenBefore(F, j)
  <2>1. k \in 1 .. N /\ k < j /\ ~(j <= k)
    BY <1>1, <1>4
  <2>2. Good(k)
    BY <1>3, <2>1
  <2>3. TakenBefore(F, k + 1) \subseteq TakenBefore(F, j)
    <3>1. ASSUME NEW l \in Allocs(F), l < k + 1 PROVE l < j
      <4>1. l \in 1 .. N
        BY <1>1
      <4> QED
        BY <1>1, <1>4, <2>1, <3>1, <4>1
    <3> QED
      BY <3>1 DEF TakenBefore
  <2> QED
    BY <2>2, <2>3
<1>6. /\ F[j].ismv => F[j].prd = F[j].prs
      /\ ~F[j].ismv /\ ~HasRd(F[j]) => F[j].prd = Zero
      /\ \E l \in LRegs : F[j].prs = Written(arch_mapping, SubSeq(F, 1, j - 1))[l]
  BY <1>1, <1>4 DEF AsRenamed, RenamedFrom, F
<1>7. F[j].prs \in {Zero} \union Mapped \union TakenBefore(F, j)
  <2> DEFINE p == SubSeq(F, 1, j - 1)
  <2>1. PICK l \in LRegs : F[j].prs = Written(arch_mapping, p)[l]
    BY <1>6
  <2>2. j - 1 \in 0 .. Len(F) /\ j - 1 \in Nat
    BY <1>1, <1>4 DEF F, N
  <2>3. IsList(p) /\ Len(p) = j - 1 /\ \A k \in 1 .. j - 1 : p[k] = F[k]
    BY <1>1, <2>2, PartFacts
  <2> HIDE DEF p
  <2>4. DOMAIN p = 1 .. j - 1
    BY <2>3, ListDef
  <2>5. F[j].prs = IF Writers(p, l) = {} THEN arch_mapping[l] ELSE p[Max(Writers(p, l))].prd
    BY <2>1 DEF Written, Writers
  <2>6. CASE Writers(p, l) = {}
    BY <2>5, <2>6 DEF Mapped
  <2>7. CASE Writers(p, l) # {}
    <3>1. Writers(p, l) \in SUBSET (1 .. j - 1)
      BY <2>4 DEF Writers
    <3>2. Max(Writers(p, l)) \in 1 .. j - 1
      BY <2>2, <2>7, <3>1, MaxFacts
    <3> QED
      BY <1>5, <2>3, <2>5, <2>7, <3>2
  <2> QED
    BY <2>6, <2>7
<1>8. F[j].prd \in {Zero} \union Mapped \union TakenBefore(F, j + 1)
  <2>1. TakenBefore(F, j) \subseteq TakenBefore(F, j + 1)
    <3>1. ASSUME NEW l \in Allocs(F), l < j PROVE l < j + 1
      <4>1. l \in 1 .. N
        BY <1>1
      <4> QED
        BY <1>1, <1>4, <3>1, <4>1
    <3> QED
      BY <3>1 DEF TakenBefore
  <2>2. CASE Allocates(F[j])
    <3>1. j \in Allocs(F) /\ j < j + 1
      BY <1>1, <1>4, <2>2 DEF Allocs
    <3> QED
      BY <3>1 DEF TakenBefore
  <2>3. CASE ~Allocates(F[j])
    <3>1. CASE F[j].ismv
      BY <1>6, <1>7, <2>1, <3>1
    <3>2. CASE ~F[j].ismv
      BY <1>6, <2>3, <3>2 DEF Allocates
    <3> QED
      BY <3>1, <3>2
  <2> QED
    BY <2>2, <2>3
<1> QED
  BY <1>4, <1>7, <1>8

\* The registers taken are the first ones of the ring, in order.
LEMMA TakenFacts ==
  ASSUME Inv, Ring!Inv, FlightInv
  PROVE  /\ \A k \in Allocs(InFlight) :
              /\ Rank(Allocs(InFlight), k) \in 1 .. arch_count - count
              /\ Rank(Allocs(InFlight), k - 1) = Rank(Allocs(InFlight), k) - 1
              /\ InFlight[k].prd = Ring!RegAt(Rank(Allocs(InFlight), k) - 1)
              /\ InFlight[k].prd \in PhysRegs
         /\ \A k, l \in Allocs(InFlight) : InFlight[k].prd = InFlight[l].prd => k = l
<1> DEFINE F == InFlight
           N == Len(InFlight)
           A == Allocs(InFlight)
<1>1. N \in Nat /\ DOMAIN F = 1 .. N /\ A \in SUBSET (1 .. N) /\ Cardinality(A) = arch_count - count
  BY FlightFacts DEF FlightInv
<1>2. /\ count \in Nat /\ arch_count \in Nat /\ count <= arch_count
      /\ \A i \in 0 .. arch_count - 1 : Ring!RegAt(i) \in PhysRegs
      /\ \A i, j \in 0 .. arch_count - 1 : Ring!RegAt(i) = Ring!RegAt(j) => i = j
  BY RingFacts
<1>3. \A k \in A : Allocates(F[k]) /\ F[k].prd = Ring!RegAt(Rank(A, k - 1))
  BY DEF FlightInv, AsRenamed, RenamedFrom, Allocs
<1> HIDE DEF F, N, A
<1>4. ASSUME NEW k \in A
      PROVE  /\ Rank(A, k) \in 1 .. arch_count - count
             /\ Rank(A, k - 1) = Rank(A, k) - 1
             /\ Rank(A, k) - 1 \in 0 .. arch_count - 1
  <2>1. Rank(A, k) \in 1 .. arch_count - count
    BY <1>1, RankOwn
  <2>2. Rank(A, k - 1) \in Nat /\ Rank(A, k) = Rank(A, k - 1) + 1
    <3>1. k \in 1 .. N
      BY <1>1
    <3> QED
      BY <1>1, <3>1, RankStep
  <2> QED
    BY <1>2, <2>1, <2>2
<1>5. ASSUME NEW k \in A
      PROVE  F[k].prd = Ring!RegAt(Rank(A, k) - 1) /\ F[k].prd \in PhysRegs
  BY <1>2, <1>3, <1>4
<1>6. ASSUME NEW k \in A, NEW l \in A, F[k].prd = F[l].prd PROVE k = l
  <2>1. Rank(A, k) - 1 = Rank(A, l) - 1
    BY <1>2, <1>4, <1>5, <1>6
  <2>2. Rank(A, k) = Rank(A, l)
    BY <1>2, <1>4, <2>1
  <2> QED
    BY <1>1, <2>2, RankOwn
<1> QED
  BY <1>4, <1>5, <1>6 DEF F, N, A

-----------------------------------------------------------------------------
(* What comes back. *)

\* The registers of the ring, by their places.
LEMMA RingRegsAre ==
  ASSUME Ring!Inv
  PROVE  RingRegs = {Ring!RegAt(i) : i \in 0 .. arch_count - 1}
<1>1. arch_count \in Nat /\ count \in Nat /\ count <= arch_count
  BY RingFacts
<1>2. /\ DOMAIN Ring!Taken = 1 .. arch_count - count /\ DOMAIN Ring!Free = 1 .. count
      /\ \A i \in 1 .. arch_count - count : Ring!Taken[i] = Ring!RegAt(i - 1)
      /\ \A i \in 1 .. count : Ring!Free[i] = Ring!RegAt((arch_count - count) + (i - 1))
  BY Ring!Queues, RingAssumptions
<1>3. RingRegs = {Ring!Taken[i] : i \in 1 .. arch_count - count} \union {Ring!Free[i] : i \in 1 .. count}
  BY <1>2, SameFreeList DEF RingRegs
<1>4. ASSUME NEW i \in 0 .. arch_count - 1 PROVE Ring!RegAt(i) \in RingRegs
  <2>1. CASE i < arch_count - count
    <3>1. i + 1 \in 1 .. arch_count - count /\ (i + 1) - 1 = i
      BY <1>1, <2>1
    <3> QED
      BY <1>2, <1>3, <3>1
  <2>2. CASE ~(i < arch_count - count)
    <3>1. PICK j \in 1 .. count : (arch_count - count) + (j - 1) = i
      <4>1. /\ i - (arch_count - count) + 1 \in 1 .. count
            /\ (arch_count - count) + ((i - (arch_count - count) + 1) - 1) = i
        BY <1>1, <2>2
      <4> QED
        BY <4>1
    <3> QED
      BY <1>2, <1>3, <3>1
  <2> QED
    BY <2>1, <2>2
<1>5. ASSUME NEW p \in RingRegs PROVE \E i \in 0 .. arch_count - 1 : p = Ring!RegAt(i)
  <2>1. ASSUME NEW i \in 1 .. arch_count - count, p = Ring!Taken[i] PROVE \E j \in 0 .. arch_count - 1 : p = Ring!RegAt(j)
    <3>1. i - 1 \in 0 .. arch_count - 1
      BY <1>1
    <3> QED
      BY <1>2, <2>1, <3>1
  <2>2. ASSUME NEW i \in 1 .. count, p = Ring!Free[i] PROVE \E j \in 0 .. arch_count - 1 : p = Ring!RegAt(j)
    <3>1. (arch_count - count) + (i - 1) \in 0 .. arch_count - 1
      BY <1>1
    <3> QED
      BY <1>2, <2>2, <3>1
  <2> QED
    BY <1>3, <2>1, <2>2
<1> QED
  BY <1>4, <1>5

\* What is returned to the free list: every register of dealloc, once, and none
\* of them is in the ring.
LEMMA FreedFacts ==
  ASSUME Ring!Inv, Sizes, RegistersConserved
  PROVE  /\ Freed \in Ring!Returns
         /\ Len(Freed) \in Nat
         /\ Leaving = {Freed[k] : k \in 1 .. Len(Freed)}
<1> DEFINE vld == {c \in CommitPorts : dealloc[c] # Zero}
           m == Cardinality(vld)
           port(k) == CHOOSE c \in vld : Rank(vld, c) = k
<1>1. /\ COMMIT_WIDTH \in Nat /\ DOMAIN dealloc = CommitPorts
      /\ arch_count \in Nat /\ count \in Nat /\ count <= arch_count
  BY RingFacts DEF Sizes
<1>2. vld \in SUBSET (1 .. COMMIT_WIDTH)
  BY DEF CommitPorts
<1>3. Freed = [k \in 1 .. m |-> dealloc[port(k)]]
  BY DEF Freed, Rank
<1>4. IsFiniteSet(vld) /\ m \in Nat /\ m <= COMMIT_WIDTH
  <2>1. IsFiniteSet(1 .. COMMIT_WIDTH) /\ Cardinality(1 .. COMMIT_WIDTH) = COMMIT_WIDTH
    BY <1>1, FS_Interval
  <2> QED
    BY <1>2, <2>1, FS_Subset, FS_CardinalityType
<1>5. Leaving = {dealloc[c] : c \in vld}
  BY <1>1 DEF Leaving, SeqRange
<1>6. ASSUME NEW c \in vld PROVE c \in CommitPorts /\ dealloc[c] # Zero /\ dealloc[c] \in Leaving
  BY <1>5
<1> HIDE DEF vld, m
<1>7. ASSUME NEW k \in 1 .. m PROVE port(k) \in vld /\ Rank(vld, port(k)) = k
  <2>1. \E c \in vld : Rank(vld, c) = k
    BY <1>1, <1>2, RankAttained DEF m
  <2> QED
    BY <2>1
<1> HIDE DEF port
<1>8. /\ Freed \in [1 .. m -> Leaving]
      /\ \A k \in 1 .. m : Freed[k] = dealloc[port(k)]
  BY <1>3, <1>6, <1>7
<1>9. Len(Freed) = m
  <2>1. Freed \in Seq(Leaving)
    BY <1>4, <1>8
  <2> QED
    BY <1>4, <1>8, <2>1
<1>10. ASSUME NEW c \in vld PROVE \E k \in 1 .. m : Freed[k] = dealloc[c]
  <2>1. Rank(vld, c) \in 1 .. m /\ \A d \in vld : Rank(vld, d) = Rank(vld, c) => d = c
    BY <1>1, <1>2, RankOwn DEF m
  <2>2. port(Rank(vld, c)) = c
    BY <1>7, <2>1
  <2> QED
    BY <1>8, <2>1, <2>2
<1>11. Leaving = {Freed[k] : k \in 1 .. m}
  BY <1>5, <1>8, <1>10
<1>12. ASSUME NEW j \in 1 .. m, NEW k \in 1 .. m, Freed[j] = Freed[k] PROVE j = k
  <2>1. /\ port(j) \in vld /\ Rank(vld, port(j)) = j
        /\ port(k) \in vld /\ Rank(vld, port(k)) = k
    BY <1>7
  <2>2. dealloc[port(j)] = dealloc[port(k)]
    BY <1>8, <1>12
  <2>3. port(j) = port(k)
    BY <1>6, <2>1, <2>2 DEF RegistersConserved
  <2> QED
    BY <2>1, <2>3
<1>13. Leaving \subseteq Ring!InUse
  <2>1. Leaving \subseteq PhysRegs /\ RingRegs \intersect Leaving = {}
    BY DEF RegistersConserved
  <2>2. ASSUME NEW i \in 0 .. arch_count - 1 PROVE Ring!RegAt(i) \in RingRegs
    BY RingRegsAre
  <2> QED
    BY <2>1, <2>2 DEF Ring!InUse, Ring!RegAt
<1>14. Freed \in [1 .. m -> Ring!InUse] /\ m \in 0 .. COMMIT_WIDTH
  BY <1>1, <1>4, <1>8, <1>13
<1>15. Freed \in Ring!Returns
  <2>1. DOMAIN Freed = 1 .. m
    BY <1>8
  <2> QED
    BY <1>12, <1>14, <2>1 DEF Ring!Returns
<1> QED
  BY <1>4, <1>9, <1>11, <1>15

-----------------------------------------------------------------------------
(* A cycle without a squash. *)

\* A list takes no more registers than it has instructions.
LEMMA FewAllocs ==
  ASSUME NEW s, IsList(s)
  PROVE  NumAlloc(s) \in 0 .. Len(s)
<1>1. PICK n \in Nat : n = Len(s) /\ DOMAIN s = 1 .. n
  BY ListDef
<1>2. Allocs(s) \in SUBSET (1 .. n)
  BY <1>1 DEF Allocs
<1>3. IsFiniteSet(1 .. n) /\ Cardinality(1 .. n) = n
  BY FS_Interval
<1>4. Cardinality(Allocs(s)) \in Nat /\ Cardinality(Allocs(s)) <= n
  BY <1>2, <1>3, FS_Subset, FS_CardinalityType
<1> QED
  BY <1>1, <1>4 DEF NumAlloc, Allocs

\* What a cycle does that is not a squash: d, the n oldest instructions,
\* commits, r stays in flight and q is renamed.
Moves(n, d, r, q, alloc) ==
  /\ n \in Commits /\ d = SubSeq(rob, 1, n) /\ Len(d) = n
  /\ IsList(d) /\ IsList(r) /\ IsList(q)
  /\ InFlight = d \o r /\ InFlight' = r \o q
  /\ alloc \in 0 .. RENAME_WIDTH /\ Ring!Dequeued(alloc) = NumAlloc(q)
  /\ Ring!Cycle(alloc, Freed, NumAlloc(d), FALSE)
  /\ \A i \in DOMAIN q :
       /\ Shaped(q[i])
       /\ RenamedFrom(q[i], Written(spec_mapping, SubSeq(q, 1, i - 1)),
                      Ring!AllocReg(Rank(Allocs(q), i - 1)))
  /\ CommitCycle(n)
  /\ Len(rob') <= ROB_SIZE /\ Len(renamed') <= RENAME_WIDTH

\* The front of the ROB, and the rest of what is in flight.
LEMMA FlightCut ==
  ASSUME Inv, NEW n \in Commits
  PROVE  LET d == SubSeq(rob, 1, n)
             b == SubSeq(rob, n + 1, Len(rob))
             r == b \o renamed
         IN /\ IsList(d) /\ IsList(b) /\ IsList(r) /\ IsList(renamed)
            /\ Len(d) = n /\ Len(b) \in Nat /\ Len(b) <= Len(rob)
            /\ Len(r) = Len(b) + Len(renamed)
            /\ InFlight = d \o r
<1> DEFINE d == SubSeq(rob, 1, n)
           b == SubSeq(rob, n + 1, Len(rob))
<1>1. IsList(rob) /\ IsList(renamed) /\ Len(rob) \in Nat
  BY ListDef DEF Inv
<1>2. COMMIT_WIDTH \in Nat
  BY FS_CardinalityType, PhysRegsAssumption, CommitWidthAssumption
<1>3. n \in 0 .. Len(rob)
  BY <1>1, <1>2 DEF Commits
<1>4. IsList(d) /\ IsList(b) /\ rob = d \o b
  BY <1>1, <1>3, CutList
<1>5. Len(d) = n /\ Len(b) = Len(rob) - n
  BY <1>1, <1>3, PartFacts
<1>6. Len(b) \in Nat /\ Len(b) <= Len(rob)
  BY <1>1, <1>3, <1>5
<1> HIDE DEF d, b
<1>7. IsList(b \o renamed) /\ Len(b \o renamed) = Len(b) + Len(renamed)
  BY <1>1, <1>4, JoinedList
<1>8. (d \o b) \o renamed = d \o (b \o renamed)
  <2>1. IsList(d) /\ IsList(b) /\ IsList(renamed)
    BY <1>1, <1>4
  <2> QED
    BY <2>1, JoinAssociative
<1> QED
  BY <1>1, <1>4, <1>5, <1>6, <1>7, <1>8 DEF InFlight, d, b

\* A group that gets its registers.
LEMMA RenameMoves ==
  ASSUME Inv, Sizes, NEW n \in Commits, NEW g \in Groups, RenameGroup(g, n)
  PROVE  \E d, r, q, alloc : Moves(n, d, r, q, alloc)
<1> DEFINE d == SubSeq(rob, 1, n)
           b == SubSeq(rob, n + 1, Len(rob))
           r == b \o renamed
           q == RenamedGroup(g)
<1>1. /\ IsList(d) /\ IsList(b) /\ IsList(r) /\ IsList(renamed)
      /\ Len(d) = n /\ Len(b) \in Nat /\ Len(b) <= Len(rob)
      /\ Len(r) = Len(b) + Len(renamed)
      /\ InFlight = d \o r
  BY FlightCut
<1>2. /\ IsList(q) /\ Len(q) <= RENAME_WIDTH /\ NumAlloc(q) = NumAlloc(g)
      /\ \A i \in DOMAIN q :
           /\ Shaped(q[i])
           /\ RenamedFrom(q[i], Written(spec_mapping, SubSeq(q, 1, i - 1)),
                          FL!AllocReg(Rank(Allocs(q), i - 1)))
  BY GroupRenamed
<1>3. rob' = r /\ renamed' = q /\ CommitCycle(n)
  BY DEF RenameGroup, Dispatched
<1>4. NumAlloc(g) \in 0 .. RENAME_WIDTH
  <2>1. NumAlloc(q) \in 0 .. Len(q) /\ Len(q) \in Nat
    BY <1>2, FewAllocs, ListDef
  <2> QED
    BY <1>2, <2>1, WidthFacts
<1>5. Ring!Dequeued(NumAlloc(g)) = NumAlloc(q)
  BY <1>2, SameFreeList DEF RenameGroup, Ring!Dequeued
<1>6. Ring!Cycle(NumAlloc(g), Freed, NumAlloc(d), FALSE)
  BY SameFreeList DEF RenameGroup
<1>7. Len(r) <= ROB_SIZE
  <2>1. Len(rob) + Len(renamed) <= ROB_SIZE
    BY DEF RenameGroup, Dispatched
  <2>3. Len(rob) \in Nat /\ Len(renamed) \in Nat /\ ROB_SIZE \in Nat
    BY FlightFacts, SizesAssumption
  <2> HIDE DEF r, b
  <2> QED
    BY <1>1, <2>1, <2>3
<1>8. \A i \in DOMAIN q :
        /\ Shaped(q[i])
        /\ RenamedFrom(q[i], Written(spec_mapping, SubSeq(q, 1, i - 1)),
                       Ring!AllocReg(Rank(Allocs(q), i - 1)))
  BY <1>2, SameFreeList
<1>9. d = SubSeq(rob, 1, n)
  OBVIOUS
<1> HIDE DEF d, r, q, b
<1>10. InFlight' = r \o q
  BY <1>3 DEF InFlight
<1>11. Len(rob') <= ROB_SIZE /\ Len(renamed') <= RENAME_WIDTH
  BY <1>2, <1>3, <1>7
<1>12. Moves(n, d, r, q, NumAlloc(g))
  BY <1>1, <1>2, <1>3, <1>4, <1>5, <1>6, <1>8, <1>9, <1>10, <1>11 DEF Moves
<1> QED
  BY <1>12

\* A cycle that renames nothing.
LEMMA NothingMoves ==
  ASSUME Inv, Sizes, NEW n \in Commits, NEW r, NEW alloc \in 0 .. RENAME_WIDTH,
         IsList(r), InFlight = SubSeq(rob, 1, n) \o r, InFlight' = r,
         Ring!Dequeued(alloc) = 0,
         Ring!Cycle(alloc, Freed, NumAlloc(SubSeq(rob, 1, n)), FALSE), CommitCycle(n),
         Len(rob') <= ROB_SIZE, Len(renamed') <= RENAME_WIDTH
  PROVE  \E d, q : Moves(n, d, r, q, alloc)
<1> DEFINE d == SubSeq(rob, 1, n)
           q == << >>
<1>1. IsList(d) /\ Len(d) = n
  BY FlightCut
<1>2. IsList(q) /\ DOMAIN q = {}
  BY EmptyList
<1>3. NumAlloc(q) = 0
  BY EmptyList, FS_EmptySet DEF NumAlloc
<1>4. r \o q = r
  BY ConcatEmptySeq DEF IsList
<1>5. d = SubSeq(rob, 1, n)
  OBVIOUS
<1> HIDE DEF d, q
<1>6. Moves(n, d, r, q, alloc)
  BY <1>1, <1>2, <1>3, <1>4, <1>5 DEF Moves
<1> QED
  BY <1>6

\* Every step is such a cycle, a squash or none.
LEMMA NextMoves ==
  ASSUME Inv, Sizes, Next
  PROVE  Squash \/ \E n, d, r, q, alloc : Moves(n, d, r, q, alloc)
<1>1. ASSUME NEW n \in Commits, NEW g \in Groups, RenameGroup(g, n)
      PROVE  \E d, r, q, alloc : Moves(n, d, r, q, alloc)
  BY <1>1, RenameMoves
<1>2. ASSUME NEW n \in Commits, NEW g \in Groups, RenameRefused(g, n)
      PROVE  \E d, r, q, alloc : Moves(n, d, r, q, alloc)
  <2> DEFINE b == SubSeq(rob, n + 1, Len(rob))
             r == b \o renamed
             c == NumAlloc(SubSeq(rob, 1, n))
  <2>1. /\ IsList(r) /\ IsList(renamed) /\ IsList(b) /\ InFlight = SubSeq(rob, 1, n) \o r
        /\ Len(b) \in Nat /\ Len(b) <= Len(rob) /\ Len(r) = Len(b) + Len(renamed)
    BY FlightCut
  <2>2. NumAlloc(g) \in 0 .. RENAME_WIDTH
    <3>1. /\ IsList(RenamedGroup(g)) /\ Len(RenamedGroup(g)) <= RENAME_WIDTH
          /\ NumAlloc(RenamedGroup(g)) = NumAlloc(g)
      BY GroupRenamed
    <3>2. NumAlloc(RenamedGroup(g)) \in 0 .. Len(RenamedGroup(g)) /\ Len(RenamedGroup(g)) \in Nat
      BY <3>1, FewAllocs, ListDef
    <3> QED
      BY <3>1, <3>2, WidthFacts
  <2>3. Ring!Dequeued(NumAlloc(g)) = 0 /\ Ring!Cycle(NumAlloc(g), Freed, c, FALSE) /\ CommitCycle(n)
    BY <1>2, SameFreeList DEF RenameRefused, Ring!Dequeued
  <2>4. rob' = r /\ renamed' = << >>
    BY <1>2 DEF RenameRefused, Dispatched
  <2>5. Len(r) <= ROB_SIZE
    <3>1. Len(rob) + Len(renamed) <= ROB_SIZE
      BY <1>2 DEF RenameRefused, Dispatched
    <3>3. Len(rob) \in Nat /\ Len(renamed) \in Nat /\ ROB_SIZE \in Nat
      BY FlightFacts, SizesAssumption
    <3> HIDE DEF r, b
    <3> QED
      BY <2>1, <3>1, <3>3
  <2> HIDE DEF r, b
  <2>6. InFlight' = r
    BY <2>1, <2>4, ConcatEmptySeq DEF InFlight, IsList
  <2>7. Len(rob') <= ROB_SIZE /\ Len(renamed') <= RENAME_WIDTH
    BY <2>4, <2>5, EmptyList, WidthFacts
  <2>8. \E d, q : Moves(n, d, r, q, NumAlloc(g))
    BY <2>1, <2>2, <2>3, <2>6, <2>7, NothingMoves
  <2> QED
    BY <2>8
<1>3. ASSUME NEW n \in Commits, DispatchStall(n)
      PROVE  \E d, r, q, alloc : Moves(n, d, r, q, alloc)
  <2> DEFINE b == SubSeq(rob, n + 1, Len(rob))
             r == b \o renamed
             c == NumAlloc(SubSeq(rob, 1, n))
  <2>1. /\ IsList(r) /\ IsList(renamed) /\ IsList(b) /\ InFlight = SubSeq(rob, 1, n) \o r
        /\ Len(b) \in Nat /\ Len(b) <= Len(rob) /\ Len(r) = Len(b) + Len(renamed)
    BY FlightCut
  <2>2. 0 \in 0 .. RENAME_WIDTH
    BY WidthFacts
  <2>3. Ring!Dequeued(0) = 0 /\ Ring!Cycle(0, Freed, c, FALSE) /\ CommitCycle(n)
    BY <1>3, SameFreeList DEF DispatchStall, Ring!Dequeued
  <2>4. rob' = b /\ renamed' = renamed
    BY <1>3 DEF DispatchStall
  <2>5. InFlight' = r
    BY <2>4 DEF InFlight
  <2>6. Len(rob') <= ROB_SIZE /\ Len(renamed') <= RENAME_WIDTH
    <3>1. Len(rob) \in Nat /\ Len(rob) <= ROB_SIZE /\ Len(renamed) <= RENAME_WIDTH
      BY FlightFacts DEF Sizes
    <3> HIDE DEF b
    <3> QED
      BY <2>1, <2>4, <3>1, SizesAssumption
  <2> HIDE DEF r, b
  <2>7. \E d, q : Moves(n, d, r, q, 0)
    BY <2>1, <2>2, <2>3, <2>5, <2>6, NothingMoves
  <2> QED
    BY <2>7
<1> QED
  BY <1>1, <1>2, <1>3 DEF Next

-----------------------------------------------------------------------------
(* The ring keeps up with the instructions in flight. *)

\* What renaming does to the free list in a cycle is what its environment may do:
\* it commits no more registers than are out, and returns only what is in use.
LEMMA MoveInput ==
  ASSUME RegInv, NEW n, NEW d, NEW r, NEW q, NEW alloc, Moves(n, d, r, q, alloc)
  PROVE  /\ Ring!Input(alloc, Freed, NumAlloc(d), FALSE)
         /\ NumAlloc(d) \in Nat /\ NumAlloc(r) \in Nat /\ NumAlloc(q) \in Nat
         /\ arch_count - count = NumAlloc(d) + NumAlloc(r)
<1>1. IsList(d) /\ IsList(r) /\ IsList(q) /\ InFlight = d \o r /\ Len(d) = n /\ n \in Commits
  BY DEF Moves
<1>2. NumAlloc(d) \in Nat /\ NumAlloc(r) \in Nat /\ NumAlloc(q) \in Nat
  BY <1>1, AllocsJoined
<1>3. arch_count - count = NumAlloc(d) + NumAlloc(r)
  BY <1>1, AllocsJoined DEF RegInv, FlightInv
<1>4. NumAlloc(d) \in 0 .. COMMIT_WIDTH /\ NumAlloc(d) <= arch_count - count
  <2>1. NumAlloc(d) <= n
    BY <1>1, FewAllocs
  <2>2. n \in Int /\ n <= COMMIT_WIDTH /\ COMMIT_WIDTH \in Nat
    BY <1>1, WidthFacts
  <2> QED
    BY <1>2, <1>3, <2>1, <2>2
<1>5. Freed \in Ring!Returns
  BY FreedFacts DEF RegInv
<1>6. alloc \in 0 .. RENAME_WIDTH /\ Ring!Cycle(alloc, Freed, NumAlloc(d), FALSE)
  BY DEF Moves
<1>7. Ring!Input(alloc, Freed, NumAlloc(d), FALSE)
  BY <1>4, <1>5, <1>6 DEF Ring!Input
<1> QED
  BY <1>2, <1>3, <1>7

\* The ring after any cycle that it accepts.
LEMMA RingNext ==
  ASSUME Ring!Inv, NEW alloc, NEW committed, NEW resteer, Ring!Input(alloc, Freed, committed, resteer)
  PROVE  /\ Ring!Inv'
         /\ committed \in Nat /\ committed <= arch_count - count
         /\ Ring!Dequeued(alloc) \in 0 .. count
         /\ Len(Freed) \in Nat /\ arch_count + Len(Freed) <= Ring!DEPTH
         /\ arch_count' = arch_count - committed + Len(Freed)
         /\ count' = IF resteer THEN arch_count + Len(Freed) ELSE count + Len(Freed) - Ring!Dequeued(alloc)
         /\ \A i \in 0 .. arch_count' - 1 :
              Ring!RegAt(i)' = IF i < arch_count - committed THEN Ring!RegAt(i + committed)
                               ELSE Freed[i - (arch_count - committed) + 1]
<1>1. Ring!TypeOK' /\ Ring!PointersAgree' /\ Ring!NoDuplicate'
  BY RingAssumptions, Ring!CycleTypeOK, Ring!CyclePointersAgree, Ring!CycleNoDuplicate
<1>2. Ring!Inv'
  BY <1>1 DEF Ring!Inv
<1>3. /\ Len(Freed) \in Nat /\ arch_count + Len(Freed) <= Ring!DEPTH
      /\ committed \in Nat /\ committed <= arch_count - count
      /\ Ring!Dequeued(alloc) \in 0 .. count
      /\ arch_count' = arch_count - committed + Len(Freed)
      /\ count' = IF resteer THEN arch_count + Len(Freed) ELSE count + Len(Freed) - Ring!Dequeued(alloc)
  BY RingAssumptions, Ring!CycleFacts
<1>4. \A i \in 0 .. arch_count' - 1 :
        Ring!RegAt(i)' = IF i < arch_count - committed THEN Ring!RegAt(i + committed)
                         ELSE Freed[i - (arch_count - committed) + 1]
  BY RingAssumptions, Ring!RingAfterCycle
<1> QED
  BY <1>2, <1>3, <1>4

\* How an instruction is renamed depends on the register on offer only if it
\* takes one.
LEMMA OfferMatters ==
  ASSUME NEW x, NEW m, NEW a, NEW b, RenamedFrom(x, m, a), Allocates(x) => a = b
  PROVE  RenamedFrom(x, m, b)
  BY DEF RenamedFrom

\* The registers still out belong to the instructions still in flight, and the
\* ones handed out to the ones renamed.
LEMMA MoveFlight ==
  ASSUME RegInv, NEW n, NEW d, NEW r, NEW q, NEW alloc, Moves(n, d, r, q, alloc)
  PROVE  Ring!Inv' /\ FlightInv'
<1> DEFINE c == NumAlloc(d)
           F == r \o q
           G == d \o r
<1>1. /\ Ring!Input(alloc, Freed, c, FALSE)
      /\ c \in Nat /\ NumAlloc(r) \in Nat /\ NumAlloc(q) \in Nat
      /\ arch_count - count = c + NumAlloc(r)
  BY MoveInput
<1>2. IsList(d) /\ IsList(r) /\ IsList(q)
  BY DEF Moves
<1>20. /\ Ring!Inv /\ AsRenamed(InFlight) /\ InFlight = G /\ InFlight' = F
  BY DEF RegInv, FlightInv, Moves
<1>21. /\ Ring!Dequeued(alloc) = NumAlloc(q)
      /\ \A i \in DOMAIN q :
           /\ Shaped(q[i])
           /\ RenamedFrom(q[i], Written(spec_mapping, SubSeq(q, 1, i - 1)),
                          Ring!AllocReg(Rank(Allocs(q), i - 1)))
  BY DEF RegInv, FlightInv, Moves
<1>3. /\ Ring!Inv'
      /\ c <= arch_count - count
      /\ NumAlloc(q) \in 0 .. count
      /\ Len(Freed) \in Nat
      /\ arch_count' = arch_count - c + Len(Freed)
      /\ count' = count + Len(Freed) - NumAlloc(q)
      /\ \A i \in 0 .. arch_count' - 1 :
           Ring!RegAt(i)' = IF i < arch_count - c THEN Ring!RegAt(i + c)
                            ELSE Freed[i - (arch_count - c) + 1]
  BY <1>1, <1>20, <1>21, RingNext
<1>4. count \in Nat /\ arch_count \in Nat /\ count <= arch_count
  BY <1>20, RingFacts
<1>5. arch_mapping' = Written(arch_mapping, d) /\ spec_mapping = Written(arch_mapping, G)
  BY <1>20 DEF RegInv, Moves, CommitCycle, Inv, SpecIsReplay
<1>6. PICK D \in Nat, R \in Nat, Q \in Nat : D = Len(d) /\ R = Len(r) /\ Q = Len(q)
  BY <1>2, ListDef
<1>7. /\ DOMAIN q = 1 .. Q /\ DOMAIN F = 1 .. R + Q /\ DOMAIN G = 1 .. D + R /\ DOMAIN r = 1 .. R
      /\ \A i \in 1 .. R : F[i] = r[i]
      /\ \A j \in 1 .. Q : F[R + j] = q[j]
      /\ \A i \in 1 .. R : G[D + i] = r[i]
  <2>1. IsList(F) /\ Len(F) = R + Q /\ IsList(G) /\ Len(G) = D + R
    BY <1>2, <1>6, JoinedList
  <2>2. DOMAIN F = 1 .. R + Q /\ DOMAIN G = 1 .. D + R
    <3> HIDE DEF F, G
    <3> QED
      BY <2>1, ListDef
  <2> QED
    BY <1>2, <1>6, <2>2, ListDef, JoinedList
<1>8. /\ Allocs(r) \in SUBSET (1 .. R) /\ NumAlloc(r) = Cardinality(Allocs(r))
      /\ Allocs(q) \in SUBSET (1 .. Q) /\ NumAlloc(q) = Cardinality(Allocs(q))
  BY <1>7 DEF Allocs, NumAlloc
<1>9. NumAlloc(F) = NumAlloc(r) + NumAlloc(q)
  BY <1>2, AllocsJoined
<1>10. arch_count' - count' = NumAlloc(F)
  <2> DEFINE u == NumAlloc(r)
             v == NumAlloc(q)
             w == NumAlloc(F)
             m == Len(Freed)
  <2>1. /\ c \in Nat /\ u \in Nat /\ v \in Nat /\ m \in Nat /\ arch_count - count = c + u
        /\ arch_count' = arch_count - c + m /\ count' = count + m - v /\ w = u + v
        /\ count \in Nat /\ arch_count \in Nat
    BY <1>1, <1>3, <1>4, <1>9
  <2> HIDE DEF c, F, G, u, v, w, m
  <2>2. arch_count' - count' = w
    BY <2>1
  <2> QED
    BY <2>2 DEF w
<1>11. ASSUME NEW i \in 1 .. R
       PROVE  /\ Shaped(F[i])
              /\ RenamedFrom(F[i], Written(arch_mapping', SubSeq(F, 1, i - 1)),
                             Ring!RegAt(Rank(Allocs(F), i - 1))')
  <2> DEFINE k == Rank(Allocs(r), i - 1)
             y == SubSeq(r, 1, i - 1)
  <2>1. D + i \in DOMAIN G /\ (D + i) - 1 = D + (i - 1) /\ i - 1 \in 0 .. R
    BY <1>6, <1>7
  <2>2. /\ Shaped(G[D + i])
        /\ RenamedFrom(G[D + i], Written(arch_mapping, SubSeq(G, 1, D + (i - 1))),
                       Ring!RegAt(Rank(Allocs(G), D + (i - 1))))
    BY <1>20, <2>1 DEF AsRenamed
  <2>3. G[D + i] = r[i] /\ F[i] = r[i]
    BY <1>7
  <2>4. SubSeq(G, 1, D + (i - 1)) = d \o y /\ SubSeq(F, 1, i - 1) = y
    <3>1. i - 1 \in 0 .. Len(r)
      BY <1>6, <2>1
    <3>2. SubSeq(d \o r, 1, Len(d) + (i - 1)) = d \o SubSeq(r, 1, i - 1)
      BY <1>2, <3>1, BeginJoined
    <3>3. SubSeq(r \o q, 1, i - 1) = SubSeq(r, 1, i - 1)
      BY <1>2, <3>1, BeginJoined
    <3> QED
      BY <1>6, <3>2, <3>3
  <2>5. Rank(Allocs(G), D + (i - 1)) = c + k /\ Rank(Allocs(F), i - 1) = k
    BY <1>2, <1>6, <2>1, AllocsJoined
  <2>6. Written(arch_mapping, d \o y) = Written(arch_mapping', y)
    <3>1. IsList(y)
      BY <1>2, <1>6, <2>1, PartFacts
    <3> HIDE DEF y
    <3> QED
      BY <1>2, <1>5, <3>1, WrittenJoined
  <2>7. Allocates(r[i]) => Ring!RegAt(c + k) = Ring!RegAt(k)'
    <3>1. SUFFICES ASSUME Allocates(r[i]) PROVE Ring!RegAt(c + k) = Ring!RegAt(k)'
      OBVIOUS
    <3>2. i \in Allocs(r)
      BY <1>7, <3>1 DEF Allocs
    <3>3. k \in Nat /\ Rank(Allocs(r), i) = k + 1 /\ Rank(Allocs(r), i) <= NumAlloc(r)
      <4>1. Rank(Allocs(r), i) \in 1 .. Cardinality(Allocs(r))
        BY <1>8, <3>2, RankOwn
      <4>2. Rank(Allocs(r), i - 1) \in Nat /\ Rank(Allocs(r), i) = Rank(Allocs(r), i - 1) + 1
        BY <1>8, <3>2, RankStep
      <4> HIDE DEF k
      <4> QED
        BY <1>1, <1>8, <4>1, <4>2 DEF k
    <3> HIDE DEF k
    <3>4. k \in 0 .. arch_count' - 1 /\ k < arch_count - c /\ k + c = c + k
      <4> DEFINE u == NumAlloc(r)
                 m == Len(Freed)
      <4>1. /\ c \in Nat /\ u \in Nat /\ count \in Nat /\ arch_count \in Nat /\ m \in Nat
            /\ k \in Nat /\ k + 1 <= u
            /\ arch_count - count = c + u /\ arch_count' = arch_count - c + m
        BY <1>1, <1>3, <1>4, <3>3
      <4> HIDE DEF c, u, m
      <4> QED
        BY <4>1
    <3> QED
      BY <1>3, <3>4
  <2> HIDE DEF k, y
  <2>8. RenamedFrom(r[i], Written(arch_mapping', y), Ring!RegAt(c + k))
    BY <2>2, <2>3, <2>4, <2>5, <2>6
  <2>9. RenamedFrom(r[i], Written(arch_mapping', y), Ring!RegAt(k)')
    BY <2>7, <2>8, OfferMatters
  <2> QED
    BY <2>2, <2>3, <2>4, <2>5, <2>9
<1>12. ASSUME NEW j \in 1 .. Q
       PROVE  /\ Shaped(F[R + j])
              /\ RenamedFrom(F[R + j], Written(arch_mapping', SubSeq(F, 1, R + (j - 1))),
                             Ring!RegAt(Rank(Allocs(F), R + (j - 1)))')
  <2> DEFINE k == Rank(Allocs(q), j - 1)
             y == SubSeq(q, 1, j - 1)
             u == NumAlloc(r)
  <2>1. j - 1 \in 0 .. Q
    OBVIOUS
  <2>2. Shaped(q[j]) /\ RenamedFrom(q[j], Written(spec_mapping, y), Ring!AllocReg(k))
    BY <1>21, <1>7
  <2>3. SubSeq(F, 1, R + (j - 1)) = r \o y
    <3>1. j - 1 \in 0 .. Len(q)
      BY <1>6, <2>1
    <3>2. SubSeq(r \o q, 1, Len(r) + (j - 1)) = r \o SubSeq(q, 1, j - 1)
      BY <1>2, <3>1, BeginJoined
    <3> QED
      BY <1>6, <3>2
  <2>4. Rank(Allocs(F), R + (j - 1)) = u + k
    BY <1>2, <1>6, <2>1, AllocsJoined
  <2>5. IsList(y)
    BY <1>2, <1>6, <2>1, PartFacts
  <2>6. Written(spec_mapping, y) = Written(arch_mapping', r \o y)
    <3> HIDE DEF y
    <3>1. spec_mapping = Written(arch_mapping', r)
      BY <1>2, <1>5, WrittenJoined
    <3> QED
      BY <1>2, <2>5, <3>1, WrittenJoined
  <2>7. Allocates(q[j]) => Ring!AllocReg(k) = Ring!RegAt(u + k)'
    <3>1. SUFFICES ASSUME Allocates(q[j]) PROVE Ring!AllocReg(k) = Ring!RegAt(u + k)'
      OBVIOUS
    <3>2. j \in Allocs(q)
      BY <1>7, <3>1 DEF Allocs
    <3>3. k \in Nat /\ k + 1 <= NumAlloc(q)
      <4>1. Rank(Allocs(q), j) \in 1 .. Cardinality(Allocs(q))
        BY <1>8, <3>2, RankOwn
      <4>2. Rank(Allocs(q), j - 1) \in Nat /\ Rank(Allocs(q), j) = Rank(Allocs(q), j - 1) + 1
        BY <1>8, <3>2, RankStep
      <4> HIDE DEF k
      <4> QED
        BY <1>1, <1>8, <4>1, <4>2 DEF k
    <3> HIDE DEF k
    <3>4. k < count /\ Ring!AllocReg(k) = Ring!RegAt((arch_count - count) + k)
      <4>1. k < count
        BY <1>3, <1>4, <3>3
      <4> QED
        BY <1>20, <3>3, <4>1, NextOffered
    <3> HIDE DEF u
    <3>5. /\ u + k \in 0 .. arch_count' - 1 /\ u + k < arch_count - c
          /\ (u + k) + c = (arch_count - count) + k
      <4> HIDE DEF c
      <4>1. /\ c \in Nat /\ u \in Nat /\ count \in Nat /\ arch_count \in Nat /\ Len(Freed) \in Nat /\ k \in Nat
            /\ arch_count - count = c + u /\ k < count /\ arch_count' = arch_count - c + Len(Freed)
        BY <1>1, <1>3, <1>4, <3>3, <3>4 DEF u
      <4> HIDE DEF u
      <4> QED
        BY <4>1
    <3> QED
      BY <1>3, <3>4, <3>5
  <2>8. F[R + j] = q[j]
    BY <1>7
  <2> HIDE DEF k, y, u
  <2>9. RenamedFrom(q[j], Written(arch_mapping', r \o y), Ring!RegAt(u + k)')
    <3>1. RenamedFrom(q[j], Written(arch_mapping', r \o y), Ring!AllocReg(k))
      BY <2>2, <2>6
    <3> QED
      BY <2>7, <3>1, OfferMatters
  <2> QED
    BY <2>2, <2>3, <2>4, <2>8, <2>9
<1> HIDE DEF F, G, c
<1>13. ASSUME NEW i \in DOMAIN F
       PROVE  /\ Shaped(F[i])
              /\ RenamedFrom(F[i], Written(arch_mapping', SubSeq(F, 1, i - 1)),
                             Ring!RegAt(Rank(Allocs(F), i - 1))')
  <2>1. CASE i \in 1 .. R
    BY <1>11, <2>1
  <2>2. CASE i \notin 1 .. R
    <3>1. PICK j \in 1 .. Q : i = R + j
      <4>1. i - R \in 1 .. Q /\ i = R + (i - R)
        BY <1>6, <1>7, <2>2
      <4> QED
        BY <4>1
    <3>2. i - 1 = R + (j - 1)
      BY <3>1, <1>6
    <3> QED
      BY <1>12, <3>1, <3>2
  <2> QED
    BY <2>1, <2>2
<1>14. AsRenamed(InFlight)'
  BY <1>20, <1>13 DEF AsRenamed
<1>15. arch_count' - count' = NumAlloc(InFlight)'
  BY <1>20, <1>10
<1> QED
  BY <1>3, <1>14, <1>15 DEF FlightInv

-----------------------------------------------------------------------------
(* What a commit does to the registers. *)

\* d is what commits when n instructions do
Front(n, d) == n \in Commits /\ d = SubSeq(rob, 1, n)

\* the registers that the instructions of s have taken
TakenBy(s) == {s[k].prd : k \in Allocs(s)}

\* The front of the ROB is the front of what is in flight.
LEMMA FrontFacts ==
  ASSUME Inv, NEW n, NEW d, Front(n, d)
  PROVE  /\ IsList(d) /\ Len(d) = n /\ n \in Nat /\ n <= COMMIT_WIDTH /\ DOMAIN d = 1 .. n
         /\ \E r : IsList(r) /\ InFlight = d \o r
         /\ \A k \in 1 .. n : k \in DOMAIN InFlight /\ InFlight[k] = d[k]
         /\ Allocs(d) = {k \in Allocs(InFlight) : k < n + 1}
<1>1. /\ IsList(d) /\ Len(d) = n
      /\ \E r : IsList(r) /\ InFlight = d \o r
  BY FlightCut DEF Front
<1>2. n \in Nat /\ n <= COMMIT_WIDTH
  BY <1>1, ListDef, WidthFacts DEF Front
<1>3. PICK r : IsList(r) /\ InFlight = d \o r
  BY <1>1
<1>4. DOMAIN d = 1 .. n
  BY <1>1, ListDef
<1>5. PICK b \in Nat : b = Len(r)
  BY <1>3, ListDef
<1>6. DOMAIN InFlight = 1 .. n + b
  BY <1>1, <1>3, <1>5, FlightFacts, JoinedList
<1>7. ASSUME NEW k \in 1 .. n PROVE k \in DOMAIN InFlight /\ InFlight[k] = d[k]
  BY <1>1, <1>2, <1>3, <1>6, JoinedList
<1>8. Allocs(d) = {k \in Allocs(InFlight) : k < n + 1}
  <2>1. ASSUME NEW k PROVE k \in 1 .. n <=> k \in 1 .. n + b /\ k < n + 1
    BY <1>2
  <2> QED
    BY <1>4, <1>6, <1>7, <2>1 DEF Allocs
<1> QED
  BY <1>1, <1>2, <1>4, <1>7, <1>8

\* An instruction that commits has a register that is mapped or that one of
\* those committing with it has taken.
LEMMA FrontRegs ==
  ASSUME RegInv, NEW n, NEW d, Front(n, d), NEW k \in 1 .. n
  PROVE  d[k].prd \in {Zero} \union Mapped \union TakenBy(d) /\ d[k].rd \in LRegs
<1>1. Inv /\ AsRenamed(InFlight)
  BY DEF RegInv, FlightInv
<1>2. /\ k \in DOMAIN InFlight /\ InFlight[k] = d[k] /\ n \in Nat
      /\ Allocs(d) = {j \in Allocs(InFlight) : j < n + 1}
      /\ \A j \in 1 .. n : InFlight[j] = d[j]
      /\ DOMAIN d = 1 .. n
  BY <1>1, FrontFacts
<1>3. d[k].prd \in {Zero} \union Mapped \union TakenBefore(InFlight, k + 1)
  BY <1>1, <1>2, Origin
<1>4. ASSUME NEW j \in Allocs(InFlight), j < k + 1 PROVE InFlight[j].prd \in TakenBy(d)
  <2>1. j \in Nat
    BY <1>1, FlightFacts
  <2>2. j < n + 1
    BY <1>2, <1>4, <2>1
  <2>3. j \in Allocs(d) /\ Allocs(d) \in SUBSET (1 .. n)
    BY <1>2, <2>2 DEF Allocs
  <2>4. InFlight[j].prd = d[j].prd
    BY <1>2, <2>3
  <2> QED
    BY <2>3, <2>4 DEF TakenBy
<1>5. Shaped(d[k])
  BY <1>1, <1>2 DEF AsRenamed
<1> QED
  BY <1>3, <1>4, <1>5 DEF TakenBefore, Shaped

\* The registers that commit are the first ones of the ring.
LEMMA FrontTaken ==
  ASSUME RegInv, NEW n, NEW d, Front(n, d)
  PROVE  /\ NumAlloc(d) \in Nat /\ NumAlloc(d) <= arch_count
         /\ TakenBy(d) = {Ring!RegAt(i) : i \in 0 .. NumAlloc(d) - 1}
<1>1. Inv /\ Ring!Inv /\ FlightInv
  BY DEF RegInv
<1>2. /\ IsList(d) /\ Len(d) = n /\ n \in Nat /\ DOMAIN d = 1 .. n
      /\ \A k \in 1 .. n : InFlight[k] = d[k]
      /\ Allocs(d) = {k \in Allocs(InFlight) : k < n + 1}
  BY <1>1, FrontFacts
<1>3. PICK r : IsList(r) /\ InFlight = d \o r
  BY <1>1, FrontFacts
<1>4. Allocs(d) \in SUBSET (1 .. n) /\ NumAlloc(d) = Cardinality(Allocs(d)) /\ NumAlloc(d) \in Nat
  BY <1>2, AllocsJoined DEF NumAlloc, Allocs
<1>5. NumAlloc(d) <= arch_count
  <2>1. NumAlloc(InFlight) = NumAlloc(d) + NumAlloc(r) /\ NumAlloc(r) \in Nat
    BY <1>2, <1>3, AllocsJoined
  <2>2. arch_count - count = NumAlloc(InFlight) /\ arch_count \in Nat /\ count \in Nat
    BY <1>1, RingFacts DEF FlightInv
  <2> QED
    BY <1>4, <2>1, <2>2
<1>6. ASSUME NEW k \in Allocs(d)
      PROVE  /\ Rank(Allocs(d), k) \in 1 .. NumAlloc(d)
             /\ d[k].prd = Ring!RegAt(Rank(Allocs(d), k) - 1)
  <2>1. Rank(Allocs(d), k) \in 1 .. NumAlloc(d)
    BY <1>2, <1>4, RankOwn
  <2>2. k \in Allocs(InFlight) /\ InFlight[k] = d[k] /\ k \in 0 .. Len(d)
    BY <1>2, <1>4
  <2>3. Rank(Allocs(InFlight), k) = Rank(Allocs(d), k)
    <3>1. IsList(d) /\ IsList(r) /\ k \in 0 .. Len(d)
      BY <1>2, <1>3, <2>2
    <3>2. Rank(Allocs(d \o r), k) = Rank(Allocs(d), k)
      BY <3>1, AllocsJoined
    <3> QED
      BY <1>3, <3>2
  <2>4. InFlight[k].prd = Ring!RegAt(Rank(Allocs(InFlight), k) - 1)
    BY <1>1, <2>2, TakenFacts
  <2> QED
    BY <2>1, <2>2, <2>3, <2>4
<1>7. ASSUME NEW i \in 0 .. NumAlloc(d) - 1 PROVE Ring!RegAt(i) \in TakenBy(d)
  <2>1. i + 1 \in 1 .. Cardinality(Allocs(d))
    BY <1>4
  <2>2. PICK k \in Allocs(d) : Rank(Allocs(d), k) = i + 1
    BY <1>2, <1>4, <2>1, RankAttained
  <2>3. (i + 1) - 1 = i
    OBVIOUS
  <2> QED
    BY <1>6, <2>2, <2>3 DEF TakenBy
<1>8. ASSUME NEW k \in Allocs(d) PROVE \E i \in 0 .. NumAlloc(d) - 1 : d[k].prd = Ring!RegAt(i)
  <2>1. Rank(Allocs(d), k) - 1 \in 0 .. NumAlloc(d) - 1
    BY <1>4, <1>6
  <2> QED
    BY <1>6, <2>1
<1> QED
  BY <1>4, <1>5, <1>7, <1>8 DEF TakenBy

\* What commits takes its registers out of the ring, and what leaves comes in.
LEMMA RingMoves ==
  ASSUME RegInv, NEW n, NEW d, Front(n, d), NEW alloc, NEW resteer,
         Ring!Input(alloc, Freed, NumAlloc(d), resteer)
  PROVE  RingRegs' = (RingRegs \ TakenBy(d)) \union Leaving /\ TakenBy(d) \subseteq RingRegs
<1> DEFINE c == NumAlloc(d)
           m == Len(Freed)
<1>1. Ring!Inv /\ Sizes /\ RegistersConserved
  BY DEF RegInv
<1>2. /\ Ring!Inv' /\ m \in Nat /\ arch_count' = arch_count - c + m
      /\ \A i \in 0 .. arch_count' - 1 :
           Ring!RegAt(i)' = IF i < arch_count - c THEN Ring!RegAt(i + c)
                            ELSE Freed[i - (arch_count - c) + 1]
  BY <1>1, RingNext
<1>3. c \in Nat /\ c <= arch_count /\ TakenBy(d) = {Ring!RegAt(i) : i \in 0 .. c - 1}
  BY FrontTaken
<1>4. /\ arch_count \in Nat
      /\ \A i, j \in 0 .. arch_count - 1 : Ring!RegAt(i) = Ring!RegAt(j) => i = j
  BY <1>1, RingFacts
<1>5. RingRegs = {Ring!RegAt(i) : i \in 0 .. arch_count - 1}
  BY <1>1, RingRegsAre
<1>6. RingRegs' = {Ring!RegAt(i)' : i \in 0 .. arch_count' - 1}
  <2>1. Ring!Inv => RingRegs = {Ring!RegAt(i) : i \in 0 .. arch_count - 1}
    BY RingRegsAre
  <2>2. (Ring!Inv => RingRegs = {Ring!RegAt(i) : i \in 0 .. arch_count - 1})'
    BY RingRegsAre, PTL
  <2> QED
    BY <1>2, <2>2
<1>7. Leaving = {Freed[k] : k \in 1 .. m}
  BY <1>1, FreedFacts
<1> HIDE DEF c, m
<1>8. ASSUME NEW i \in 0 .. c - 1 PROVE Ring!RegAt(i) \in RingRegs
  <2>1. i \in 0 .. arch_count - 1
    BY <1>3, <1>4
  <2> QED
    BY <1>5, <2>1
<1>9. ASSUME NEW i \in 0 .. arch_count' - 1
      PROVE  Ring!RegAt(i)' \in (RingRegs \ TakenBy(d)) \union Leaving
  <2>1. CASE i < arch_count - c
    <3>1. i + c \in 0 .. arch_count - 1 /\ \A j \in 0 .. c - 1 : j \in 0 .. arch_count - 1 /\ j # i + c
      BY <1>3, <1>4, <2>1
    <3>2. Ring!RegAt(i + c) \in RingRegs
      BY <1>5, <3>1
    <3>3. ASSUME NEW j \in 0 .. c - 1 PROVE Ring!RegAt(j) # Ring!RegAt(i + c)
      BY <1>4, <3>1
    <3>4. Ring!RegAt(i)' = Ring!RegAt(i + c)
      BY <1>2, <2>1
    <3> QED
      BY <1>3, <3>2, <3>3, <3>4
  <2>2. CASE ~(i < arch_count - c)
    <3>1. i - (arch_count - c) + 1 \in 1 .. m
      BY <1>2, <1>3, <1>4, <2>2
    <3> QED
      BY <1>2, <1>7, <2>2, <3>1
  <2> QED
    BY <2>1, <2>2
<1>10. ASSUME NEW x \in RingRegs, x \notin TakenBy(d) PROVE \E i \in 0 .. arch_count' - 1 : x = Ring!RegAt(i)'
  <2>1. PICK j \in 0 .. arch_count - 1 : x = Ring!RegAt(j)
    BY <1>5
  <2>2. j \notin 0 .. c - 1
    BY <1>3, <1>10, <2>1
  <2>3. /\ j - c \in 0 .. arch_count' - 1 /\ j - c < arch_count - c /\ (j - c) + c = j
    BY <1>2, <1>3, <1>4, <2>2
  <2>4. Ring!RegAt(j - c)' = Ring!RegAt(j)
    BY <1>2, <2>3
  <2> QED
    BY <2>1, <2>3, <2>4
<1>11. ASSUME NEW x \in Leaving PROVE \E i \in 0 .. arch_count' - 1 : x = Ring!RegAt(i)'
  <2>1. PICK k \in 1 .. m : x = Freed[k]
    BY <1>7
  <2>2. PICK i \in 0 .. arch_count' - 1 : ~(i < arch_count - c) /\ i - (arch_count - c) + 1 = k
    <3>1. /\ (arch_count - c) + (k - 1) \in 0 .. arch_count' - 1
          /\ ~((arch_count - c) + (k - 1) < arch_count - c)
          /\ ((arch_count - c) + (k - 1)) - (arch_count - c) + 1 = k
      BY <1>2, <1>3, <1>4
    <3> QED
      BY <3>1
  <2>3. Ring!RegAt(i)' = Freed[k]
    BY <1>2, <2>2
  <2> QED
    BY <2>1, <2>2, <2>3
<1> QED
  BY <1>3, <1>6, <1>8, <1>9, <1>10, <1>11

\* The registers behind the map, x0 aside.
LEMMA MappedFacts ==
  ASSUME NEW p
  PROVE  /\ p \in Mapped <=> p # Zero /\ \E l \in LRegs : arch_mapping[l] = p
         /\ Sizes /\ p # Zero => (p \in Mapped <=> StillMapped(p))
<1>1. p \in Mapped <=> p # Zero /\ \E l \in LRegs : arch_mapping[l] = p
  BY DEF Mapped
<1>2. StillMapped(p) => \E l \in LRegs : arch_mapping[l] = p
  BY DEF StillMapped
<1>3. ASSUME Sizes, p # Zero, NEW l \in LRegs, arch_mapping[l] = p PROVE StillMapped(p)
  BY <1>3 DEF Sizes, StillMapped
<1> QED
  BY <1>1, <1>2, <1>3

\* What stood in prev_saved and is mapped no more is in dealloc now, once.
LEMMA LeavingMoves ==
  ASSUME Sizes, NEW n, CommitCycle(n)
  PROVE  /\ Leaving' = Pending
         /\ \A a, b \in CommitPorts : dealloc'[a] = dealloc'[b] /\ dealloc'[a] # Zero => a = b
         /\ dealloc' = [a \in CommitPorts |-> dealloc'[a]]
<1>1. dealloc' = [a \in CommitPorts |-> IF Releases(a) THEN prev_saved[a] ELSE Zero]
  BY DEF CommitCycle
<1>2. DOMAIN prev_saved = CommitPorts /\ DOMAIN dealloc' = CommitPorts
  BY <1>1 DEF Sizes
<1>3. Leaving' = {dealloc'[a] : a \in CommitPorts} \ {Zero}
  BY <1>2 DEF Leaving, SeqRange
<1>4. Pending = {prev_saved[a] : a \in CommitPorts} \ (Mapped \union {Zero})
  BY <1>2 DEF Pending, SeqRange
<1>5. ASSUME NEW a \in CommitPorts, dealloc'[a] # Zero
      PROVE  /\ dealloc'[a] = prev_saved[a] /\ prev_saved[a] \in Pending
             /\ \A k \in 1 .. a - 1 : prev_saved[k] # prev_saved[a]
  <2>1. Releases(a) /\ dealloc'[a] = prev_saved[a]
    BY <1>1, <1>5
  <2>2. prev_saved[a] # Zero /\ prev_saved[a] \notin Mapped
    BY <2>1, MappedFacts DEF Releases
  <2>3. \A k \in 1 .. a - 1 : prev_saved[k] # prev_saved[a]
    BY <2>1 DEF Releases, ListedBefore
  <2> QED
    BY <1>4, <2>1, <2>2, <2>3
<1>6. ASSUME NEW p \in Pending PROVE p \in Leaving'
  <2> DEFINE T == {a \in CommitPorts : prev_saved[a] = p}
  <2>1. T \in SUBSET Nat /\ T # {} /\ p # Zero /\ p \notin Mapped
    BY <1>4 DEF CommitPorts
  <2>2. PICK a \in T : \A k \in T : a <= k
    <3> HIDE DEF T
    <3> QED
      BY <2>1, LeastElement
  <2>3. a \in CommitPorts /\ prev_saved[a] = p
    OBVIOUS
  <2>4. ASSUME NEW k \in 1 .. a - 1 PROVE prev_saved[k] # prev_saved[a]
    <3>1. k \in CommitPorts /\ ~(a <= k)
      BY <2>3, WidthFacts DEF CommitPorts
    <3> QED
      BY <2>2, <2>3, <3>1
  <2>5. Releases(a)
    <3>1. ~StillMapped(p)
      BY <2>1, MappedFacts
    <3> QED
      BY <2>1, <2>3, <2>4, <3>1 DEF Releases, ListedBefore
  <2> QED
    BY <1>1, <1>3, <2>1, <2>3, <2>5
<1>7. Leaving' = Pending
  BY <1>3, <1>5, <1>6
<1>8. ASSUME NEW a \in CommitPorts, NEW b \in CommitPorts, dealloc'[a] = dealloc'[b], dealloc'[a] # Zero
      PROVE  a = b
  <2>1. prev_saved[a] = prev_saved[b]
    BY <1>5, <1>8
  <2>2. ~(a < b) /\ ~(b < a)
    <3>1. a < b => a \in 1 .. b - 1
      BY WidthFacts DEF CommitPorts
    <3>2. b < a => b \in 1 .. a - 1
      BY WidthFacts DEF CommitPorts
    <3> QED
      BY <1>5, <1>8, <2>1, <3>1, <3>2
  <2> QED
    BY <2>2, WidthFacts DEF CommitPorts
<1> QED
  BY <1>1, <1>7, <1>8

\* The instruction of a list that next writes l after place k: there is none
\* between.
LEMMA NextWriter ==
  ASSUME NEW s, NEW l, NEW k \in Nat, NEW m \in Nat, DOMAIN s = 1 .. m,
         NEW j \in Writers(s, l), k < j
  PROVE  \E i \in Writers(s, l) : k < i /\ \A h \in Writers(s, l) : k < h => i <= h
<1> DEFINE T == {i \in Writers(s, l) : k < i}
<1>1. T \in SUBSET Nat /\ T # {}
  BY DEF Writers
<1>2. PICK i \in T : \A h \in T : i <= h
  <2> HIDE DEF T
  <2> QED
    BY <1>1, LeastElement
<1> QED
  BY <1>2

\* No register is lost by a commit, and none comes from nowhere: what is mapped
\* or displaced after it was mapped before, or is a register of what commits.
LEMMA MapMoves ==
  ASSUME RegInv, NEW n, NEW d, Front(n, d), CommitCycle(n)
  PROVE  Mapped' \union Pending' = Mapped \union TakenBy(d)
<1>1. /\ IsList(d) /\ Len(d) = n /\ n \in Nat /\ n <= COMMIT_WIDTH /\ DOMAIN d = 1 .. n
  BY FrontFacts DEF RegInv
<1>2. \A k \in 1 .. n : d[k].prd \in {Zero} \union Mapped \union TakenBy(d) /\ d[k].rd \in LRegs
  BY FrontRegs
<1>3. COMMIT_WIDTH \in Nat
  BY WidthFacts
<1>4. /\ arch_mapping' = Written(arch_mapping, d)
      /\ prev_saved' = [c \in CommitPorts |-> IF c <= n THEN Displaced(d, c) ELSE Zero]
  BY DEF CommitCycle, Front
<1>5. ASSUME NEW l \in LRegs
      PROVE  arch_mapping'[l] = IF Writers(d, l) = {} THEN arch_mapping[l] ELSE d[Max(Writers(d, l))].prd
  BY <1>4 DEF Written, Writers
<1>6. /\ Mapped' = {arch_mapping'[l] : l \in LRegs} \ {Zero}
      /\ Pending' = {prev_saved'[c] : c \in CommitPorts} \ (Mapped' \union {Zero})
  <2>1. DOMAIN prev_saved' = CommitPorts
    BY <1>4
  <2> QED
    BY <2>1 DEF Mapped, Pending, SeqRange
<1>7. ASSUME NEW l \in LRegs PROVE arch_mapping'[l] \in {Zero} \union Mapped \union TakenBy(d)
  <2>1. CASE Writers(d, l) = {}
    BY <1>5, <2>1 DEF Mapped
  <2>2. CASE Writers(d, l) # {}
    <3>1. Writers(d, l) \in SUBSET (1 .. n)
      BY <1>1 DEF Writers
    <3>2. Max(Writers(d, l)) \in 1 .. n
      BY <1>1, <2>2, <3>1, MaxFacts
    <3> QED
      BY <1>2, <1>5, <2>2, <3>2
  <2> QED
    BY <2>1, <2>2
<1>8. ASSUME NEW c \in CommitPorts PROVE prev_saved'[c] \in {Zero} \union Mapped \union TakenBy(d)
  <2>1. CASE ~(c <= n)
    BY <1>4, <2>1
  <2>2. CASE c <= n
    <3> DEFINE same == {k \in 1 .. c - 1 : d[k].rd = d[c].rd}
    <3>1. c \in 1 .. n /\ c - 1 \in Nat /\ \A k \in 1 .. c - 1 : k \in 1 .. n
      BY <1>1, <1>3, <2>2 DEF CommitPorts
    <3>2. prev_saved'[c] = IF same # {} THEN d[Max(same)].prd
                           ELSE IF HasRd(d[c]) THEN arch_mapping[d[c].rd] ELSE Zero
      BY <1>4, <2>2 DEF Displaced
    <3>3. CASE same # {}
      <4>1. Max(same) \in 1 .. n
        <5>1. same \in SUBSET (1 .. c - 1)
          OBVIOUS
        <5> HIDE DEF same
        <5>2. Max(same) \in same
          BY <3>1, <3>3, <5>1, MaxFacts
        <5> QED
          BY <3>1, <5>1, <5>2
      <4> HIDE DEF same
      <4> QED
        BY <1>2, <3>2, <3>3, <4>1
    <3>4. CASE same = {}
      <4>1. d[c].rd \in LRegs
        BY <1>2, <3>1
      <4> HIDE DEF same
      <4> QED
        BY <3>2, <3>4, <4>1 DEF Mapped
    <3> QED
      BY <3>3, <3>4
  <2> QED
    BY <2>1, <2>2
<1>9. ASSUME NEW l \in LRegs, NEW i \in Writers(d, l), NEW k \in 0 .. i - 1,
             \A h \in Writers(d, l) : k < h => i <= h, k = 0 \/ k \in Writers(d, l)
      PROVE  i \in CommitPorts /\ prev_saved'[i] = IF k = 0 THEN arch_mapping[l] ELSE d[k].prd
  <2> DEFINE same == {j \in 1 .. i - 1 : d[j].rd = d[i].rd}
  <2>1. i \in 1 .. n /\ d[i].rd = l /\ l # 0 /\ HasRd(d[i])
    BY <1>1 DEF Writers, HasRd
  <2>2. i \in CommitPorts /\ i <= n
    BY <1>1, <1>3, <2>1 DEF CommitPorts
  <2>3. prev_saved'[i] = IF same # {} THEN d[Max(same)].prd ELSE arch_mapping[l]
    BY <1>4, <2>1, <2>2 DEF Displaced
  <2>4. ASSUME NEW j \in 1 .. i - 1 PROVE j \in same <=> j \in Writers(d, l)
    BY <1>1, <2>1 DEF Writers, HasRd
  <2>5. ASSUME NEW j \in 1 .. i - 1, j \in Writers(d, l) PROVE j <= k
    <3>1. ~(i <= j)
      BY <2>1
    <3>2. ~(k < j)
      BY <1>9, <2>5, <3>1
    <3> QED
      BY <2>1, <3>2
  <2>6. CASE k = 0
    <3>1. same = {}
      <4>1. ASSUME NEW j \in same PROVE FALSE
        <5>1. j \in 1 .. i - 1
          OBVIOUS
        <5>2. j <= k
          BY <2>4, <2>5, <5>1
        <5> QED
          BY <2>6, <5>1, <5>2
      <4> QED
        BY <4>1
    <3> QED
      BY <2>2, <2>3, <2>6, <3>1
  <2>7. CASE k # 0
    <3>1. k \in 1 .. i - 1 /\ k \in same
      <4>1. k \in 1 .. i - 1
        BY <2>1, <2>7
      <4> QED
        BY <1>9, <2>4, <2>7, <4>1
    <3>2. same \in SUBSET Int /\ \A y \in same : y <= k
      <4>1. \A y \in same : y \in 1 .. i - 1
        OBVIOUS
      <4> QED
        BY <2>4, <2>5, <4>1
    <3>3. Max(same) = k
      <4> HIDE DEF same
      <4> QED
        BY <3>1, <3>2, MaxUnique
    <3> QED
      BY <2>2, <2>3, <2>7, <3>1, <3>3
  <2> QED
    BY <2>6, <2>7
<1>10. ASSUME NEW x \in Mapped PROVE x \in Mapped' \union Pending'
  <2>1. PICK l \in LRegs : arch_mapping[l] = x
    BY DEF Mapped
  <2>2. x # Zero
    BY DEF Mapped
  <2>3. CASE Writers(d, l) = {}
    BY <1>5, <1>6, <2>1, <2>2, <2>3
  <2>4. CASE Writers(d, l) # {}
    <3>1. PICK j \in Writers(d, l) : TRUE
      BY <2>4
    <3>2. j \in 1 .. n /\ 0 < j
      BY <1>1 DEF Writers
    <3>3. PICK i \in Writers(d, l) : 0 < i /\ \A h \in Writers(d, l) : 0 < h => i <= h
      BY <1>1, <3>2, NextWriter
    <3>4. 0 \in 0 .. i - 1
      BY <1>1, <3>3 DEF Writers
    <3>5. i \in CommitPorts /\ prev_saved'[i] = arch_mapping[l]
      BY <1>9, <3>3, <3>4
    <3> QED
      BY <1>6, <2>1, <2>2, <3>5
  <2> QED
    BY <2>3, <2>4
<1>11. ASSUME NEW x \in TakenBy(d) PROVE x \in Mapped' \union Pending'
  <2>1. PICK k \in Allocs(d) : x = d[k].prd
    BY DEF TakenBy
  <2>2. x # Zero
    <3>1. TakenBy(d) \subseteq RingRegs
      <4>1. /\ TakenBy(d) = {Ring!RegAt(i) : i \in 0 .. NumAlloc(d) - 1}
            /\ NumAlloc(d) \in Nat /\ NumAlloc(d) <= arch_count /\ arch_count \in Nat
        BY FrontTaken, RingFacts DEF RegInv
      <4>2. RingRegs = {Ring!RegAt(i) : i \in 0 .. arch_count - 1}
        BY RingRegsAre DEF RegInv
      <4>3. \A i \in 0 .. NumAlloc(d) - 1 : i \in 0 .. arch_count - 1
        BY <4>1
      <4> QED
        BY <4>1, <4>2, <4>3
    <3>2. RingRegs \subseteq PhysRegs
      BY DEF RegInv, RegistersConserved
    <3> QED
      BY <3>1, <3>2, ZeroAssumption
  <2> DEFINE l == d[k].rd
  <2>3. k \in 1 .. n /\ HasRd(d[k]) /\ l \in LRegs /\ k \in Writers(d, l)
    BY <1>1, <1>2 DEF Allocs, Allocates, Writers
  <2> HIDE DEF l
  <2>4. CASE \A h \in Writers(d, l) : h <= k
    <3>1. Writers(d, l) \in SUBSET Int
      BY <1>1 DEF Writers
    <3>2. Max(Writers(d, l)) = k
      BY <2>3, <2>4, <3>1, MaxUnique
    <3>3. arch_mapping'[l] = x
      BY <1>5, <2>1, <2>3, <3>2
    <3> QED
      BY <1>6, <2>2, <2>3, <3>3
  <2>5. CASE ~ \A h \in Writers(d, l) : h <= k
    <3>1. PICK j \in Writers(d, l) : ~(j <= k)
      BY <2>5
    <3>2. k \in Nat /\ k < j
      BY <1>1, <2>3, <3>1 DEF Writers
    <3>3. PICK i \in Writers(d, l) : k < i /\ \A h \in Writers(d, l) : k < h => i <= h
      BY <1>1, <3>2, NextWriter
    <3>4. k \in 0 .. i - 1 /\ k # 0
      BY <1>1, <2>3, <3>3 DEF Writers
    <3>5. i \in CommitPorts /\ prev_saved'[i] = d[k].prd
      BY <1>9, <2>3, <3>3, <3>4
    <3> QED
      BY <1>6, <2>1, <2>2, <3>5
  <2> QED
    BY <2>4, <2>5
<1>12. ASSUME NEW x \in Mapped' \union Pending' PROVE x \in Mapped \union TakenBy(d)
  BY <1>6, <1>7, <1>8
<1> QED
  BY <1>10, <1>11, <1>12

-----------------------------------------------------------------------------
(* The invariant is one. *)

\* conservation, in its parts
Apart ==
  /\ Ring!NoDuplicate
  /\ \A c, d \in CommitPorts : dealloc[c] = dealloc[d] /\ dealloc[c] # Zero => c = d
  /\ RingRegs \cap Mapped = {} /\ RingRegs \cap Pending = {} /\ RingRegs \cap Leaving = {}
  /\ Mapped \cap Pending = {} /\ Mapped \cap Leaving = {} /\ Pending \cap Leaving = {}
  /\ RingRegs \union Mapped \union Pending \union Leaving = PhysRegs

\* That is what conservation says.
LEMMA ConservedParts == RegistersConserved <=> Apart
<1> DEFINE X == {<<1, RingRegs>>, <<2, Mapped>>, <<3, Pending>>, <<4, Leaving>>}
<1>1. (\A S, T \in X : S # T => S[2] \cap T[2] = {})
        <=> /\ RingRegs \cap Mapped = {} /\ RingRegs \cap Pending = {} /\ RingRegs \cap Leaving = {}
            /\ Mapped \cap Pending = {} /\ Mapped \cap Leaving = {} /\ Pending \cap Leaving = {}
  OBVIOUS
<1> QED
  BY <1>1, SameFreeList DEF RegistersConserved, Apart

\* A cycle moves what commits out of the ring, what is displaced to the return
\* path, and what was on it a step further.
LEMMA StepConserves ==
  ASSUME RegInv, NEW n, NEW d, Front(n, d), CommitCycle(n), NEW alloc, NEW resteer,
         Ring!Input(alloc, Freed, NumAlloc(d), resteer)
  PROVE  RegistersConserved'
<1>1. Ring!Inv'
  BY RingNext DEF RegInv
<1>2. RingRegs' = (RingRegs \ TakenBy(d)) \union Leaving /\ TakenBy(d) \subseteq RingRegs
  BY RingMoves
<1>3. /\ Leaving' = Pending
      /\ \A a, b \in CommitPorts : dealloc'[a] = dealloc'[b] /\ dealloc'[a] # Zero => a = b
  BY LeavingMoves DEF RegInv
<1>4. Mapped' \union Pending' = Mapped \union TakenBy(d)
  BY MapMoves
<1>5. Mapped' \cap Pending' = {}
  BY DEF Pending
<1>6. /\ RingRegs \cap Mapped = {} /\ RingRegs \cap Pending = {} /\ RingRegs \cap Leaving = {}
      /\ Mapped \cap Pending = {} /\ Mapped \cap Leaving = {} /\ Pending \cap Leaving = {}
      /\ RingRegs \union Mapped \union Pending \union Leaving = PhysRegs
  BY ConservedParts DEF RegInv, Apart
<1> DEFINE A == TakenBy(d)
<1> HIDE DEF A
<1>7. /\ RingRegs' = (RingRegs \ A) \union Leaving /\ A \subseteq RingRegs
      /\ Mapped' \union Pending' = Mapped \union A
  BY <1>2, <1>4 DEF A
<1>8. RingRegs' \union Mapped' \union Pending' \union Leaving' = PhysRegs
  <2>1. RingRegs' \union Mapped' \union Pending' \union Leaving'
          = ((RingRegs \ A) \union Leaving) \union (Mapped \union A) \union Pending
    BY <1>3, <1>7
  <2> QED
    BY <1>6, <1>7, <2>1
<1>9. RingRegs' \cap (Mapped' \union Pending') = {} /\ RingRegs' \cap Leaving' = {}
  BY <1>3, <1>6, <1>7
<1>10. (Mapped' \union Pending') \cap Leaving' = {}
  BY <1>3, <1>6, <1>7
<1>11. (Ring!NoDuplicate)'
  BY <1>1 DEF Ring!Inv
<1>12. /\ RingRegs' \cap Mapped' = {} /\ RingRegs' \cap Pending' = {}
       /\ Mapped' \cap Leaving' = {} /\ Pending' \cap Leaving' = {}
  BY <1>9, <1>10
<1>13. Apart'
  BY <1>3, <1>5, <1>8, <1>9, <1>11, <1>12 DEF Apart
<1>14. (RegistersConserved <=> Apart)'
  BY ConservedParts, PTL
<1> QED
  BY <1>13, <1>14

\* The maps and the return path keep their shape.
LEMMA StepSizes ==
  ASSUME RegInv, NEW n, NEW d, Front(n, d), CommitCycle(n),
         Len(rob') <= ROB_SIZE, Len(renamed') <= RENAME_WIDTH
  PROVE  Sizes'
<1>1. arch_mapping'[0] = Zero
  <2>1. arch_mapping' = Written(arch_mapping, d)
    BY DEF CommitCycle, Front
  <2>2. 0 \in LRegs /\ Writers(d, 0) = {}
    BY SizesAssumption DEF LRegs, Writers, HasRd
  <2>3. arch_mapping'[0] = arch_mapping[0]
    BY <2>1, <2>2 DEF Written, Writers
  <2> QED
    BY <2>3 DEF RegInv, Sizes
<1>2. prev_saved' = [c \in CommitPorts |-> prev_saved'[c]]
  BY DEF CommitCycle
<1>3. dealloc' = [c \in CommitPorts |-> dealloc'[c]]
  BY DEF CommitCycle
<1> QED
  BY <1>1, <1>2, <1>3 DEF Sizes

\* A cycle without a squash.
LEMMA MoveKeeps ==
  ASSUME RegInv, Inv', NEW n, NEW d, NEW r, NEW q, NEW alloc, Moves(n, d, r, q, alloc)
  PROVE  RegInv'
<1>1. Front(n, d) /\ CommitCycle(n) /\ Len(rob') <= ROB_SIZE /\ Len(renamed') <= RENAME_WIDTH
  BY DEF Front, Moves
<1>2. Ring!Input(alloc, Freed, NumAlloc(d), FALSE)
  BY MoveInput
<1>3. Ring!Inv' /\ FlightInv'
  BY MoveFlight
<1>4. RegistersConserved'
  BY <1>1, <1>2, StepConserves
<1>5. Sizes'
  BY <1>1, StepSizes
<1> QED
  BY <1>3, <1>4, <1>5 DEF RegInv

\* A squash: nothing commits, and what is in flight is forgotten.
LEMMA SquashKeeps ==
  ASSUME RegInv, Inv', Squash
  PROVE  RegInv'
<1> DEFINE d == SubSeq(rob, 1, 0)
<1>1. Inv /\ Ring!Inv /\ Sizes /\ RegistersConserved /\ FlightInv
  BY DEF RegInv
<1>2. Front(0, d)
  <2>1. Len(rob) \in Nat /\ COMMIT_WIDTH \in Nat
    BY <1>1, FlightFacts, WidthFacts
  <2> QED
    BY <2>1 DEF Front, Commits
<1>3. NumAlloc(d) = 0
  <2>1. IsList(d) /\ Len(d) = 0
    BY <1>1, <1>2, FrontFacts
  <2> HIDE DEF d
  <2> QED
    BY <2>1, FewAllocs
<1>4. Ring!Input(0, Freed, NumAlloc(d), TRUE)
  <2>1. Ring!Cycle(0, Freed, 0, TRUE)
    BY SameFreeList DEF Squash
  <2>2. Freed \in Ring!Returns
    BY <1>1, FreedFacts
  <2>3. 0 \in 0 .. RENAME_WIDTH /\ 0 \in 0 .. COMMIT_WIDTH
    BY WidthFacts
  <2>4. 0 <= arch_count - count
    BY <1>1, RingFacts
  <2> HIDE DEF d
  <2> QED
    BY <1>3, <2>1, <2>2, <2>3, <2>4 DEF Ring!Input
<1>5. CommitCycle(0) /\ rob' = << >> /\ renamed' = << >>
  BY DEF Squash
<1> HIDE DEF d
<1>6. /\ Ring!Inv' /\ arch_count' = arch_count - NumAlloc(d) + Len(Freed)
      /\ count' = arch_count + Len(Freed) /\ Len(Freed) \in Nat
  BY <1>1, <1>4, RingNext
<1>7. InFlight' = << >>
  BY <1>5, EmptyList, ConcatEmptySeq DEF InFlight, IsList
<1>8. FlightInv'
  <2>1. NumAlloc(<< >>) = 0 /\ DOMAIN << >> = {}
    BY EmptyList, FS_EmptySet DEF NumAlloc
  <2>2. arch_count' - count' = 0
    <3>1. arch_count \in Nat
      BY <1>1, RingFacts
    <3> QED
      BY <1>3, <1>6, <3>1
  <2>3. arch_count' - count' = NumAlloc(InFlight')
    BY <1>7, <2>1, <2>2
  <2>4. AsRenamed(InFlight)'
    BY <1>7, <2>1 DEF AsRenamed
  <2> QED
    BY <2>3, <2>4 DEF FlightInv
<1>9. Sizes'
  <2>1. Len(rob') <= ROB_SIZE /\ Len(renamed') <= RENAME_WIDTH
    BY <1>5, EmptyList, WidthFacts, SizesAssumption
  <2> QED
    BY <1>2, <1>5, <2>1, StepSizes
<1>10. RegistersConserved'
  BY <1>2, <1>4, <1>5, StepConserves
<1> QED
  BY <1>6, <1>8, <1>9, <1>10 DEF RegInv

\* A step of nothing.
LEMMA StutterKeeps ==
  ASSUME RegInv, UNCHANGED vars
  PROVE  RegInv'
<1>1. /\ UNCHANGED <<buffer, enq_ptr, deq_ptr, arch_deq_ptr, count, arch_count>>
      /\ UNCHANGED <<spec_mapping, arch_mapping, prev_saved, dealloc, renamed, rob>>
  BY DEF vars, flVars
<1>2. Ring!Inv'
  BY <1>1 DEF RegInv, Ring!Inv, Ring!TypeOK, Ring!PointersAgree, Ring!NoDuplicate
<1>3. InFlight' = InFlight
  BY <1>1 DEF InFlight
<1>4. Inv'
  BY <1>1, <1>3 DEF RegInv, Inv, SpecIsReplay
<1>5. FlightInv'
  BY <1>1, <1>3 DEF RegInv, FlightInv, AsRenamed, Ring!RegAt
<1>6. Sizes'
  BY <1>1 DEF RegInv, Sizes
<1>7. RegistersConserved'
  <2>1. /\ RingRegs' = RingRegs /\ Mapped' = Mapped /\ Pending' = Pending /\ Leaving' = Leaving
    BY <1>1 DEF RingRegs, FL!Taken, FL!Free, Mapped, Pending, Leaving
  <2>2. (Ring!NoDuplicate)'
    BY <1>2 DEF Ring!Inv
  <2>3. Apart'
    BY <1>1, <2>1, <2>2, ConservedParts DEF RegInv, Apart
  <2>4. (RegistersConserved <=> Apart)'
    BY ConservedParts, PTL
  <2> QED
    BY <2>3, <2>4
<1> QED
  BY <1>2, <1>4, <1>5, <1>6, <1>7 DEF RegInv

\* Reset.
LEMMA RegInit ==
  ASSUME Init
  PROVE  RegInv
<1>1. Inv
  BY ReplayInit
<1>2. Ring!Init
  BY SameFreeList DEF Init
<1>3. Ring!Inv
  BY <1>2, RingAssumptions, Ring!RingInit
<1>4. rob = << >> /\ renamed = << >>
  BY DEF Init
<1>5. InFlight = << >>
  BY <1>4, EmptyList, ConcatEmptySeq DEF InFlight, IsList
<1>6. FlightInv
  <2>1. NumAlloc(<< >>) = 0 /\ DOMAIN << >> = {}
    BY EmptyList, FS_EmptySet DEF NumAlloc
  <2>2. arch_count - count = 0
    BY <1>2, <1>3, RingFacts DEF Ring!Init
  <2> QED
    BY <1>5, <2>1, <2>2 DEF FlightInv, AsRenamed
<1>7. Sizes
  <2>1. 0 \in LRegs
    BY SizesAssumption DEF LRegs
  <2> QED
    BY <1>4, <2>1, EmptyList, WidthFacts, SizesAssumption DEF Init, Sizes
<1>8. RegistersConserved
  <2>1. DOMAIN prev_saved = CommitPorts /\ DOMAIN dealloc = CommitPorts
    BY DEF Init
  <2>2. Mapped = {} /\ Pending = {} /\ Leaving = {}
    BY <2>1 DEF Init, Mapped, Pending, Leaving, SeqRange
  <2>3. RingRegs = PhysRegs
    <3>1. Ring!Abs!SeqRange(Ring!Free) = PhysRegs
      BY <1>2, RingAssumptions, Ring!InitRefines DEF Ring!Abs!Init
    <3>2. PhysRegs \subseteq RingRegs
      BY <3>1, SameFreeList DEF RingRegs, Ring!Abs!SeqRange
    <3>3. RingRegs \subseteq PhysRegs
      BY <1>3, RingRegsAre, RingFacts
    <3> QED
      BY <3>2, <3>3
  <2>4. Ring!NoDuplicate
    BY <1>3 DEF Ring!Inv
  <2>5. \A c, e \in CommitPorts : dealloc[c] = dealloc[e] /\ dealloc[c] # Zero => c = e
    BY DEF Init
  <2> QED
    BY <2>2, <2>3, <2>4, <2>5, ConservedParts DEF Apart
<1> QED
  BY <1>1, <1>3, <1>6, <1>7, <1>8 DEF RegInv

\* Every step keeps it.
LEMMA RegStep ==
  ASSUME RegInv, [Next]_vars
  PROVE  RegInv'
<1>1. Inv /\ Sizes
  BY DEF RegInv
<1>2. Inv'
  BY <1>1, ReplayStep
<1>3. CASE Next
  <2>1. CASE Squash
    BY <1>2, <2>1, SquashKeeps
  <2>2. CASE ~Squash
    <3>1. PICK n, d, r, q, alloc : Moves(n, d, r, q, alloc)
      BY <1>1, <1>3, <2>2, NextMoves
    <3> QED
      BY <1>2, <3>1, MoveKeeps
  <2> QED
    BY <2>1, <2>2
<1>4. CASE UNCHANGED vars
  BY <1>4, StutterKeeps
<1> QED
  BY <1>3, <1>4

\* The invariant holds.
LEMMA RegInvariance == Spec => []RegInv
<1>1. Init => RegInv
  BY RegInit
<1>2. RegInv /\ [Next]_vars => RegInv'
  BY RegStep
<1> QED
  BY <1>1, <1>2, PTL DEF Spec

-----------------------------------------------------------------------------
(* What follows. *)

\* No register of the code's is lost and none is freed twice, whatever the
\* sizes: through eliminated moves, several writers of one register in one
\* group, and the two cycles of the return path, each is in exactly one place.
THEOREM Conservation == Spec => []RegistersConserved
<1>1. RegInv => RegistersConserved
  BY DEF RegInv
<1> QED
  BY <1>1, RegInvariance, PTL

\* The registers of older instructions are in the ring, out.
LEMMA OutFacts ==
  ASSUME RegInv
  PROVE  /\ \A k \in Allocs(InFlight) : InFlight[k].prd \in RingRegs /\ InFlight[k].prd \notin SeqRange(FL!Free)
         /\ SeqRange(FL!Free) \subseteq RingRegs
<1>1. Inv /\ Ring!Inv /\ FlightInv
  BY DEF RegInv
<1>2. /\ count \in Nat /\ arch_count \in Nat /\ count <= arch_count
      /\ \A i, j \in 0 .. arch_count - 1 : Ring!RegAt(i) = Ring!RegAt(j) => i = j
  BY <1>1, RingFacts
<1>3. /\ DOMAIN Ring!Free = 1 .. count
      /\ \A i \in 1 .. count : Ring!Free[i] = Ring!RegAt((arch_count - count) + (i - 1))
  BY <1>1, Ring!Queues, RingAssumptions
<1>4. SeqRange(FL!Free) = {Ring!Free[i] : i \in 1 .. count}
  BY <1>3, SameFreeList DEF SeqRange
<1>5. RingRegs = {Ring!RegAt(i) : i \in 0 .. arch_count - 1}
  BY <1>1, RingRegsAre
<1>6. ASSUME NEW k \in Allocs(InFlight)
      PROVE  InFlight[k].prd \in RingRegs /\ InFlight[k].prd \notin SeqRange(FL!Free)
  <2>1. PICK m \in 1 .. arch_count - count : InFlight[k].prd = Ring!RegAt(m - 1)
    BY <1>1, TakenFacts
  <2>2. m - 1 \in 0 .. arch_count - 1
    BY <1>2
  <2>3. ASSUME NEW i \in 1 .. count PROVE Ring!Free[i] # Ring!RegAt(m - 1)
    <3>1. (arch_count - count) + (i - 1) \in 0 .. arch_count - 1 /\ (arch_count - count) + (i - 1) # m - 1
      BY <1>2
    <3> QED
      BY <1>2, <1>3, <2>2, <3>1
  <2> QED
    BY <1>4, <1>5, <2>1, <2>2, <2>3
<1>7. ASSUME NEW i \in 1 .. count PROVE Ring!Free[i] \in RingRegs
  <2>1. (arch_count - count) + (i - 1) \in 0 .. arch_count - 1
    BY <1>2
  <2> QED
    BY <1>3, <1>5, <2>1
<1> QED
  BY <1>4, <1>6, <1>7

\* A register that an instruction in flight has to read is not handed out to
\* another before it has read it: the map that renaming reads its source from
\* (rat_map.sv) never shows a register on its way back, and an eliminated
\* move's neither.
THEOREM SourceSafety == Spec => []SourcesStayLive
<1>1. ASSUME RegInv PROVE SourcesStayLive
  <2> DEFINE F == InFlight
             A == Allocs(InFlight)
  <2>1. Inv /\ Ring!Inv /\ FlightInv /\ AsRenamed(InFlight)
    BY <1>1 DEF RegInv, FlightInv
  <2>2. DOMAIN F = 1 .. Len(F) /\ A \in SUBSET (1 .. Len(F)) /\ Len(F) \in Nat
    BY <2>1, FlightFacts
  <2>3. /\ RingRegs \cap Mapped = {} /\ RingRegs \cap Pending = {} /\ RingRegs \cap Leaving = {}
        /\ Mapped \cap Pending = {} /\ Mapped \cap Leaving = {}
        /\ RingRegs \union Mapped \union Pending \union Leaving = PhysRegs
    BY <1>1, ConservedParts DEF RegInv, Apart
  <2>4. Zero \notin RingRegs /\ Zero \notin Pending /\ Zero \notin Leaving
    BY <2>3, ZeroAssumption
  <2>5. /\ \A k \in A : F[k].prd \in RingRegs /\ F[k].prd \notin SeqRange(FL!Free)
        /\ SeqRange(FL!Free) \subseteq RingRegs
    BY <1>1, OutFacts
  <2>6. \A k, l \in A : F[k].prd = F[l].prd => k = l
    BY <2>1, TakenFacts
  <2>7. \A i \in DOMAIN F : F[i].prs \in {Zero} \union Mapped \union TakenBefore(F, i)
    BY <2>1, Origin
  <2>8. A = {k \in DOMAIN F : Allocates(F[k])}
    BY DEF Allocs
  <2>9. SUFFICES ASSUME NEW i \in DOMAIN F
                 PROVE  /\ F[i].prs \notin SeqRange(FL!Free) \union Pending \union Leaving
                        /\ \A k \in i .. Len(F) :
                             Allocates(F[k]) /\ F[i].prs # Zero => F[k].prd # F[i].prs
    BY DEF SourcesStayLive
  <2> HIDE DEF F, A
  <2>10. CASE F[i].prs \in {Zero} \union Mapped
    <3>1. F[i].prs \notin SeqRange(FL!Free) \union Pending \union Leaving
      BY <2>3, <2>4, <2>5, <2>10
    <3>2. ASSUME NEW k \in i .. Len(F), Allocates(F[k]), F[i].prs # Zero PROVE F[k].prd # F[i].prs
      <4>1. k \in DOMAIN F
        BY <2>2
      <4>2. F[k].prd \in RingRegs
        BY <2>5, <2>8, <3>2, <4>1
      <4> QED
        BY <2>3, <2>10, <3>2, <4>2
    <3> QED
      BY <3>1, <3>2
  <2>11. CASE F[i].prs \in TakenBefore(F, i)
    <3>1. PICK j \in A : j < i /\ F[i].prs = F[j].prd
      BY <2>11 DEF TakenBefore, A, F
    <3>2. F[i].prs \notin SeqRange(FL!Free) \union Pending \union Leaving
      BY <2>3, <2>5, <3>1
    <3>3. ASSUME NEW k \in i .. Len(F), Allocates(F[k]) PROVE F[k].prd # F[i].prs
      <4>1. k \in DOMAIN F /\ k # j
        BY <2>2, <3>1
      <4>2. k \in A
        BY <2>8, <3>3, <4>1
      <4> QED
        BY <2>6, <3>1, <4>1, <4>2
    <3> QED
      BY <3>2, <3>3
  <2> QED
    BY <2>7, <2>10, <2>11
<1> QED
  BY <1>1, RegInvariance, PTL

\* A squash can undo what renaming has done: the map that is copied back and the
\* registers behind arch_deq_ptr remember all instructions in flight, in order.
THEOREM SquashSafety == Spec => []SquashRestores
<1>1. ASSUME RegInv PROVE SquashRestores
  <2> DEFINE A == Allocs(InFlight)
  <2>1. Inv /\ Ring!Inv /\ FlightInv /\ SpecIsReplay
    BY <1>1 DEF RegInv, Inv
  <2>2. /\ DOMAIN Ring!Taken = 1 .. arch_count - count
        /\ \A i \in 1 .. arch_count - count : Ring!Taken[i] = Ring!RegAt(i - 1)
    BY <2>1, Ring!Queues, RingAssumptions
  <2>3. count \in Nat /\ arch_count \in Nat /\ count <= arch_count
    BY <2>1, RingFacts
  <2>4. Len(Ring!Taken) = NumAlloc(InFlight)
    <3>1. Ring!Taken = [i \in 1 .. arch_count - count |-> Ring!Taken[i]]
      BY <2>2 DEF Ring!Taken
    <3>2. IsList(Ring!Taken)
      BY <2>3, <3>1, ListDef
    <3>3. Len(Ring!Taken) \in Nat /\ DOMAIN Ring!Taken = 1 .. Len(Ring!Taken)
      BY <3>2, ListDef
    <3>4. Len(Ring!Taken) = arch_count - count
      BY <2>2, <2>3, <3>3
    <3> QED
      BY <2>1, <3>4 DEF FlightInv
  <2>5. ASSUME NEW i \in DOMAIN InFlight, Allocates(InFlight[i])
        PROVE  Ring!Taken[NumAlloc(SubSeq(InFlight, 1, i))] = InFlight[i].prd
    <3>1. i \in A
      BY <2>5 DEF Allocs
    <3>2. Rank(A, i) \in 1 .. arch_count - count /\ InFlight[i].prd = Ring!RegAt(Rank(A, i) - 1)
      BY <2>1, <3>1, TakenFacts
    <3>3. NumAlloc(SubSeq(InFlight, 1, i)) = Rank(A, i)
      <4>1. IsList(InFlight) /\ i \in 0 .. Len(InFlight)
        BY <2>1, FlightFacts
      <4> QED
        BY <4>1, NumAllocUpto
    <3> HIDE DEF A
    <3> QED
      BY <2>2, <3>2, <3>3
  <2>6. TakenInOrder
    BY <2>4, <2>5, SameFreeList DEF TakenInOrder
  <2> QED
    BY <2>1, <2>6 DEF SquashRestores
<1> QED
  BY <1>1, RegInvariance, PTL

-----------------------------------------------------------------------------
(* How many registers there have to be. *)

\* n places hold at most n values.
LEMMA FewValues ==
  ASSUME NEW n \in Nat, NEW f, f = [i \in 1 .. n |-> f[i]], NEW T \in SUBSET {f[i] : i \in 1 .. n}
  PROVE  IsFiniteSet(T) /\ Cardinality(T) \in Nat /\ Cardinality(T) <= n
<1> DEFINE V == {f[i] : i \in 1 .. n}
<1>1. IsFiniteSet(1 .. n) /\ Cardinality(1 .. n) = n
  BY FS_Interval
<1>2. f \in Surjection(1 .. n, V)
  BY DEF Surjection
<1> HIDE DEF V
<1>3. IsFiniteSet(V) /\ Cardinality(V) <= n
  BY <1>1, <1>2, FS_Surjection
<1>4. IsFiniteSet(T) /\ Cardinality(T) <= Cardinality(V)
  BY <1>3, FS_Subset DEF V
<1>5. Cardinality(T) \in Nat /\ Cardinality(V) \in Nat
  BY <1>3, <1>4, FS_CardinalityType
<1> QED
  BY <1>3, <1>4, <1>5

\* Two sets have no more elements together than one by one.
LEMMA FewTogether ==
  ASSUME NEW S, NEW T, IsFiniteSet(S), IsFiniteSet(T)
  PROVE  /\ IsFiniteSet(S \union T) /\ Cardinality(S \union T) \in Nat
         /\ Cardinality(S) \in Nat /\ Cardinality(T) \in Nat
         /\ Cardinality(S \union T) <= Cardinality(S) + Cardinality(T)
<1>1. IsFiniteSet(S \union T) /\ IsFiniteSet(S \cap T)
      /\ Cardinality(S \union T) = Cardinality(S) + Cardinality(T) - Cardinality(S \cap T)
  <2>1. IsFiniteSet(S \cap T)
    BY FS_Subset
  <2> QED
    BY <2>1, FS_Union
<1>2. /\ Cardinality(S \cap T) \in Nat /\ Cardinality(S \union T) \in Nat
      /\ Cardinality(S) \in Nat /\ Cardinality(T) \in Nat
  BY <1>1, FS_CardinalityType
<1> QED
  BY <1>1, <1>2

\* What is not in the ring is mapped or on the return path, and that is little.
LEMMA Holders ==
  ASSUME RegInv
  PROVE  /\ Cardinality(PhysRegs) <= arch_count + (LREG_NUM - 1) + 2 * COMMIT_WIDTH
         /\ Pending = {} /\ Leaving = {} => Cardinality(PhysRegs) <= arch_count + (LREG_NUM - 1)
<1>1. Ring!Inv /\ Sizes
  BY DEF RegInv
<1>2. COMMIT_WIDTH \in Nat /\ arch_count \in Nat /\ LREG_NUM - 1 \in Nat /\ LREG_NUM \in Nat
  BY <1>1, RingFacts, SizesAssumption
<1>3. IsFiniteSet(RingRegs) /\ Cardinality(RingRegs) \in Nat /\ Cardinality(RingRegs) <= arch_count
  <2> DEFINE f == [i \in 1 .. arch_count |-> Ring!RegAt(i - 1)]
  <2>1. RingRegs = {Ring!RegAt(i) : i \in 0 .. arch_count - 1}
    BY <1>1, RingRegsAre
  <2>2. ASSUME NEW i \in 0 .. arch_count - 1 PROVE Ring!RegAt(i) \in {f[j] : j \in 1 .. arch_count}
    <3>1. i + 1 \in 1 .. arch_count /\ (i + 1) - 1 = i
      BY <1>2
    <3>2. f[i + 1] = Ring!RegAt(i)
      BY <3>1
    <3> QED
      BY <3>1, <3>2
  <2>3. f = [i \in 1 .. arch_count |-> f[i]]
    OBVIOUS
  <2> HIDE DEF f
  <2>4. RingRegs \in SUBSET {f[j] : j \in 1 .. arch_count}
    BY <2>1, <2>2
  <2> QED
    BY <1>2, <2>3, <2>4, FewValues
<1>4. IsFiniteSet(Mapped) /\ Cardinality(Mapped) \in Nat /\ Cardinality(Mapped) <= LREG_NUM - 1
  <2> DEFINE f == [l \in 1 .. LREG_NUM - 1 |-> arch_mapping[l]]
  <2>1. f = [l \in 1 .. LREG_NUM - 1 |-> f[l]]
    OBVIOUS
  <2>2. ASSUME NEW p \in Mapped PROVE p \in {f[l] : l \in 1 .. LREG_NUM - 1}
    <3>1. PICK l \in LRegs : arch_mapping[l] = p
      BY DEF Mapped
    <3>2. p # Zero
      BY DEF Mapped
    <3>3. l # 0
      BY <1>1, <3>1, <3>2 DEF Sizes
    <3>4. l \in 1 .. LREG_NUM - 1
      BY <1>2, <3>3 DEF LRegs
    <3> QED
      BY <3>1, <3>4
  <2> HIDE DEF f
  <2>3. Mapped \in SUBSET {f[l] : l \in 1 .. LREG_NUM - 1}
    BY <2>2
  <2> QED
    BY <1>2, <2>1, <2>3, FewValues
<1>5. /\ IsFiniteSet(Pending) /\ Cardinality(Pending) \in Nat /\ Cardinality(Pending) <= COMMIT_WIDTH
      /\ IsFiniteSet(Leaving) /\ Cardinality(Leaving) \in Nat /\ Cardinality(Leaving) <= COMMIT_WIDTH
  <2>1. /\ prev_saved = [c \in 1 .. COMMIT_WIDTH |-> prev_saved[c]]
        /\ dealloc = [c \in 1 .. COMMIT_WIDTH |-> dealloc[c]]
    BY <1>1 DEF Sizes, CommitPorts
  <2>2. /\ Pending \in SUBSET {prev_saved[c] : c \in 1 .. COMMIT_WIDTH}
        /\ Leaving \in SUBSET {dealloc[c] : c \in 1 .. COMMIT_WIDTH}
    BY <2>1 DEF Pending, Leaving, SeqRange
  <2> QED
    BY <1>2, <2>1, <2>2, FewValues
<1>6. PhysRegs = ((RingRegs \union Mapped) \union Pending) \union Leaving
  BY DEF RegInv, RegistersConserved
<1> DEFINE U == RingRegs \union Mapped
           W == U \union Pending
<1>7. /\ IsFiniteSet(U) /\ Cardinality(U) \in Nat
      /\ Cardinality(U) <= Cardinality(RingRegs) + Cardinality(Mapped)
  BY <1>3, <1>4, FewTogether
<1> HIDE DEF U
<1>8. IsFiniteSet(W) /\ Cardinality(W) \in Nat /\ Cardinality(W) <= Cardinality(U) + Cardinality(Pending)
  BY <1>5, <1>7, FewTogether
<1> HIDE DEF W
<1>9. /\ Cardinality(W \union Leaving) \in Nat
      /\ Cardinality(W \union Leaving) <= Cardinality(W) + Cardinality(Leaving)
  BY <1>5, <1>8, FewTogether
<1>10. PhysRegs = W \union Leaving
  BY <1>6 DEF U, W
<1>11. Cardinality(PhysRegs) <= arch_count + (LREG_NUM - 1) + 2 * COMMIT_WIDTH
  BY <1>2, <1>3, <1>4, <1>5, <1>7, <1>8, <1>9, <1>10
<1>12. ASSUME Pending = {}, Leaving = {} PROVE Cardinality(PhysRegs) <= arch_count + (LREG_NUM - 1)
  <2>1. PhysRegs = U
    BY <1>6, <1>12 DEF U
  <2> QED
    BY <1>2, <1>3, <1>4, <1>7, <2>1
<1> QED
  BY <1>11, <1>12

-----------------------------------------------------------------------------
(* Types. *)

\* Every register that an instruction in flight names is one.
LEMMA FlightType ==
  ASSUME RegInv, NEW i \in DOMAIN InFlight
  PROVE  InFlight[i] \in Renamings
<1>1. Inv /\ Ring!Inv /\ FlightInv /\ AsRenamed(InFlight)
  BY DEF RegInv, FlightInv
<1>2. /\ InFlight[i].prs \in {Zero} \union Mapped \union TakenBefore(InFlight, i)
      /\ InFlight[i].prd \in {Zero} \union Mapped \union TakenBefore(InFlight, i + 1)
  BY <1>1, Origin
<1>3. Mapped \subseteq PhysRegs
  BY DEF RegInv, RegistersConserved
<1>4. \A k \in Allocs(InFlight) : InFlight[k].prd \in PhysRegs
  BY <1>1, TakenFacts
<1>5. InFlight[i].prs \in PRegs /\ InFlight[i].prd \in PRegs
  BY <1>2, <1>3, <1>4 DEF TakenBefore, PRegs
<1>6. Shaped(InFlight[i])
  BY <1>1 DEF AsRenamed
<1> QED
  BY <1>5, <1>6 DEF Shaped, Renamings

\* The maps, the return path, the group and the ROB hold what they are made for.
LEMMA RegTypes ==
  ASSUME RegInv
  PROVE  TypeOK
<1>1. Inv /\ Ring!Inv /\ Sizes /\ FlightInv
  BY DEF RegInv
<1>2. /\ Mapped \subseteq PhysRegs /\ Pending \subseteq PhysRegs /\ Leaving \subseteq PhysRegs
  BY DEF RegInv, RegistersConserved
<1>3. FL!TypeOK
  BY <1>1, SameFreeList DEF Ring!Inv
<1>4. 0 \in LRegs
  BY SizesAssumption DEF LRegs
<1>5. arch_mapping \in [LRegs -> PRegs] /\ arch_mapping[0] = Zero
  <2>1. arch_mapping = [l \in LRegs |-> arch_mapping[l]]
    BY <1>1 DEF Inv, IsMap
  <2>2. \A l \in LRegs : arch_mapping[l] \in PRegs
    BY <1>2 DEF Mapped, PRegs
  <2> QED
    BY <1>1, <2>1, <2>2 DEF Sizes
<1>6. \A i \in DOMAIN InFlight : InFlight[i] \in Renamings
  BY FlightType
<1>7. DOMAIN InFlight = 1 .. Len(InFlight) /\ Len(InFlight) \in Nat
  BY <1>1, FlightFacts
<1>8. spec_mapping \in [LRegs -> PRegs] /\ spec_mapping[0] = Zero
  <2>1. spec_mapping = Written(arch_mapping, InFlight)
    BY <1>1 DEF Inv, SpecIsReplay
  <2>2. /\ spec_mapping = [l \in LRegs |-> spec_mapping[l]]
        /\ \A l \in LRegs : spec_mapping[l] = IF Writers(InFlight, l) = {} THEN arch_mapping[l]
                                             ELSE InFlight[Max(Writers(InFlight, l))].prd
    BY <2>1 DEF Written, Writers
  <2>3. ASSUME NEW l \in LRegs PROVE spec_mapping[l] \in PRegs
    <3>1. CASE Writers(InFlight, l) = {}
      BY <1>5, <2>2, <3>1
    <3>2. CASE Writers(InFlight, l) # {}
      <4>1. Writers(InFlight, l) \in SUBSET (1 .. Len(InFlight))
        BY <1>7 DEF Writers
      <4>2. Max(Writers(InFlight, l)) \in DOMAIN InFlight
        BY <1>7, <3>2, <4>1, MaxFacts
      <4>3. InFlight[Max(Writers(InFlight, l))] \in Renamings
        BY <1>6, <4>2
      <4> QED
        BY <2>2, <3>2, <4>3 DEF Renamings
    <3> QED
      BY <3>1, <3>2
  <2>4. Writers(InFlight, 0) = {}
    BY DEF Writers, HasRd
  <2> QED
    BY <1>4, <1>5, <2>2, <2>3, <2>4
<1>9. prev_saved \in [CommitPorts -> PRegs] /\ dealloc \in [CommitPorts -> PRegs]
  <2>1. /\ prev_saved = [c \in CommitPorts |-> prev_saved[c]]
        /\ dealloc = [c \in CommitPorts |-> dealloc[c]]
    BY <1>1 DEF Sizes
  <2>2. \A c \in CommitPorts : prev_saved[c] \in {Zero} \union Mapped \union Pending
    BY <2>1 DEF Pending, SeqRange
  <2>3. \A c \in CommitPorts : dealloc[c] \in {Zero} \union Leaving
    BY <2>1 DEF Leaving, SeqRange
  <2>4. \A c \in CommitPorts : prev_saved[c] \in PRegs /\ dealloc[c] \in PRegs
    BY <1>2, <2>2, <2>3 DEF PRegs
  <2> QED
    BY <2>1, <2>4
<1>10. /\ \A i \in DOMAIN rob : rob[i] \in Renamings
       /\ \A i \in DOMAIN renamed : renamed[i] \in Renamings
  <2>1. IsList(rob) /\ IsList(renamed)
    BY <1>1 DEF Inv
  <2>2. PICK a \in Nat, b \in Nat : /\ a = Len(rob) /\ DOMAIN rob = 1 .. a
                                    /\ b = Len(renamed) /\ DOMAIN renamed = 1 .. b
    BY <2>1, ListDef
  <2>3. DOMAIN InFlight = 1 .. a + b
    BY <1>1, <2>2, FlightFacts
  <2>4. /\ \A i \in 1 .. a : InFlight[i] = rob[i]
        /\ \A i \in 1 .. b : InFlight[a + i] = renamed[i]
    BY <2>1, <2>2, JoinedList DEF InFlight
  <2>5. /\ \A i \in 1 .. a : i \in 1 .. a + b
        /\ \A i \in 1 .. b : a + i \in 1 .. a + b
    OBVIOUS
  <2> QED
    BY <1>6, <2>2, <2>3, <2>4, <2>5
<1> QED
  BY <1>1, <1>3, <1>5, <1>8, <1>9, <1>10 DEF TypeOK, Sizes

\* The maps, the return path, the group in rename and the ROB hold registers
\* and renamed instructions at every moment (rat_map.sv), whatever the sizes.
THEOREM RenameTypes == Spec => []TypeOK
<1>1. RegInv => TypeOK
  BY RegTypes
<1> QED
  BY <1>1, RegInvariance, PTL

\* The assertions of the return path hold when there are registers enough for
\* the map and the return path, and one more.
LEMMA ReleasesSafe ==
  ASSUME RegInv, Cardinality(PhysRegs) >= LREG_NUM + 2 * COMMIT_WIDTH
  PROVE  ReleaseAssertions
<1>1. Ring!Inv /\ Sizes /\ RegistersConserved
  BY DEF RegInv
<1>2. Freed \in Ring!Returns /\ Len(Freed) \in Nat
  BY <1>1, FreedFacts
<1>3. arch_count + Len(Freed) <= Ring!DEPTH
  BY <1>1, <1>2, RingAssumptions, Ring!RoomForReturns
<1>4. /\ Ring!DEPTH \in Nat \ {0} /\ Ring!DEPTH = Cardinality(PhysRegs) /\ COMMIT_WIDTH \in Nat
      /\ count \in Nat /\ arch_count \in Nat /\ count <= arch_count
      /\ LREG_NUM \in Nat
  BY <1>1, RingFacts, SizesAssumption
<1>5. arch_count >= 1
  <2>1. Cardinality(PhysRegs) <= arch_count + (LREG_NUM - 1) + 2 * COMMIT_WIDTH
    BY Holders
  <2> QED
    BY <1>4, <2>1
<1>6. FL!CanEnq(Freed)
  <2>1. Len(Freed) <= Ring!DEPTH - count
    BY <1>2, <1>3, <1>4
  <2> QED
    BY <2>1, SameFreeList DEF Ring!CanEnq
<1>7. ASSUME NEW i \in 1 .. Len(Freed) PROVE FL!Wrap(enq_ptr + i - 1) # arch_deq_ptr
  <2>1. /\ enq_ptr = Ring!Wrap(arch_deq_ptr + arch_count)
        /\ enq_ptr \in Ring!Slots /\ arch_deq_ptr \in Ring!Slots
    BY <1>1 DEF Ring!Inv, Ring!PointersAgree, Ring!TypeOK
  <2>2. Ring!Wrap(enq_ptr + i - 1) # arch_deq_ptr
    BY <1>2, <1>3, <1>4, <1>5, <2>1 DEF Ring!Wrap, Ring!Slots
  <2> QED
    BY <2>2, SameFreeList
<1>8. ASSUME NEW c \in CommitPorts, dealloc[c] # Zero PROVE ~StillMapped(dealloc[c])
  <2>1. dealloc[c] \in Leaving
    BY <1>1, <1>8 DEF Sizes, Leaving, SeqRange
  <2>2. Mapped \cap Leaving = {}
    BY ConservedParts DEF RegInv, Apart
  <2> QED
    BY <1>1, <1>8, <2>1, <2>2, MappedFacts
<1> QED
  BY <1>6, <1>7, <1>8 DEF ReleaseAssertions

\* With nothing in flight and nothing on its way back, all but the mapped
\* registers are on offer.
LEMMA DrainedOffers ==
  ASSUME RegInv, Cardinality(PhysRegs) >= (LREG_NUM - 1) + RENAME_WIDTH
  PROVE  DrainedCanRename
<1>1. SUFFICES ASSUME InFlight = << >>, Pending = {}, Leaving = {}
               PROVE  FL!CanAlloc(RENAME_WIDTH)
  BY DEF DrainedCanRename
<1>2. NumAlloc(InFlight) = 0
  BY <1>1, EmptyList, FS_EmptySet DEF NumAlloc
<1>3. /\ count \in Nat /\ arch_count \in Nat /\ RENAME_WIDTH \in Nat /\ LREG_NUM \in Nat
      /\ Cardinality(PhysRegs) \in Nat
  BY RingFacts, SizesAssumption, PhysRegsAssumption, FS_CardinalityType DEF RegInv
<1>4. count = arch_count
  BY <1>2, <1>3 DEF RegInv, FlightInv
<1>5. Cardinality(PhysRegs) <= arch_count + (LREG_NUM - 1)
  BY <1>1, Holders
<1>6. RENAME_WIDTH <= count
  BY <1>3, <1>4, <1>5
<1> QED
  BY <1>3, <1>6, SameFreeList DEF Ring!CanAlloc

\* The registers are accounted for in any machine that has enough of them: one
\* more than the architectural map and the two registers of the return path can
\* hold (freelist.sv 62, fifo.sv 90 and rat_map.sv 262 assert what follows), and
\* a group more than the map.  The core has 79 for 31, 2 * 4 and 4.
THEOREM Accounting ==
  ASSUME Cardinality(PhysRegs) >= LREG_NUM + 2 * COMMIT_WIDTH,
         Cardinality(PhysRegs) >= (LREG_NUM - 1) + RENAME_WIDTH
  PROVE  Spec => []RegistersAccounted
<1>1. ASSUME RegInv PROVE RegistersAccounted
  BY <1>1, RegTypes, ReleasesSafe, DrainedOffers DEF RegistersAccounted, RegInv
<1> QED
  BY <1>1, RegInvariance, PTL

-----------------------------------------------------------------------------
(* The program in flight. *)

\* The instructions of s are those of p, each with its source looked up in m as
\* the ones before it leave it.
Follows(s, p, m) ==
  /\ IsList(s) /\ IsList(p) /\ Len(p) = Len(s)
  /\ \A i \in 1 .. Len(s) :
       p[i] \in DecInsts /\ Renames(s[i], p[i], Written(m, SubSeq(s, 1, i - 1)))

\* Nothing follows nothing.
LEMMA FollowsNothing ==
  ASSUME NEW m
  PROVE  Follows(<< >>, << >>, m)
BY EmptyList DEF Follows

\* What is left when the front has been written to the map.
LEMMA FollowsRest ==
  ASSUME NEW d, NEW r, NEW p, NEW m, IsList(d), IsList(r), Follows(d \o r, p, m)
  PROVE  Follows(r, SubSeq(p, Len(d) + 1, Len(p)), Written(m, d))
<1>1. PICK a \in Nat, b \in Nat : a = Len(d) /\ b = Len(r)
  BY ListDef
<1> DEFINE u == d \o r
           t == SubSeq(p, a + 1, Len(p))
<1>2. /\ IsList(u) /\ Len(u) = a + b
      /\ \A i \in 1 .. b : u[a + i] = r[i]
  BY <1>1, JoinedList
<1>3. /\ IsList(p) /\ Len(p) = a + b
      /\ \A i \in 1 .. a + b : p[i] \in DecInsts /\ Renames(u[i], p[i], Written(m, SubSeq(u, 1, i - 1)))
  BY <1>2 DEF Follows
<1>4. IsList(t) /\ Len(t) = b /\ \A i \in 1 .. b : t[i] = p[a + i]
  <2>1. a \in 0 .. Len(p) /\ Len(p) - a = b
    BY <1>3
  <2>2. /\ IsList(t) /\ Len(t) = Len(p) - a
        /\ \A i \in 1 .. Len(p) - a : t[i] = p[a + i]
    BY <1>3, <2>1, PartFacts
  <2> HIDE DEF t
  <2> QED
    BY <2>1, <2>2
<1>5. ASSUME NEW i \in 1 .. b
      PROVE  t[i] \in DecInsts /\ Renames(r[i], t[i], Written(Written(m, d), SubSeq(r, 1, i - 1)))
  <2> DEFINE y == SubSeq(r, 1, i - 1)
  <2>1. i - 1 \in 0 .. Len(r) /\ a + i \in 1 .. a + b /\ (a + i) - 1 = a + (i - 1)
    BY <1>1
  <2>2. SubSeq(u, 1, Len(d) + (i - 1)) = d \o y
    BY <2>1, BeginJoined
  <2>3. IsList(y)
    BY <1>1, <2>1, PartFacts
  <2>4. Written(m, d \o y) = Written(Written(m, d), y)
    <3> HIDE DEF y
    <3> QED
      BY <2>3, WrittenJoined
  <2>5. p[a + i] \in DecInsts /\ Renames(u[a + i], p[a + i], Written(m, SubSeq(u, 1, a + (i - 1))))
    BY <1>3, <2>1
  <2> HIDE DEF u, t, y
  <2>6. u[a + i] = r[i] /\ t[i] = p[a + i]
    BY <1>2, <1>4
  <2> QED
    BY <1>1, <2>2, <2>4, <2>5, <2>6 DEF y
<1> HIDE DEF t
<1>6. Follows(r, t, Written(m, d))
  BY <1>1, <1>4, <1>5 DEF Follows
<1> QED
  BY <1>1, <1>6 DEF t

\* Instructions renamed after those in flight.
LEMMA FollowsJoined ==
  ASSUME NEW r, NEW q, NEW p, NEW g, NEW m,
         Follows(r, p, m), Follows(q, g, Written(m, r))
  PROVE  Follows(r \o q, p \o g, m)
<1>1. IsList(r) /\ IsList(p) /\ IsList(q) /\ IsList(g)
  BY DEF Follows
<1>2. PICK a \in Nat, b \in Nat : a = Len(r) /\ b = Len(q) /\ a = Len(p) /\ b = Len(g)
  BY <1>1, ListDef DEF Follows
<1> DEFINE u == r \o q
           v == p \o g
<1>3. /\ IsList(u) /\ Len(u) = a + b /\ IsList(v) /\ Len(v) = a + b
      /\ \A i \in 1 .. a : u[i] = r[i] /\ v[i] = p[i]
      /\ \A i \in 1 .. b : u[a + i] = q[i] /\ v[a + i] = g[i]
  <2>1. /\ IsList(u) /\ Len(u) = Len(r) + Len(q)
        /\ \A i \in 1 .. Len(r) : u[i] = r[i]
        /\ \A i \in 1 .. Len(q) : u[Len(r) + i] = q[i]
    BY <1>1, JoinedList
  <2>2. /\ IsList(v) /\ Len(v) = Len(p) + Len(g)
        /\ \A i \in 1 .. Len(p) : v[i] = p[i]
        /\ \A i \in 1 .. Len(g) : v[Len(p) + i] = g[i]
    BY <1>1, JoinedList
  <2> HIDE DEF u, v
  <2> QED
    BY <1>2, <2>1, <2>2
<1>4. ASSUME NEW i \in 1 .. a
      PROVE  v[i] \in DecInsts /\ Renames(u[i], v[i], Written(m, SubSeq(u, 1, i - 1)))
  <2>1. i - 1 \in 0 .. Len(r)
    BY <1>2
  <2>2. SubSeq(u, 1, i - 1) = SubSeq(r, 1, i - 1)
    BY <1>1, <2>1, BeginJoined
  <2>3. p[i] \in DecInsts /\ Renames(r[i], p[i], Written(m, SubSeq(r, 1, i - 1)))
    BY <1>2 DEF Follows
  <2> HIDE DEF u, v
  <2>4. u[i] = r[i] /\ v[i] = p[i]
    BY <1>3
  <2> QED
    BY <2>2, <2>3, <2>4
<1>5. ASSUME NEW i \in 1 .. b
      PROVE  v[a + i] \in DecInsts /\ Renames(u[a + i], v[a + i], Written(m, SubSeq(u, 1, a + (i - 1))))
  <2> DEFINE y == SubSeq(q, 1, i - 1)
  <2>1. i - 1 \in 0 .. Len(q)
    BY <1>2
  <2>2. SubSeq(u, 1, Len(r) + (i - 1)) = r \o y
    BY <1>1, <2>1, BeginJoined
  <2>3. IsList(y)
    BY <1>1, <2>1, PartFacts
  <2>4. Written(m, r \o y) = Written(Written(m, r), y)
    <3> HIDE DEF y
    <3> QED
      BY <1>1, <2>3, WrittenJoined
  <2>5. g[i] \in DecInsts /\ Renames(q[i], g[i], Written(Written(m, r), y))
    BY <1>2 DEF Follows
  <2> HIDE DEF u, v, y
  <2>6. u[a + i] = q[i] /\ v[a + i] = g[i]
    BY <1>3
  <2> QED
    BY <1>2, <2>2, <2>4, <2>5, <2>6
<1> HIDE DEF u, v
<1>6. ASSUME NEW i \in 1 .. a + b
      PROVE  v[i] \in DecInsts /\ Renames(u[i], v[i], Written(m, SubSeq(u, 1, i - 1)))
  <2>1. CASE i <= a
    BY <1>4, <2>1
  <2>2. CASE i > a
    <3>1. PICK j \in 1 .. b : i = a + j
      <4>1. i - a \in 1 .. b /\ i = a + (i - a)
        BY <2>2
      <4> QED
        BY <4>1
    <3>2. i - 1 = a + (j - 1)
      BY <3>1
    <3> QED
      BY <1>5, <3>1, <3>2
  <2> QED
    BY <2>1, <2>2
<1>7. Follows(u, v, m)
  BY <1>3, <1>6 DEF Follows
<1> QED
  BY <1>7 DEF u, v

\* A group is renamed from the speculative map.
LEMMA FollowsGroup ==
  ASSUME NEW g \in Groups
  PROVE  Follows(RenamedGroup(g), g, spec_mapping)
<1> DEFINE q == RenamedGroup(g)
<1>1. /\ IsList(q) /\ IsList(g) /\ Len(q) = Len(g)
      /\ \A i \in DOMAIN q : g[i] \in DecInsts /\ Renames(q[i], g[i], Written(spec_mapping, SubSeq(q, 1, i - 1)))
  BY GroupRenamed
<1> HIDE DEF q
<1>2. DOMAIN q = 1 .. Len(q)
  BY <1>1, ListDef
<1>3. Follows(q, g, spec_mapping)
  BY <1>1, <1>2 DEF Follows
<1> QED
  BY <1>3 DEF q

-----------------------------------------------------------------------------
(* The invariant. *)

\* a register that can be read
Ready(p) == Value(p) # NotReady

\* the registers of the architectural map hold their values
MapReady == \A l \in LRegs : Ready(arch_mapping[l])

\* what an instruction has computed is the complement of its source, which has
\* not been lost
Computed(x) == Allocates(x) /\ Ready(x.prd) => Ready(x.prs) /\ Value(x.prd) = 1 - Value(x.prs)

\* a register that holds a value holds a bit
BitsOrNot == prf \in [PhysRegs -> {0, 1, NotReady}]

DataInv ==
  /\ RegInv
  /\ Follows(InFlight, program, arch_mapping)
  /\ BitsOrNot
  /\ MapReady
  /\ \A i \in DOMAIN rob : Computed(rob[i])

\* x0 reads 0.
LEMMA ZeroReady == Ready(Zero) /\ Value(Zero) = 0
BY NotReadyAssumption DEF Ready, Value

\* What is read is a bit.
LEMMA BitValue ==
  ASSUME BitsOrNot, NEW p \in PRegs, Ready(p)
  PROVE  Value(p) \in {0, 1}
BY DEF BitsOrNot, Ready, Value, PRegs

\* The ROB is the front of what is in flight, and what was renamed last its end.
LEMMA Places ==
  ASSUME RegInv
  PROVE  /\ \A i \in DOMAIN rob : i \in DOMAIN InFlight /\ InFlight[i] = rob[i] /\ i \in 1 .. Len(rob)
         /\ \A j \in DOMAIN renamed : /\ Len(rob) + j \in DOMAIN InFlight
                                      /\ InFlight[Len(rob) + j] = renamed[j]
                                      /\ j \in 1 .. Len(renamed)
         /\ Len(rob) \in Nat /\ Len(renamed) \in Nat
<1>1. IsList(rob) /\ IsList(renamed) /\ Inv
  BY DEF RegInv, Inv
<1>2. PICK a \in Nat, b \in Nat : a = Len(rob) /\ b = Len(renamed)
  BY <1>1, ListDef
<1>3. DOMAIN rob = 1 .. a /\ DOMAIN renamed = 1 .. b /\ DOMAIN InFlight = 1 .. a + b
  BY <1>1, <1>2, ListDef, FlightFacts
<1>4. /\ \A i \in 1 .. a : InFlight[i] = rob[i]
      /\ \A j \in 1 .. b : InFlight[a + j] = renamed[j]
  BY <1>1, <1>2, JoinedList DEF InFlight
<1> QED
  BY <1>2, <1>3, <1>4

\* A register that an instruction in flight has taken is a physical one, is not
\* in the architectural map, and is no other instruction's.
LEMMA TakenApart ==
  ASSUME RegInv
  PROVE  /\ \A k \in Allocs(InFlight) : InFlight[k].prd \in PhysRegs /\ InFlight[k].prd \notin {Zero} \union Mapped
         /\ \A k, l \in Allocs(InFlight) : InFlight[k].prd = InFlight[l].prd => k = l
<1>1. Inv /\ Ring!Inv /\ FlightInv /\ Apart
  BY ConservedParts DEF RegInv
<1>2. /\ \A k \in Allocs(InFlight) : InFlight[k].prd \in PhysRegs
      /\ \A k, l \in Allocs(InFlight) : InFlight[k].prd = InFlight[l].prd => k = l
  BY <1>1, TakenFacts
<1>3. \A k \in Allocs(InFlight) : InFlight[k].prd \in RingRegs
  BY OutFacts
<1>4. RingRegs \cap Mapped = {}
  BY <1>1 DEF Apart
<1> QED
  BY <1>2, <1>3, <1>4, ZeroAssumption

\* What an instruction of the ROB reads or has as its destination is x0's, in
\* the architectural map or taken by one in the ROB.
LEMMA RobOrigin ==
  ASSUME RegInv, NEW i \in DOMAIN rob
  PROVE  /\ i \in Nat
         /\ rob[i].prs \in {Zero} \union Mapped \union {rob[k].prd : k \in {k \in DOMAIN rob : k < i /\ Allocates(rob[k])}}
         /\ rob[i].prd \in {Zero} \union Mapped \union {rob[k].prd : k \in {k \in DOMAIN rob : k <= i /\ Allocates(rob[k])}}
<1>1. Inv /\ AsRenamed(InFlight)
  BY DEF RegInv, FlightInv
<1>2. /\ i \in DOMAIN InFlight /\ InFlight[i] = rob[i] /\ i \in 1 .. Len(rob) /\ Len(rob) \in Nat
      /\ \A k \in DOMAIN rob : InFlight[k] = rob[k]
  BY Places
<1>3. DOMAIN rob = 1 .. Len(rob) /\ DOMAIN InFlight = 1 .. Len(InFlight) /\ Allocs(InFlight) \in SUBSET (1 .. Len(InFlight))
  BY <1>1, ListDef, FlightFacts DEF Inv
<1>4. /\ InFlight[i].prs \in {Zero} \union Mapped \union TakenBefore(InFlight, i)
      /\ InFlight[i].prd \in {Zero} \union Mapped \union TakenBefore(InFlight, i + 1)
  BY <1>1, <1>2, Origin
<1>5. ASSUME NEW k \in Allocs(InFlight), k < i + 1
      PROVE  k \in DOMAIN rob /\ k <= i /\ Allocates(rob[k]) /\ InFlight[k] = rob[k]
  <2>1. k \in 1 .. Len(InFlight)
    BY <1>3
  <2>2. k \in DOMAIN rob /\ k <= i
    BY <1>2, <1>3, <1>5, <2>1
  <2> QED
    BY <1>2, <2>2 DEF Allocs
<1>6. ASSUME NEW k \in Allocs(InFlight), k < i PROVE k < i + 1
  BY <1>2, <1>3, <1>6
<1>7. TakenBefore(InFlight, i + 1) \subseteq {rob[k].prd : k \in {k \in DOMAIN rob : k <= i /\ Allocates(rob[k])}}
  BY <1>5 DEF TakenBefore
<1>8. TakenBefore(InFlight, i) \subseteq {rob[k].prd : k \in {k \in DOMAIN rob : k < i /\ Allocates(rob[k])}}
  BY <1>5, <1>6 DEF TakenBefore
<1> QED
  BY <1>2, <1>4, <1>7, <1>8

\* the registers of the architectural map and of the instructions in the ROB
Held == {Zero} \union Mapped \union {rob[k].prd : k \in {k \in DOMAIN rob : Allocates(rob[k])}}

\* Every register that the architectural map shows, and every one that an
\* instruction in the ROB reads or has as its destination.
LEMMA HeldFacts ==
  ASSUME RegInv
  PROVE  /\ \A i \in DOMAIN rob : rob[i].prs \in Held /\ rob[i].prd \in Held
         /\ \A l \in LRegs : arch_mapping[l] \in Held
         /\ Held \subseteq PRegs
<1>1. \A i \in DOMAIN rob : rob[i].prs \in Held /\ rob[i].prd \in Held
  BY RobOrigin DEF Held
<1>2. \A l \in LRegs : arch_mapping[l] \in Held
  BY DEF Held, Mapped
<1>3. TypeOK
  BY RegTypes
<1>4. Mapped \subseteq PRegs
  BY <1>3 DEF TypeOK, Mapped
<1>5. \A i \in DOMAIN rob : rob[i].prd \in PRegs
  BY <1>3 DEF TypeOK, Renamings
<1> QED
  BY <1>1, <1>2, <1>4, <1>5 DEF Held, PRegs

\* The group that enters the ROB marks no register that is held.
LEMMA MarkApart ==
  ASSUME RegInv, MarkNotReady
  PROVE  /\ \A p \in Held : Value(p)' = Value(p)
         /\ \A x : Allocates(x) /\ (\E j \in DOMAIN renamed : renamed[j] = x) => ~Ready(x.prd)'
<1>1. Inv /\ Len(rob) \in Nat
  BY Places DEF RegInv
<1>2. ASSUME NEW j \in DOMAIN renamed, Allocates(renamed[j])
      PROVE  renamed[j].prd \in PhysRegs /\ renamed[j].prd \notin Held
  <2>1. PICK m : m = Len(rob) + j
    OBVIOUS
  <2>2. m \in Allocs(InFlight) /\ InFlight[m] = renamed[j] /\ m > Len(rob)
    BY <1>2, <2>1, Places DEF Allocs
  <2>3. renamed[j].prd \in PhysRegs /\ renamed[j].prd \notin {Zero} \union Mapped
    BY <2>2, TakenApart
  <2>4. ASSUME NEW k \in DOMAIN rob, Allocates(rob[k]) PROVE rob[k].prd # renamed[j].prd
    <3>1. k \in Allocs(InFlight) /\ InFlight[k] = rob[k] /\ k \in 1 .. Len(rob)
      BY <2>4, Places DEF Allocs
    <3>2. k # m
      BY <1>1, <2>2, <3>1
    <3> QED
      BY <2>2, <3>1, <3>2, TakenApart
  <2> QED
    BY <2>3, <2>4 DEF Held
<1>3. ASSUME NEW p \in Held PROVE Value(p)' = Value(p)
  <2>1. p = Zero \/ p \in PhysRegs
    BY HeldFacts DEF PRegs
  <2>2. p \in PhysRegs => prf'[p] = prf[p]
    BY <1>2 DEF MarkNotReady
  <2> QED
    BY <2>1, <2>2 DEF Value
<1>4. ASSUME NEW x, Allocates(x), NEW j \in DOMAIN renamed, renamed[j] = x PROVE ~Ready(x.prd)'
  <2>1. PICK p : p = x.prd
    OBVIOUS
  <2>2. p \in PhysRegs /\ p # Zero
    BY <1>2, <1>4, <2>1, ZeroAssumption
  <2>3. prf'[p] = NotReady
    BY <1>4, <2>1, <2>2 DEF MarkNotReady
  <2> QED
    BY <2>1, <2>2, <2>3 DEF Ready, Value
<1> QED
  BY <1>3, <1>4

-----------------------------------------------------------------------------
(* The steps. *)

\* What retires has its registers, so the map that shows them shows values.
LEMMA FrontReady ==
  ASSUME DataInv, NEW n \in Retirable, CommitCycle(n)
  PROVE  /\ \A i \in 1 .. n : i \in DOMAIN rob /\ Ready(rob[i].prd)
         /\ \A l \in LRegs : arch_mapping'[l] \in Held /\ Ready(arch_mapping'[l])
<1>1. RegInv /\ MapReady /\ Inv /\ n \in Commits /\ \A i \in 1 .. n : Finished(rob[i])
  BY DEF DataInv, RegInv, Retirable
<1>2. n \in Nat /\ n <= Len(rob) /\ DOMAIN rob = 1 .. Len(rob) /\ Len(rob) \in Nat
  <2>1. Len(rob) \in Nat /\ DOMAIN rob = 1 .. Len(rob)
    BY <1>1, ListDef DEF Inv
  <2> QED
    BY <1>1, <2>1, WidthFacts DEF Commits
<1>3. \A p \in {Zero} \union Mapped : Ready(p)
  BY <1>1, ZeroReady DEF MapReady, Mapped
<1>4. ASSUME NEW i \in 1 .. n PROVE i \in DOMAIN rob /\ Ready(rob[i].prd)
  <2>1. i \in DOMAIN rob
    BY <1>2
  <2>2. i \in Nat /\ rob[i].prd \in {Zero} \union Mapped \union {rob[k].prd : k \in {k \in DOMAIN rob : k <= i /\ Allocates(rob[k])}}
    BY <1>1, <2>1, RobOrigin
  <2>3. ASSUME NEW k \in DOMAIN rob, k <= i, Allocates(rob[k]) PROVE Ready(rob[k].prd)
    <3>1. k \in 1 .. n
      BY <1>2, <2>3
    <3> QED
      BY <1>1, <2>3, <3>1 DEF Finished, Ready
  <2> QED
    BY <1>3, <2>1, <2>2, <2>3
<1>5. ASSUME NEW l \in LRegs PROVE arch_mapping'[l] \in Held /\ Ready(arch_mapping'[l])
  <2> DEFINE d == SubSeq(rob, 1, n)
  <2>1. arch_mapping' = Written(arch_mapping, d) /\ IsList(rob) /\ n \in 0 .. Len(rob)
    <3>1. arch_mapping' = Written(arch_mapping, d)
      BY <1>1, CommitFacts
    <3> QED
      BY <1>1, <1>2, <3>1 DEF Inv
  <2>2. IsList(d) /\ Len(d) = n /\ \A k \in 1 .. n : d[k] = rob[k]
    BY <2>1, PartFacts
  <2> HIDE DEF d
  <2>3. DOMAIN d = 1 .. n
    BY <2>2, ListDef
  <2>4. arch_mapping'[l] = IF Writers(d, l) = {} THEN arch_mapping[l] ELSE d[Max(Writers(d, l))].prd
    BY <2>1 DEF Written, Writers
  <2>5. CASE Writers(d, l) = {}
    BY <1>1, <2>4, <2>5, HeldFacts DEF MapReady
  <2>6. CASE Writers(d, l) # {}
    <3>1. PICK k \in 1 .. n : k = Max(Writers(d, l))
      <4>1. Writers(d, l) \in SUBSET (1 .. n)
        BY <2>3 DEF Writers
      <4> QED
        BY <1>2, <2>6, <4>1, MaxFacts
    <3>2. arch_mapping'[l] = rob[k].prd
      BY <2>2, <2>4, <2>6, <3>1
    <3> QED
      BY <1>1, <1>4, <3>2, HeldFacts
  <2> QED
    BY <2>5, <2>6
<1> QED
  BY <1>4, <1>5

\* Values that are held do not change, so neither does what was computed.
LEMMA ComputedKept ==
  ASSUME \A p \in Held : Value(p)' = Value(p), NEW x, x.prs \in Held, x.prd \in Held, Computed(x)
  PROVE  Computed(x)'
<1>1. PICK s, r : s = x.prs /\ r = x.prd
  OBVIOUS
<1>2. Value(s)' = Value(s) /\ Value(r)' = Value(r)
  BY <1>1
<1>3. (Allocates(x) /\ Ready(r) => Ready(s) /\ Value(r) = 1 - Value(s))
        => (Allocates(x) /\ Ready(r)' => Ready(s)' /\ Value(r)' = 1 - Value(s)')
  BY <1>2 DEF Ready
<1> QED
  BY <1>1, <1>3 DEF Computed, Ready

\* What was computed, in the ROB after a cycle.
LEMMA ComputedNext ==
  ASSUME RegInv, \A i \in DOMAIN rob : Computed(rob[i]), \A p \in Held : Value(p)' = Value(p),
         NEW n \in Commits, NEW t, IsList(t),
         rob' = SubSeq(rob, n + 1, Len(rob)) \o t,
         \A x : Allocates(x) /\ (\E j \in DOMAIN t : t[j] = x) => ~Ready(x.prd)'
  PROVE  (\A i \in DOMAIN rob : Computed(rob[i]))'
<1> DEFINE b == SubSeq(rob, n + 1, Len(rob))
<1>1. n \in 0 .. Len(rob) /\ IsList(rob) /\ Len(rob) \in Nat
  <2>1. Len(rob) \in Nat /\ IsList(rob)
    BY ListDef DEF RegInv, Inv
  <2> QED
    BY <2>1, WidthFacts DEF Commits
<1>2. IsList(b) /\ Len(b) = Len(rob) - n /\ \A i \in 1 .. Len(rob) - n : b[i] = rob[n + i]
  BY <1>1, PartFacts
<1> HIDE DEF b
<1>3. PICK m \in Nat, h \in Nat : m = Len(b) /\ h = Len(t)
  BY <1>2, ListDef
<1> DEFINE u == b \o t
<1>4. DOMAIN rob = 1 .. n + m /\ DOMAIN t = 1 .. h
  <2>1. DOMAIN rob = 1 .. Len(rob) /\ Len(rob) \in Nat /\ DOMAIN t = 1 .. Len(t)
    BY <1>1, ListDef
  <2> QED
    BY <1>1, <1>2, <1>3, <2>1
<1>5. DOMAIN u = 1 .. m + h /\ (\A i \in 1 .. m : u[i] = b[i]) /\ (\A i \in 1 .. h : u[m + i] = t[i])
  <2>1. IsList(u) /\ Len(u) = Len(b) + Len(t) /\ (\A i \in 1 .. Len(b) : u[i] = b[i]) /\ (\A i \in 1 .. Len(t) : u[Len(b) + i] = t[i])
    <3>1. IsList(b) /\ IsList(t)
      BY <1>2
    <3> QED
      BY ONLY <3>1, JoinedList
  <2> HIDE DEF u
  <2>2. DOMAIN u = 1 .. Len(u)
    BY <2>1, ListDef
  <2>3. /\ Len(u) = m + h /\ (\A i \in 1 .. m : u[i] = b[i])
        /\ (\A i \in 1 .. h : u[m + i] = t[i])
    BY <1>3, <2>1, Zenon
  <2> QED
    BY <2>2, <2>3
<1> HIDE DEF u
<1>6. ASSUME NEW x, NEW i \in DOMAIN u, u[i] = x PROVE Computed(x)'
  <2>1. CASE i <= m
    <3>1. n + i \in DOMAIN rob /\ i \in 1 .. m /\ m = Len(rob) - n
      BY <1>1, <1>2, <1>3, <1>4, <1>5, <2>1
    <3>2. u[i] = rob[n + i]
      BY <1>2, <1>5, <3>1
    <3>3. x.prs \in Held /\ x.prd \in Held /\ Computed(x)
      BY <1>6, <3>1, <3>2, HeldFacts
    <3> QED
      BY <3>3, ComputedKept
  <2>2. CASE i > m
    <3>1. PICK j \in 1 .. h : i = m + j
      <4>1. i - m \in 1 .. h /\ i = m + (i - m)
        BY <1>3, <1>5, <2>2
      <4> QED
        BY <4>1
    <3>2. j \in DOMAIN t /\ t[j] = x
      BY <1>4, <1>5, <1>6, <3>1
    <3>3. Allocates(x) => ~Ready(x.prd)'
      BY <3>2
    <3> QED
      BY <3>3 DEF Computed, Allocates, HasRd
  <2> QED
    BY <1>3, <1>5, <2>1, <2>2
<1>7. rob' = u
  BY DEF b, u
<1>8. ASSUME NEW i \in DOMAIN u PROVE Computed(rob[i])'
  <2>1. PICK x : x = u[i]
    OBVIOUS
  <2>2. Computed(x)'
    BY <1>6, <2>1
  <2> QED
    BY <1>7, <2>1, <2>2 DEF Computed, Ready, Value, Allocates, HasRd
<1> QED
  BY <1>7, <1>8

\* The map shows values after a cycle.
LEMMA MapNext ==
  ASSUME \A p \in Held : Value(p)' = Value(p),
         \A l \in LRegs : arch_mapping'[l] \in Held /\ Ready(arch_mapping'[l])
  PROVE  MapReady'
<1>1. ASSUME NEW l \in LRegs PROVE Ready(arch_mapping[l])'
  <2>1. PICK p : p = arch_mapping'[l]
    OBVIOUS
  <2>2. Ready(p) /\ Value(p)' = Value(p)
    BY <2>1
  <2> QED
    BY <2>1, <2>2 DEF Ready, Value
<1> QED
  BY <1>1 DEF MapReady

\* The program in flight after a cycle: n instructions retire, g is renamed to q.
LEMMA FollowsNext ==
  ASSUME DataInv, NEW n \in Commits, CommitCycle(n),
         NEW q, NEW g, Follows(q, g, spec_mapping),
         NEW t, IsList(t), InFlight = SubSeq(rob, 1, n) \o t, InFlight' = t \o q
  PROVE  Follows(InFlight', SubSeq(program, n + 1, Len(program)) \o g, arch_mapping')
<1> DEFINE d == SubSeq(rob, 1, n)
           p == SubSeq(program, n + 1, Len(program))
<1>1. RegInv /\ Inv /\ SpecIsReplay /\ Follows(InFlight, program, arch_mapping)
  BY DEF DataInv, RegInv, Inv
<1>2. IsList(d) /\ Len(d) = n
  BY <1>1, FlightCut
<1>3. arch_mapping' = Written(arch_mapping, d)
  BY <1>1, CommitFacts
<1>4. Follows(t, p, arch_mapping')
  <2>1. Follows(d \o t, program, arch_mapping)
    BY <1>1
  <2>2. Follows(t, SubSeq(program, Len(d) + 1, Len(program)), Written(arch_mapping, d))
    <3> HIDE DEF d
    <3> QED
      BY <1>2, <2>1, FollowsRest
  <2> QED
    BY <1>2, <1>3, <2>2
<1>5. spec_mapping = Written(arch_mapping', t)
  <2>1. spec_mapping = Written(arch_mapping, d \o t)
    BY <1>1 DEF SpecIsReplay
  <2> HIDE DEF d
  <2> QED
    BY <1>2, <1>3, <2>1, WrittenJoined
<1> HIDE DEF p
<1>6. Follows(t \o q, p \o g, arch_mapping')
  BY <1>4, <1>5, FollowsJoined
<1> QED
  BY <1>6 DEF p

\* The invariant at reset.
LEMMA DataStart ==
  ASSUME DataInit
  PROVE  DataInv
<1>1. RegInv
  BY RegInit DEF DataInit
<1>2. rob = << >> /\ renamed = << >> /\ program = << >>
  BY DEF DataInit, Init
<1>3. InFlight = << >>
  BY <1>2, EmptyList, ConcatEmptySeq DEF InFlight, IsList
<1>4. Follows(InFlight, program, arch_mapping)
  BY <1>2, <1>3, FollowsNothing
<1>5. BitsOrNot
  BY DEF DataInit, BitsOrNot
<1>6. MapReady
  BY ZeroReady DEF DataInit, Init, MapReady
<1>7. \A i \in DOMAIN rob : Computed(rob[i])
  BY <1>2, EmptyList
<1> QED
  BY <1>1, <1>4, <1>5, <1>6, <1>7 DEF DataInv

\* A group renamed, with instructions retiring.
LEMMA AcceptKeeps ==
  ASSUME DataInv, RegInv', NEW n \in Retirable, NEW g \in Groups, Accept(g, n)
  PROVE  DataInv'
<1> DEFINE q == RenamedGroup(g)
           b == SubSeq(rob, n + 1, Len(rob))
           t == b \o renamed
<1>1. RegInv /\ Inv /\ n \in Commits /\ \A i \in DOMAIN rob : Computed(rob[i])
  BY DEF DataInv, RegInv, Retirable
<1>2. /\ rob' = t /\ renamed' = q /\ CommitCycle(n) /\ MarkNotReady
      /\ program' = SubSeq(program, n + 1, Len(program)) \o g
  BY DEF Accept, RenameGroup, Dispatched
<1>3. IsList(t) /\ IsList(renamed) /\ InFlight = SubSeq(rob, 1, n) \o t
  BY <1>1, FlightCut
<1>4. InFlight' = t \o q
  BY <1>2 DEF InFlight
<1>5. Follows(q, g, spec_mapping)
  BY FollowsGroup
<1>6. /\ \A p \in Held : Value(p)' = Value(p)
      /\ \A x : Allocates(x) /\ (\E j \in DOMAIN renamed : renamed[j] = x) => ~Ready(x.prd)'
  BY <1>1, <1>2, MarkApart
<1>7. (\A i \in DOMAIN rob : Computed(rob[i]))'
  BY <1>1, <1>2, <1>3, <1>6, ComputedNext
<1>8. MapReady'
  <2>1. \A l \in LRegs : arch_mapping'[l] \in Held /\ Ready(arch_mapping'[l])
    BY <1>2, FrontReady
  <2> QED
    BY <1>6, <2>1, MapNext
<1>9. Follows(InFlight', program', arch_mapping')
  <2> HIDE DEF q, t
  <2> QED
    BY <1>1, <1>2, <1>3, <1>4, <1>5, FollowsNext
<1>10. BitsOrNot'
  BY <1>2 DEF DataInv, BitsOrNot, MarkNotReady
<1>11. Follows(InFlight, program, arch_mapping)'
  BY <1>9 DEF Follows, Written, IsList, SeqRange
<1> QED
  BY <1>7, <1>8, <1>10, <1>11 DEF DataInv

\* The group that waits in rename enters the ROB, and none is renamed.
LEMMA RefuseKeeps ==
  ASSUME DataInv, RegInv', NEW n \in Retirable, NEW g, Refuse(g, n)
  PROVE  DataInv'
<1> DEFINE b == SubSeq(rob, n + 1, Len(rob))
           t == b \o renamed
           p == SubSeq(program, n + 1, Len(program))
<1>1. RegInv /\ Inv /\ n \in Commits /\ \A i \in DOMAIN rob : Computed(rob[i])
  BY DEF DataInv, RegInv, Retirable
<1>2. /\ rob' = t /\ renamed' = << >> /\ CommitCycle(n) /\ MarkNotReady /\ program' = p
  BY DEF Refuse, RenameRefused, Dispatched
<1>3. IsList(t) /\ IsList(renamed) /\ InFlight = SubSeq(rob, 1, n) \o t
  BY <1>1, FlightCut
<1>4. InFlight' = t \o << >>
  BY <1>2 DEF InFlight
<1>5. Follows(<< >>, << >>, spec_mapping)
  BY FollowsNothing
<1>6. /\ \A r \in Held : Value(r)' = Value(r)
      /\ \A x : Allocates(x) /\ (\E j \in DOMAIN renamed : renamed[j] = x) => ~Ready(x.prd)'
  BY <1>1, <1>2, MarkApart
<1>7. (\A i \in DOMAIN rob : Computed(rob[i]))'
  BY <1>1, <1>2, <1>3, <1>6, ComputedNext
<1>8. MapReady'
  <2>1. \A l \in LRegs : arch_mapping'[l] \in Held /\ Ready(arch_mapping'[l])
    BY <1>2, FrontReady
  <2> QED
    BY <1>6, <2>1, MapNext
<1>9. Follows(InFlight', p \o << >>, arch_mapping')
  <2> DEFINE none == << >>
  <2>1. Follows(none, none, spec_mapping) /\ InFlight' = t \o none
    BY <1>4, <1>5
  <2> HIDE DEF none, t
  <2>2. Follows(InFlight', p \o none, arch_mapping')
    BY <1>1, <1>2, <1>3, <2>1, FollowsNext
  <2> QED
    BY <2>2 DEF none
<1>10. p \o << >> = p
  <2>1. IsList(program) /\ Len(program) = Len(InFlight) /\ Len(rob) \in Nat /\ Len(program) \in Nat
    BY <1>1, ListDef DEF DataInv, Follows, Inv
  <2>2. n \in 0 .. Len(program)
    <3>1. Len(InFlight) = Len(rob) + Len(renamed) /\ Len(renamed) \in Nat /\ Len(rob) \in Nat
      BY <1>1, FlightFacts
    <3>2. n \in 0 .. Len(rob)
      BY <1>1, <2>1, WidthFacts DEF Commits
    <3> QED
      BY <2>1, <3>1, <3>2
  <2>3. IsList(p)
    BY <2>1, <2>2, PartFacts
  <2> HIDE DEF p
  <2> QED
    BY <2>3, ConcatEmptySeq DEF IsList
<1>11. BitsOrNot'
  BY <1>2 DEF DataInv, BitsOrNot, MarkNotReady
<1>12. Follows(InFlight', program', arch_mapping')
  BY <1>2, <1>9, <1>10
<1>13. Follows(InFlight, program, arch_mapping)'
  BY <1>12 DEF Follows, Written, IsList, SeqRange
<1> QED
  BY <1>7, <1>8, <1>11, <1>13 DEF DataInv

\* Dispatch stalls, and instructions retire.
LEMMA StallKeeps ==
  ASSUME DataInv, RegInv', NEW n \in Retirable, Stall(n)
  PROVE  DataInv'
<1> DEFINE b == SubSeq(rob, n + 1, Len(rob))
           t == b \o renamed
           p == SubSeq(program, n + 1, Len(program))
<1>1. RegInv /\ Inv /\ n \in Commits /\ \A i \in DOMAIN rob : Computed(rob[i])
  BY DEF DataInv, RegInv, Retirable
<1>2. rob' = b /\ renamed' = renamed /\ CommitCycle(n) /\ prf' = prf /\ program' = p
  BY DEF Stall, DispatchStall
<1>3. IsList(t) /\ IsList(b) /\ Len(SubSeq(rob, 1, n)) = n /\ IsList(SubSeq(rob, 1, n)) /\ InFlight = SubSeq(rob, 1, n) \o t
  BY <1>1, FlightCut
<1>4. InFlight' = t
  BY <1>2 DEF InFlight
<1>5. \A r \in Held : Value(r)' = Value(r)
  BY <1>2 DEF Value
<1>6. (\A i \in DOMAIN rob : Computed(rob[i]))'
  <2> DEFINE none == << >>
  <2>1. IsList(none) /\ DOMAIN none = {}
    BY EmptyList
  <2>2. b \o none = b
    <3> HIDE DEF b
    <3> QED
      BY <1>3, ConcatEmptySeq DEF IsList
  <2> HIDE DEF none
  <2>3. \A x : Allocates(x) /\ (\E j \in DOMAIN none : none[j] = x) => ~Ready(x.prd)'
    BY <2>1
  <2>4. rob' = b \o none
    BY <1>2, <2>2
  <2> QED
    BY <1>1, <1>5, <2>1, <2>3, <2>4, ComputedNext
<1>7. MapReady'
  <2>1. \A l \in LRegs : arch_mapping'[l] \in Held /\ Ready(arch_mapping'[l])
    BY <1>2, FrontReady
  <2> QED
    BY <1>5, <2>1, MapNext
<1>8. Follows(InFlight', program', arch_mapping')
  <2> DEFINE d == SubSeq(rob, 1, n)
  <2>1. Follows(d \o t, program, arch_mapping) /\ arch_mapping' = Written(arch_mapping, d)
    BY <1>1, <1>2, <1>3, CommitFacts DEF DataInv
  <2> HIDE DEF d, t
  <2>2. Follows(t, SubSeq(program, Len(d) + 1, Len(program)), Written(arch_mapping, d))
    BY <1>3, <2>1, FollowsRest DEF d
  <2> QED
    BY <1>2, <1>3, <1>4, <2>1, <2>2 DEF d
<1>9. BitsOrNot'
  BY <1>2 DEF DataInv, BitsOrNot
<1>10. Follows(InFlight, program, arch_mapping)'
  BY <1>8 DEF Follows, Written, IsList, SeqRange
<1> QED
  BY <1>6, <1>7, <1>9, <1>10 DEF DataInv

\* A squash.
LEMMA FlushKeeps ==
  ASSUME DataInv, RegInv', Flush
  PROVE  DataInv'
<1>1. RegInv /\ Inv /\ MapReady
  BY DEF DataInv, RegInv
<1>2. rob' = << >> /\ renamed' = << >> /\ program' = << >> /\ prf' = prf /\ CommitCycle(0)
  BY DEF Flush, Squash
<1>3. InFlight' = << >>
  BY <1>2, EmptyList, ConcatEmptySeq DEF InFlight, IsList
<1>4. arch_mapping' = arch_mapping
  <2>1. SubSeq(rob, 1, 0) = << >>
    BY SubSeqEmpty
  <2> QED
    BY <1>1, <1>2, <2>1, WrittenFacts DEF CommitCycle, Inv
<1>5. Follows(InFlight', program', arch_mapping')
  BY <1>2, <1>3, FollowsNothing
<1>6. Follows(InFlight, program, arch_mapping)'
  BY <1>5 DEF Follows, Written, IsList, SeqRange
<1>7. BitsOrNot' /\ MapReady'
  BY <1>1, <1>2, <1>4 DEF DataInv, BitsOrNot, MapReady, Ready, Value
<1>8. (\A i \in DOMAIN rob : Computed(rob[i]))'
  <2>1. DOMAIN rob' = {}
    BY <1>2, EmptyList
  <2> QED
    BY <2>1
<1> QED
  BY <1>6, <1>7, <1>8 DEF DataInv

\* What an execution writes nobody else holds: not the map, not x0, and no
\* instruction that has computed its own.
LEMMA ExecuteWrites ==
  ASSUME DataInv, NEW i \in DOMAIN rob, Execute(i)
  PROVE  /\ Allocates(rob[i]) /\ rob[i].prd \in PhysRegs /\ rob[i].prd \notin {Zero} \union Mapped
         /\ ~Ready(rob[i].prd) /\ Ready(rob[i].prs) /\ rob[i].prs \in PRegs
         /\ \A k \in DOMAIN rob : Allocates(rob[k]) /\ rob[k].prd = rob[i].prd => k = i
         /\ \A p : p # rob[i].prd => Value(p)' = Value(p)
         /\ \A p : p = rob[i].prd => Value(p)' = 1 - Value(rob[i].prs)
<1>1. RegInv /\ BitsOrNot
  BY DEF DataInv
<1>2. Allocates(rob[i]) /\ ~Ready(rob[i].prd) /\ Ready(rob[i].prs)
  BY DEF Execute, Finished, Ready
<1>3. \A k \in DOMAIN rob : Allocates(rob[k]) => k \in Allocs(InFlight) /\ InFlight[k] = rob[k]
  BY <1>1, Places DEF Allocs
<1>4. /\ rob[i].prd \in PhysRegs /\ rob[i].prd \notin {Zero} \union Mapped
      /\ \A k \in DOMAIN rob : Allocates(rob[k]) /\ rob[k].prd = rob[i].prd => k = i
  BY <1>1, <1>2, <1>3, TakenApart
<1>5. rob[i].prs \in PRegs
  BY <1>1, HeldFacts
<1>6. prf' = [prf EXCEPT ![rob[i].prd] = 1 - Value(rob[i].prs)]
  BY DEF Execute
<1>7. ASSUME NEW p PROVE /\ p # rob[i].prd => Value(p)' = Value(p)
                         /\ p = rob[i].prd => Value(p)' = 1 - Value(rob[i].prs)
  <2>1. CASE p = Zero
    BY <1>4, <2>1 DEF Value
  <2>2. CASE p # Zero /\ p = rob[i].prd
    <3>1. prf'[p] = 1 - Value(rob[i].prs)
      BY <1>1, <1>4, <1>6, <2>2 DEF BitsOrNot
    <3> QED
      BY <2>2, <3>1 DEF Value
  <2>3. CASE p # Zero /\ p # rob[i].prd
    <3>1. prf'[p] = prf[p]
      BY <1>1, <1>4, <1>6, <2>3 DEF BitsOrNot
    <3> QED
      BY <2>3, <3>1 DEF Value
  <2> QED
    BY <2>1, <2>2, <2>3
<1> QED
  BY <1>2, <1>4, <1>5, <1>7

\* Execution, in any order.
LEMMA ExecuteKeeps ==
  ASSUME DataInv, NEW i \in DOMAIN rob, Execute(i)
  PROVE  DataInv' /\ UNCHANGED <<vars, program>>
<1>1. RegInv /\ BitsOrNot /\ MapReady /\ \A k \in DOMAIN rob : Computed(rob[k])
  BY DEF DataInv
<1>2. PICK w, v : w = rob[i].prd /\ v = 1 - Value(rob[i].prs)
  OBVIOUS
<1>3. /\ w \in PhysRegs /\ w \notin {Zero} \union Mapped /\ ~Ready(w)
      /\ \A p : p # w => Value(p)' = Value(p)
      /\ Value(w)' = v
  BY <1>2, ExecuteWrites
<1>4. v \in {0, 1}
  <2>1. Value(rob[i].prs) \in {0, 1}
    BY <1>1, BitValue, ExecuteWrites
  <2> QED
    BY <1>2, <2>1
<1>5. UNCHANGED <<vars, program>>
  BY DEF Execute
<1>6. rob' = rob /\ renamed' = renamed /\ program' = program /\ arch_mapping' = arch_mapping
  BY <1>5 DEF vars
<1>7. RegInv'
  BY <1>1, <1>5, StutterKeeps
<1>8. Follows(InFlight, program, arch_mapping)'
  <2>1. InFlight' = InFlight
    BY <1>6 DEF InFlight
  <2>2. Follows(InFlight', program', arch_mapping')
    BY <1>6, <2>1 DEF DataInv
  <2> QED
    BY <2>2 DEF Follows, Written, IsList, SeqRange
<1>9. BitsOrNot'
  <2>1. prf' = [prf EXCEPT ![w] = v]
    BY <1>2 DEF Execute
  <2> QED
    BY <1>1, <1>3, <1>4, <2>1 DEF BitsOrNot
<1>10. MapReady'
  <2>1. ASSUME NEW l \in LRegs PROVE Ready(arch_mapping[l])'
    <3>1. PICK p : p = arch_mapping[l]
      OBVIOUS
    <3>2. p # w
      BY <1>3, <3>1 DEF Mapped
    <3>3. Value(p)' = Value(p) /\ Ready(p)
      BY <1>1, <1>3, <3>1, <3>2 DEF MapReady
    <3>4. Value(p)' # NotReady
      BY <3>3 DEF Ready
    <3> QED
      BY <1>6, <3>1, <3>4 DEF Ready, Value
  <2> QED
    BY <2>1 DEF MapReady
<1>11. ASSUME NEW x, NEW k \in DOMAIN rob, x = rob[k] PROVE Computed(x)'
  <2>1. PICK s, r : s = x.prs /\ r = x.prd
    OBVIOUS
  <2>2. Computed(x)
    BY <1>1, <1>11
  <2>3. SUFFICES ASSUME Allocates(x), Value(r)' # NotReady
                 PROVE  Value(s)' # NotReady /\ Value(r)' = 1 - Value(s)'
    BY <2>1 DEF Computed, Ready, Allocates, HasRd, Value
  <2>4. CASE r = w
    <3>1. k = i
      BY <1>2, <1>11, <2>1, <2>3, <2>4, ExecuteWrites
    <3>2. Ready(s) /\ v = 1 - Value(s)
      BY <1>2, <1>11, <2>1, <3>1, ExecuteWrites
    <3>3. s # w
      BY <1>3, <3>2
    <3> QED
      BY <1>3, <2>4, <3>2, <3>3 DEF Ready
  <2>5. CASE r # w
    <3>1. Value(r)' = Value(r)
      BY <1>3, <2>5
    <3>2. Ready(r)
      BY <2>3, <3>1 DEF Ready
    <3>3. Ready(s) /\ Value(r) = 1 - Value(s)
      BY <2>1, <2>2, <2>3, <3>2 DEF Computed
    <3>4. s # w
      BY <1>3, <3>3
    <3> QED
      BY <1>3, <3>1, <3>3, <3>4 DEF Ready
  <2> QED
    BY <2>4, <2>5
<1>12. ASSUME NEW k \in DOMAIN rob PROVE Computed(rob[k])'
  <2>1. PICK x : x = rob[k]
    OBVIOUS
  <2>2. Computed(x)'
    BY <1>11, <2>1
  <2> QED
    BY <1>6, <2>1, <2>2 DEF Computed, Ready, Value, Allocates, HasRd
<1>13. (\A k \in DOMAIN rob : Computed(rob[k]))'
  BY <1>6, <1>12
<1> QED
  BY <1>5, <1>7, <1>8, <1>9, <1>10, <1>13 DEF DataInv

\* Every step is one of Rename's, or leaves its state alone.
LEMMA DataStepRenames ==
  ASSUME DataNext
  PROVE  [Next]_vars
<1>1. ASSUME NEW n \in Retirable, NEW g \in Groups, Accept(g, n) PROVE Next
  <2>1. n \in Commits /\ RenameGroup(g, n)
    BY <1>1 DEF Retirable, Accept
  <2> QED
    BY <2>1 DEF Next
<1>2. ASSUME NEW n \in Retirable, NEW g \in Groups, Refuse(g, n) PROVE Next
  <2>1. n \in Commits /\ RenameRefused(g, n)
    BY <1>2 DEF Retirable, Refuse
  <2> QED
    BY <2>1 DEF Next
<1>3. ASSUME NEW n \in Retirable, Stall(n) PROVE Next
  <2>1. n \in Commits /\ DispatchStall(n)
    BY <1>3 DEF Retirable, Stall
  <2> QED
    BY <2>1 DEF Next
<1>4. ASSUME Flush PROVE Next
  BY <1>4 DEF Flush, Next
<1>5. ASSUME NEW i \in DOMAIN rob, Execute(i) PROVE UNCHANGED vars
  BY <1>5 DEF Execute
<1> QED
  BY <1>1, <1>2, <1>3, <1>4, <1>5 DEF DataNext

\* Every step keeps the invariant.
LEMMA DataStep ==
  ASSUME DataInv, [DataNext]_dfVars
  PROVE  DataInv'
<1>1. RegInv
  BY DEF DataInv
<1>2. CASE DataNext
  <2>1. RegInv'
    BY <1>1, <1>2, DataStepRenames, RegStep
  <2>2. ASSUME NEW n \in Retirable, NEW g \in Groups, Accept(g, n) PROVE DataInv'
    BY <2>1, <2>2, AcceptKeeps
  <2>3. ASSUME NEW n \in Retirable, NEW g \in Groups, Refuse(g, n) PROVE DataInv'
    BY <2>1, <2>3, RefuseKeeps
  <2>4. ASSUME NEW n \in Retirable, Stall(n) PROVE DataInv'
    BY <2>1, <2>4, StallKeeps
  <2>5. ASSUME Flush PROVE DataInv'
    BY <2>1, <2>5, FlushKeeps
  <2>6. ASSUME NEW i \in DOMAIN rob, Execute(i) PROVE DataInv'
    BY <2>6, ExecuteKeeps
  <2> QED
    BY <1>2, <2>2, <2>3, <2>4, <2>5, <2>6 DEF DataNext
<1>3. CASE UNCHANGED dfVars
  <2>1. UNCHANGED vars /\ prf' = prf /\ program' = program
    BY <1>3 DEF dfVars
  <2>2. rob' = rob /\ renamed' = renamed /\ arch_mapping' = arch_mapping
    BY <2>1 DEF vars
  <2>3. RegInv'
    BY <1>1, <2>1, StutterKeeps
  <2>4. Follows(InFlight, program, arch_mapping)'
    <3>1. InFlight' = InFlight
      BY <2>2 DEF InFlight
    <3>2. Follows(InFlight', program', arch_mapping')
      BY <2>1, <2>2, <3>1 DEF DataInv
    <3> QED
      BY <3>2 DEF Follows, Written, IsList, SeqRange
  <2>5. BitsOrNot' /\ MapReady'
    BY <2>1, <2>2 DEF DataInv, BitsOrNot, MapReady, Ready, Value
  <2>6. \A i \in DOMAIN rob : Computed(rob[i])
    BY DEF DataInv
  <2>7. (\A i \in DOMAIN rob : Computed(rob[i]))'
    BY <2>1, <2>2, <2>6 DEF Computed, Ready, Value, Allocates, HasRd
  <2> QED
    BY <2>3, <2>4, <2>5, <2>7 DEF DataInv
<1> QED
  BY <1>2, <1>3

\* The invariant holds, whatever is executed when.
LEMMA DataInvariance == DataSpec => []DataInv
<1>1. DataInit => DataInv
  BY DataStart
<1>2. DataInv /\ [DataNext]_dfVars => DataInv'
  BY DataStep
<1> QED
  BY <1>1, <1>2, PTL DEF DataSpec

\* Execution never waits for a register that nobody is going to write: the
\* oldest instruction that has not computed finds its source in the register
\* file (regfile.sv), through eliminated moves, reused registers and squashes.
THEOREM ExecutionProceeds == DataSpec => []OldestCanExecute
<1>1. ASSUME DataInv PROVE OldestCanExecute
  <2>1. RegInv /\ Follows(InFlight, program, arch_mapping) /\ BitsOrNot /\ MapReady
    BY <1>1 DEF DataInv
  <2>2. DataTypeOK
    BY <2>1, RegTypes DEF DataTypeOK, BitsOrNot, Follows
  <2>3. ASSUME NEW i \in DOMAIN rob, \A k \in 1 .. i - 1 : Finished(rob[k])
        PROVE  Value(rob[i].prs) # NotReady
    <3>1. i \in Nat /\ rob[i].prs \in {Zero} \union Mapped \union {rob[k].prd : k \in {k \in DOMAIN rob : k < i /\ Allocates(rob[k])}}
      BY <2>1, RobOrigin
    <3>2. DOMAIN rob = 1 .. Len(rob) /\ Len(rob) \in Nat
      BY <2>1, ListDef DEF RegInv, Inv
    <3>3. \A p \in {Zero} \union Mapped : Value(p) # NotReady
      BY <2>1, ZeroReady DEF MapReady, Mapped, Ready
    <3>4. ASSUME NEW k \in DOMAIN rob, k < i, Allocates(rob[k]) PROVE Value(rob[k].prd) # NotReady
      <4>1. k \in 1 .. i - 1
        BY <3>1, <3>2, <3>4
      <4> QED
        BY <2>3, <3>4, <4>1 DEF Finished
    <3> QED
      BY <3>1, <3>3, <3>4
  <2> QED
    BY <2>2, <2>3 DEF OldestCanExecute
<1> QED
  BY <1>1, DataInvariance, PTL

-----------------------------------------------------------------------------
(* What the programmer sees. *)

\* the values behind a map
Shown(m) == [l \in LRegs |-> Value(m[l])]

\* the machine of ProgramOrder after k of n instructions is f[k]
Runs(f, n, regs, p) ==
  f = [k \in 0 .. n |-> IF k = 0 THEN regs ELSE Seen!Step(f[k - 1], p[k])]

\* There is one run of the program.
LEMMA OneRun ==
  ASSUME NEW n \in Nat, NEW regs, NEW p, NEW f, NEW h, Runs(f, n, regs, p), Runs(h, n, regs, p)
  PROVE  f[n] = h[n]
<1> DEFINE T == {k \in 0 .. n : f[k] # h[k]}
<1>1. SUFFICES ASSUME T # {} PROVE FALSE
  OBVIOUS
<1>2. PICK k \in T : \A j \in T : k <= j
  <2>1. T \in SUBSET Nat
    OBVIOUS
  <2> QED
    BY <1>1, <2>1, LeastElement
<1>3. k \in 0 .. n /\ f[k] # h[k]
  OBVIOUS
<1>4. /\ f[k] = IF k = 0 THEN regs ELSE Seen!Step(f[k - 1], p[k])
      /\ h[k] = IF k = 0 THEN regs ELSE Seen!Step(h[k - 1], p[k])
  BY <1>3 DEF Runs
<1>5. k # 0
  BY <1>3, <1>4
<1>6. k - 1 \in 0 .. n /\ ~(k <= k - 1)
  BY <1>3, <1>5
<1>7. k - 1 \notin T
  BY <1>2, <1>6
<1>8. f[k - 1] = h[k - 1]
  BY <1>6, <1>7
<1> QED
  BY <1>3, <1>4, <1>5, <1>8

\* ProgramOrder's registers after n instructions are those of the run.
LEMMA RunDefined ==
  ASSUME NEW n \in Nat, NEW regs, NEW p, NEW h, Runs(h, n, regs, p)
  PROVE  Seen!Execute(regs, p, n) = h[n]
<1> DEFINE f == CHOOSE f : f = [k \in 0 .. n |-> IF k = 0 THEN regs ELSE Seen!Step(f[k - 1], p[k])]
<1>1. h = [k \in 0 .. n |-> IF k = 0 THEN regs ELSE Seen!Step(h[k - 1], p[k])]
  BY DEF Runs
<1>2. f = [k \in 0 .. n |-> IF k = 0 THEN regs ELSE Seen!Step(f[k - 1], p[k])]
  BY <1>1
<1>3. Seen!Execute(regs, p, n) = f[n]
  BY DEF Seen!Execute
<1> HIDE DEF f
<1>4. Runs(f, n, regs, p)
  BY <1>2 DEF Runs
<1> QED
  BY <1>3, <1>4, OneRun

\* One instruction more is written.
LEMMA WrittenOne ==
  ASSUME NEW m, NEW s, IsList(s), NEW k \in 1 .. Len(s), NEW l \in LRegs
  PROVE  Written(m, SubSeq(s, 1, k))[l]
           = IF HasRd(s[k]) /\ s[k].rd = l THEN s[k].prd ELSE Written(m, SubSeq(s, 1, k - 1))[l]
<1> DEFINE a == SubSeq(s, 1, k - 1)
           b == SubSeq(s, 1, k)
<1>1. Len(s) \in Nat /\ k \in 0 .. Len(s) /\ k - 1 \in 0 .. Len(s)
  BY ListDef
<1>2. /\ IsList(a) /\ Len(a) = k - 1 /\ \A i \in 1 .. k - 1 : a[i] = s[i]
      /\ IsList(b) /\ Len(b) = k /\ \A i \in 1 .. k : b[i] = s[i]
  BY <1>1, PartFacts
<1> HIDE DEF a, b
<1>3. DOMAIN a = 1 .. k - 1 /\ DOMAIN b = 1 .. k
  BY <1>2, ListDef
<1>4. /\ Written(m, a)[l] = IF Writers(a, l) = {} THEN m[l] ELSE a[Max(Writers(a, l))].prd
      /\ Written(m, b)[l] = IF Writers(b, l) = {} THEN m[l] ELSE b[Max(Writers(b, l))].prd
  BY DEF Written, Writers
<1>5. ASSUME NEW i \in 1 .. k - 1 PROVE i \in 1 .. k /\ b[i] = a[i]
  BY <1>1, <1>2
<1>6. CASE HasRd(s[k]) /\ s[k].rd = l
  <2>1. k \in Writers(b, l) /\ Writers(b, l) \in SUBSET Int /\ \A i \in Writers(b, l) : i <= k
    BY <1>1, <1>2, <1>3, <1>6 DEF Writers
  <2>2. Max(Writers(b, l)) = k
    BY <2>1, MaxUnique
  <2> QED
    BY <1>2, <1>4, <1>6, <2>1, <2>2 DEF a, b
<1>7. CASE ~(HasRd(s[k]) /\ s[k].rd = l)
  <2>1. Writers(b, l) = Writers(a, l)
    <3>1. ASSUME NEW i \in Writers(b, l) PROVE i \in Writers(a, l)
      <4>1. i \in 1 .. k /\ HasRd(b[i]) /\ b[i].rd = l
        BY <1>3 DEF Writers
      <4>2. i # k
        BY <1>2, <1>7, <4>1
      <4>3. i \in 1 .. k - 1
        BY <1>1, <4>1, <4>2
      <4> QED
        BY <1>3, <1>5, <4>1, <4>3 DEF Writers
    <3>2. ASSUME NEW i \in Writers(a, l) PROVE i \in Writers(b, l)
      BY <1>3, <1>5 DEF Writers
    <3> QED
      BY <3>1, <3>2
  <2>2. Writers(a, l) # {} => b[Max(Writers(a, l))] = a[Max(Writers(a, l))]
    <3>1. k - 1 \in Nat /\ Writers(a, l) \in SUBSET (1 .. k - 1)
      BY <1>1, <1>3 DEF Writers
    <3>2. Writers(a, l) # {} => Max(Writers(a, l)) \in 1 .. k - 1
      BY <3>1, MaxFacts
    <3> QED
      BY <1>5, <3>2
  <2> QED
    BY <1>4, <1>7, <2>1, <2>2 DEF a, b
<1> QED
  BY <1>6, <1>7

\* Nothing is written over x0.
LEMMA WrittenZero ==
  ASSUME NEW m, NEW s
  PROVE  0 \in LRegs /\ Written(m, s)[0] = m[0]
<1>1. 0 \in LRegs
  BY SizesAssumption DEF LRegs
<1>2. Writers(s, 0) = {}
  BY DEF Writers, HasRd
<1>3. Written(m, s)[0] = IF Writers(s, 0) = {} THEN m[0] ELSE s[Max(Writers(s, 0))].prd
  BY <1>1 DEF Written, Writers
<1> QED
  BY <1>1, <1>2, <1>3

\* What an instruction that has its register shows is what the machine of
\* ProgramOrder computes from what was shown before it.
LEMMA RetireOne ==
  ASSUME DataInv, NEW k \in DOMAIN rob, Ready(rob[k].prd)
  PROVE  /\ k \in DOMAIN program
         /\ Shown(Written(arch_mapping, SubSeq(rob, 1, k)))
              = Seen!Step(Shown(Written(arch_mapping, SubSeq(rob, 1, k - 1))), program[k])
<1>1. /\ RegInv /\ Inv /\ AsRenamed(InFlight) /\ Follows(InFlight, program, arch_mapping)
      /\ Computed(rob[k]) /\ arch_mapping[0] = Zero /\ IsList(rob) /\ IsList(renamed)
  BY DEF DataInv, RegInv, FlightInv, Sizes, Inv
<1>2. /\ k \in 1 .. Len(rob) /\ Len(rob) \in Nat /\ k \in DOMAIN InFlight /\ InFlight[k] = rob[k]
      /\ k \in 1 .. Len(InFlight)
  BY <1>1, Places, FlightFacts
<1> DEFINE W == Written(arch_mapping, SubSeq(rob, 1, k - 1))
<1>3. SubSeq(InFlight, 1, k - 1) = SubSeq(rob, 1, k - 1)
  <2>1. k - 1 \in 0 .. Len(rob)
    BY <1>2
  <2> QED
    BY <1>1, <2>1, BeginJoined DEF InFlight
<1>4. PICK x, dec : x = rob[k] /\ dec = program[k]
  OBVIOUS
<1>5. dec \in DecInsts /\ x.rd = dec.rd /\ x.ismv = dec.ismv /\ x.prs = W[dec.rs]
  BY <1>1, <1>2, <1>3, <1>4 DEF Follows, Renames
<1>6. dec.rd \in LRegs /\ dec.ismv \in BOOLEAN /\ dec.rs \in LRegs
  BY <1>5, DecInstsAssumption
<1>7. x.ismv => x.prd = x.prs
  BY <1>1, <1>2, <1>4 DEF AsRenamed, RenamedFrom
<1>8. k \in DOMAIN program
  <2>1. DOMAIN program = 1 .. Len(program) /\ Len(program) = Len(InFlight)
    BY <1>1, ListDef DEF Follows
  <2> QED
    BY <1>2, <2>1
<1> DEFINE V == Written(arch_mapping, SubSeq(rob, 1, k))
<1>9. ASSUME NEW l \in LRegs PROVE V[l] = IF HasRd(x) /\ x.rd = l THEN x.prd ELSE W[l]
  <2>1. IsList(rob) /\ k \in 1 .. Len(rob)
    BY <1>1, <1>2
  <2>2. V[l] = IF HasRd(rob[k]) /\ rob[k].rd = l THEN rob[k].prd ELSE W[l]
    BY <2>1, WrittenOne
  <2> QED
    BY <1>4, <2>2, Zenon
<1>10. 0 \in LRegs /\ W[0] = Zero
  BY <1>1, WrittenZero
<1> HIDE DEF V, W
<1>11. Shown(V) = [l \in LRegs |-> IF HasRd(x) /\ x.rd = l THEN Value(x.prd) ELSE Shown(W)[l]]
  BY <1>9 DEF Shown
<1>12. Shown(W) = [l \in LRegs |-> Shown(W)[l]] /\ \A l \in LRegs : Shown(W)[l] = Value(W[l])
  <2>1. \A l \in LRegs : Shown(W)[l] = Value(W[l])
    BY DEF Shown
  <2>2. Shown(W) = [l \in LRegs |-> Value(W[l])]
    BY DEF Shown
  <2> QED
    BY <2>1, <2>2
<1>13. CASE dec.rd = 0
  <2>1. Shown(W)[0] = 0
    BY <1>10, <1>12, ZeroReady
  <2>2. Shown(V) = Shown(W)
    BY <1>5, <1>11, <1>12, <1>13 DEF HasRd
  <2>3. Seen!Step(Shown(W), dec) = [Shown(W) EXCEPT ![0] = 0]
    BY <1>13 DEF Seen!Step
  <2>4. [Shown(W) EXCEPT ![0] = 0] = Shown(W)
    BY <1>10, <1>12, <2>1
  <2> QED
    BY <1>4, <1>8, <2>2, <2>3, <2>4 DEF V, W
<1>14. CASE dec.rd # 0
  <2>1. HasRd(x) /\ x.rd = dec.rd
    BY <1>5, <1>14 DEF HasRd
  <2>2. PICK v : v = Value(x.prd)
    OBVIOUS
  <2>3. v = IF dec.ismv THEN Shown(W)[dec.rs] ELSE 1 - Shown(W)[dec.rs]
    <3>1. Shown(W)[dec.rs] = Value(x.prs)
      BY <1>5, <1>6, <1>12
    <3>2. CASE dec.ismv
      BY <1>5, <1>7, <2>2, <3>1, <3>2
    <3>3. CASE ~dec.ismv
      <4>1. Allocates(x)
        BY <1>5, <2>1, <3>3 DEF Allocates
      <4>2. Value(x.prd) = 1 - Value(x.prs)
        BY <1>1, <1>4, <4>1 DEF Computed
      <4> QED
        BY <2>2, <3>1, <3>3, <4>2
    <3> QED
      BY <3>2, <3>3
  <2>4. Shown(V) = [l \in LRegs |-> IF dec.rd = l THEN v ELSE Shown(W)[l]]
    BY <1>11, <2>1, <2>2
  <2>5. Seen!Step(Shown(W), dec) = [Shown(W) EXCEPT ![dec.rd] = v]
    BY <1>14, <2>3 DEF Seen!Step
  <2>6. [Shown(W) EXCEPT ![dec.rd] = v] = [l \in LRegs |-> IF dec.rd = l THEN v ELSE Shown(W)[l]]
    BY <1>6, <1>12
  <2> QED
    BY <1>4, <1>8, <2>4, <2>5, <2>6 DEF V, W
<1> QED
  BY <1>13, <1>14

\* What the map shows after n instructions retire is what ProgramOrder computes.
LEMMA RetireRuns ==
  ASSUME DataInv, NEW n \in Retirable, CommitCycle(n)
  PROVE  Seen!Execute(Shown(arch_mapping), program, n) = Shown(arch_mapping')
<1>1. Inv /\ n \in Commits /\ IsMap(arch_mapping)
  BY DEF DataInv, RegInv, Inv, Retirable
<1>2. n \in Nat
  <2>1. Len(rob) \in Nat
    BY <1>1, ListDef DEF Inv
  <2> QED
    BY <1>1, <2>1, WidthFacts DEF Commits
<1> DEFINE h == [k \in 0 .. n |-> Shown(Written(arch_mapping, SubSeq(rob, 1, k)))]
           regs == Shown(arch_mapping)
<1>3. ASSUME NEW k \in 0 .. n
      PROVE  h[k] = IF k = 0 THEN regs ELSE Seen!Step(h[k - 1], program[k])
  <2>1. CASE k = 0
    <3>1. SubSeq(rob, 1, 0) = << >>
      BY SubSeqEmpty
    <3>2. Written(arch_mapping, << >>) = arch_mapping
      BY <1>1, WrittenFacts
    <3> QED
      BY <2>1, <3>1, <3>2
  <2>2. CASE k # 0
    <3>1. k \in 1 .. n /\ k - 1 \in 0 .. n
      BY <1>2, <2>2
    <3>2. k \in DOMAIN rob /\ Ready(rob[k].prd)
      BY <3>1, FrontReady
    <3>3. Shown(Written(arch_mapping, SubSeq(rob, 1, k)))
            = Seen!Step(Shown(Written(arch_mapping, SubSeq(rob, 1, k - 1))), program[k])
      BY <3>2, RetireOne
    <3> QED
      BY <2>2, <3>1, <3>3
  <2> QED
    BY <2>1, <2>2
<1>4. h = [k \in 0 .. n |-> h[k]] /\ h[n] = Shown(Written(arch_mapping, SubSeq(rob, 1, n)))
  BY <1>2
<1> HIDE DEF h, regs
<1>5. Runs(h, n, regs, program)
  BY <1>3, <1>4 DEF Runs
<1>6. Seen!Execute(regs, program, n) = h[n]
  BY <1>2, <1>5, RunDefined
<1>7. arch_mapping' = Written(arch_mapping, SubSeq(rob, 1, n))
  BY <1>1, CommitFacts
<1> QED
  BY <1>4, <1>6, <1>7 DEF regs

\* The registers that the map shows after a cycle, with the values of then.
LEMMA ShownNext ==
  ASSUME \A p \in Held : Value(p)' = Value(p), \A l \in LRegs : arch_mapping'[l] \in Held
  PROVE  Shown(arch_mapping)' = Shown(arch_mapping')
<1>1. ASSUME NEW l \in LRegs PROVE Value(arch_mapping[l])' = Value(arch_mapping'[l])
  <2>1. PICK p : p = arch_mapping'[l]
    OBVIOUS
  <2>2. Value(p)' = Value(p)
    BY <2>1
  <2> QED
    BY <2>1, <2>2 DEF Value
<1> QED
  BY <1>1 DEF Shown

\* Retiring is what ProgramOrder calls to advance.
LEMMA RetireAdvances ==
  ASSUME DataInv, NEW n \in Retirable, CommitCycle(n), \A p \in Held : Value(p)' = Value(p),
         NEW j \in 0 .. RENAME_WIDTH, NEW g \in [1 .. j -> DecInsts],
         program' = SubSeq(program, n + 1, Len(program)) \o g
  PROVE  Seen!Advance
<1>1. RegInv /\ Inv /\ n \in Commits /\ Follows(InFlight, program, arch_mapping)
  BY DEF DataInv, RegInv, Retirable
<1>2. n \in 0 .. COMMIT_WIDTH /\ n <= Len(program)
  <2>1. Len(rob) \in Nat /\ Len(renamed) \in Nat /\ Len(program) = Len(rob) + Len(renamed)
    BY <1>1, FlightFacts DEF Follows
  <2>2. COMMIT_WIDTH \in Nat
    BY WidthFacts
  <2> QED
    BY <1>1, <2>1, <2>2 DEF Commits
<1>3. Shown(arch_mapping)' = Seen!Execute(Shown(arch_mapping), program, n)
  <2>1. \A l \in LRegs : arch_mapping'[l] \in Held
    BY FrontReady
  <2>2. Shown(arch_mapping)' = Shown(arch_mapping')
    BY <2>1, ShownNext
  <2> QED
    BY <2>2, RetireRuns
<1>4. [l \in LRegs |-> Value(arch_mapping[l])]' = Seen!Execute([l \in LRegs |-> Value(arch_mapping[l])], program, n)
  BY <1>3 DEF Shown
<1>5. \E a \in 0 .. COMMIT_WIDTH, b \in 0 .. RENAME_WIDTH :
        /\ a <= Len(program)
        /\ [l \in LRegs |-> Value(arch_mapping[l])]' = Seen!Execute([l \in LRegs |-> Value(arch_mapping[l])], program, a)
        /\ \E x \in [1 .. b -> DecInsts] : program' = SubSeq(program, a + 1, Len(program)) \o x
  BY <1>2, <1>4
<1> QED
  BY <1>5 DEF Seen!Advance

\* Nothing is seen of a step that changes neither the map nor what it shows.
LEMMA NothingSeen ==
  ASSUME arch_mapping' = arch_mapping, \A p \in {Zero} \union Mapped : Value(p)' = Value(p)
  PROVE  [l \in LRegs |-> Value(arch_mapping[l])]' = [l \in LRegs |-> Value(arch_mapping[l])]
<1>1. ASSUME NEW l \in LRegs PROVE Value(arch_mapping[l])' = Value(arch_mapping[l])
  <2>1. PICK p : p = arch_mapping[l]
    OBVIOUS
  <2>2. Value(p)' = Value(p)
    BY <2>1 DEF Mapped
  <2> QED
    BY <2>1, <2>2 DEF Value
<1> QED
  BY <1>1

\* Every step advances ProgramOrder, discards what is in flight, or is not seen.
LEMMA DataStepSeen ==
  ASSUME DataInv, [DataNext]_dfVars
  PROVE  [Seen!Next]_(Seen!progVars)
<1>1. RegInv /\ Inv /\ IsMap(arch_mapping)
  BY DEF DataInv, RegInv, Inv
<1>2. ASSUME NEW n \in Retirable, NEW g \in Groups, Accept(g, n) PROVE Seen!Next
  <2>1. PICK j \in 0 .. RENAME_WIDTH : g \in [1 .. j -> DecInsts]
    BY DEF Groups
  <2>2. /\ CommitCycle(n) /\ MarkNotReady /\ program' = SubSeq(program, n + 1, Len(program)) \o g
    BY <1>2 DEF Accept, RenameGroup
  <2>3. \A p \in Held : Value(p)' = Value(p)
    BY <1>1, <2>2, MarkApart
  <2> QED
    BY <2>1, <2>2, <2>3, RetireAdvances DEF Seen!Next
<1>3. ASSUME NEW n \in Retirable, CommitCycle(n), \A p \in Held : Value(p)' = Value(p),
             program' = SubSeq(program, n + 1, Len(program))
      PROVE  Seen!Next
  <2> DEFINE none == << >>
             p == SubSeq(program, n + 1, Len(program))
  <2>1. n \in Commits /\ IsList(program) /\ Len(program) = Len(rob) + Len(renamed) /\ Len(rob) \in Nat /\ Len(renamed) \in Nat
    BY <1>1, FlightFacts DEF DataInv, Follows, Retirable
  <2>2. n \in 0 .. Len(program)
    <3>1. n \in 0 .. Len(rob)
      BY <2>1, WidthFacts DEF Commits
    <3> QED
      BY <2>1, <3>1
  <2>3. IsList(p)
    BY <2>1, <2>2, PartFacts
  <2>4. p \o none = p
    <3> HIDE DEF p
    <3> QED
      BY <2>3, ConcatEmptySeq DEF IsList
  <2>5. 0 \in 0 .. RENAME_WIDTH /\ none \in [1 .. 0 -> DecInsts]
    <3>1. RENAME_WIDTH \in Nat
      BY WidthFacts
    <3>2. 1 .. 0 = {}
      OBVIOUS
    <3> QED
      BY <3>1, <3>2, EmptyList
  <2>6. program' = SubSeq(program, n + 1, Len(program)) \o none
    BY <1>3, <2>4
  <2> HIDE DEF none, p
  <2> QED
    BY <1>3, <2>5, <2>6, RetireAdvances DEF Seen!Next
<1>4. ASSUME NEW n \in Retirable, NEW g \in Groups, Refuse(g, n) PROVE Seen!Next
  <2>1. CommitCycle(n) /\ MarkNotReady /\ program' = SubSeq(program, n + 1, Len(program))
    BY <1>4 DEF Refuse, RenameRefused
  <2>2. \A p \in Held : Value(p)' = Value(p)
    BY <1>1, <2>1, MarkApart
  <2> QED
    BY <1>3, <2>1, <2>2
<1>5. ASSUME NEW n \in Retirable, Stall(n) PROVE Seen!Next
  <2>1. CommitCycle(n) /\ prf' = prf /\ program' = SubSeq(program, n + 1, Len(program))
    BY <1>5 DEF Stall, DispatchStall
  <2>2. \A p \in Held : Value(p)' = Value(p)
    BY <2>1 DEF Value
  <2> QED
    BY <1>3, <2>1, <2>2
<1>6. ASSUME Flush PROVE Seen!Next
  <2>1. program' = << >> /\ prf' = prf /\ CommitCycle(0)
    BY <1>6 DEF Flush, Squash
  <2>2. arch_mapping' = arch_mapping
    <3>1. SubSeq(rob, 1, 0) = << >>
      BY SubSeqEmpty
    <3> QED
      BY <1>1, <2>1, <3>1, WrittenFacts DEF CommitCycle
  <2>3. [l \in LRegs |-> Value(arch_mapping[l])]' = [l \in LRegs |-> Value(arch_mapping[l])]
    BY <2>1, <2>2, NothingSeen DEF Value
  <2> QED
    BY <2>1, <2>3 DEF Seen!Next, Seen!Discard
<1>7. ASSUME NEW i \in DOMAIN rob, Execute(i) PROVE UNCHANGED Seen!progVars
  <2>1. UNCHANGED <<vars, program>>
    BY <1>7 DEF Execute
  <2>2. arch_mapping' = arch_mapping /\ program' = program
    BY <2>1 DEF vars
  <2>3. \A p \in {Zero} \union Mapped : Value(p)' = Value(p)
    <3>1. \A p \in {Zero} \union Mapped : p # rob[i].prd
      BY <1>7, ExecuteWrites
    <3>2. \A p : p # rob[i].prd => Value(p)' = Value(p)
      BY <1>7, ExecuteWrites
    <3> QED
      BY <3>1, <3>2
  <2>4. [l \in LRegs |-> Value(arch_mapping[l])]' = [l \in LRegs |-> Value(arch_mapping[l])]
    BY <2>2, <2>3, NothingSeen
  <2> QED
    BY <2>2, <2>4 DEF Seen!progVars
<1>8. ASSUME UNCHANGED dfVars PROVE UNCHANGED Seen!progVars
  <2>1. arch_mapping' = arch_mapping /\ program' = program /\ prf' = prf
    BY <1>8 DEF dfVars, vars
  <2>2. [l \in LRegs |-> Value(arch_mapping[l])]' = [l \in LRegs |-> Value(arch_mapping[l])]
    BY <2>1, NothingSeen DEF Value
  <2> QED
    BY <2>1, <2>2 DEF Seen!progVars
<1> QED
  BY <1>2, <1>4, <1>5, <1>6, <1>7, <1>8 DEF DataNext

\* What renaming is for: the registers that the architectural map shows go
\* through the states of the program executed in order, one instruction after
\* the other, whatever rename.sv eliminates or reuses, whatever is executed
\* when, and whatever is squashed.
THEOREM ProgramOrderKept == DataSpec => ImplementsProgramOrder
<1>1. DataInit => Seen!Init
  <2>1. SUFFICES ASSUME DataInit PROVE Seen!Init
    OBVIOUS
  <2>2. \A l \in LRegs : Value(arch_mapping[l]) = 0
    BY <2>1, ZeroReady DEF DataInit, Init
  <2>3. [l \in LRegs |-> Value(arch_mapping[l])] = [l \in Seen!LRegs |-> 0] /\ program = << >>
    BY <2>1, <2>2 DEF DataInit, LRegs, Seen!LRegs
  <2> QED
    BY <2>3 DEF Seen!Init
<1>2. DataInv /\ [DataNext]_dfVars => [Seen!Next]_(Seen!progVars)
  BY DataStepSeen
<1> QED
  BY <1>1, <1>2, DataInvariance, PTL DEF DataSpec, ImplementsProgramOrder, Seen!Spec
=============================================================================
