--------------------------- MODULE MemOrder_proofs ---------------------------
(***************************************************************************)
(* What the memory queues keep, and that loads and stores retire as on a   *)
(* sequential memory, for queues, buffers, words and widths of any size,   *)
(* while the indices tell ages (SqIndexTellsAge) and no load retires that  *)
(* is reported (ReportedStay); and exactly when either fails (RoomBehind,  *)
(* NoRace).                                                                *)
(*                                                                         *)
(* Slots and flip bits become numbers first: an instruction's index is as  *)
(* many places behind the slot freed next as there are stores, or loads,   *)
(* in front of it (Numbered).  Counting is all that the invariant says of  *)
(* indices.  It then speaks of the program in flight: what each queue      *)
(* holds of an instruction (StoresHeld, LoadsHeld, Piped), which loads     *)
(* have been reported (Reported), what a load in s1 has found (Seen), and  *)
(* what a load that nobody reported has returned (ValuesRight).            *)
(*                                                                         *)
(* A cycle is unfolded once, into Turn: what it makes of the instruction   *)
(* that is now j-th and will be (j - CommitNum)-th.  Each part of the      *)
(* invariant is kept by a lemma of its own.                                *)
(***************************************************************************)
EXTENDS MemOrder, FiniteSetTheorems, SequenceTheorems, WellFoundedInduction, TLAPS

-----------------------------------------------------------------------------
(* Lists. *)

\* A sequence, whatever its elements are.
SeqRange(s) == {s[i] : i \in DOMAIN s}
IsList(s) == s \in Seq(SeqRange(s))

-----------------------------------------------------------------------------
(* Counting. *)

\* how many of the first k instructions of p are loads, or stores
Count(op, p, k) == Cardinality({i \in 1 .. k : p[i].op = op})

\* What is counted is finite.
LEMMA CountFinite ==
  ASSUME NEW op, NEW p, NEW k \in Nat
  PROVE  /\ IsFiniteSet({i \in 1 .. k : p[i].op = op})
         /\ Cardinality({i \in 1 .. k : p[i].op = op}) \in Nat
<1> DEFINE S == {i \in 1 .. k : p[i].op = op}
<1>1. IsFiniteSet(1 .. k) /\ S \in SUBSET (1 .. k)
  BY FS_Interval
<1>2. IsFiniteSet(S)
  BY <1>1, FS_Subset
<1> QED
  BY <1>2, FS_CardinalityType

\* A count is a number.
LEMMA CountType ==
  ASSUME NEW op, NEW p, NEW k \in Nat
  PROVE  Count(op, p, k) \in Nat
  BY CountFinite DEF Count

\* Counting goes one by one.
LEMMA CountStep ==
  ASSUME NEW op, NEW p, NEW k \in Nat
  PROVE  /\ Count(op, p, 0) = 0 /\ Count(op, p, k) \in Nat
         /\ Count(op, p, k + 1) = Count(op, p, k) + (IF p[k + 1].op = op THEN 1 ELSE 0)
<1> DEFINE S(m) == {i \in 1 .. m : p[i].op = op}
<1>1. IsFiniteSet(S(k)) /\ Cardinality(S(k)) \in Nat
  BY CountFinite
<1>2. S(0) = {}
  OBVIOUS
<1>3. S(k + 1) = IF p[k + 1].op = op THEN S(k) \union {k + 1} ELSE S(k)
  <2>1. 1 .. k + 1 = (1 .. k) \union {k + 1}
    OBVIOUS
  <2> QED
    BY <2>1
<1>4. k + 1 \notin S(k)
  OBVIOUS
<1>5. Cardinality(S(k) \union {k + 1}) = Cardinality(S(k)) + 1
  <2> HIDE DEF S
  <2> QED
    BY <1>1, <1>4, FS_AddElement
<1>6. Cardinality(S(0)) = 0
  BY <1>2, FS_EmptySet
<1>7. Count(op, p, 0) = Cardinality(S(0)) /\ Count(op, p, k) = Cardinality(S(k)) /\ Count(op, p, k + 1) = Cardinality(S(k + 1))
  BY DEF Count
<1>8. Cardinality(S(k + 1)) = IF p[k + 1].op = op THEN Cardinality(S(k)) + 1 ELSE Cardinality(S(k))
  <2> HIDE DEF S
  <2> QED
    BY <1>3, <1>5
<1> HIDE DEF S
<1>9. Cardinality(S(k + 1)) = Cardinality(S(k)) + (IF p[k + 1].op = op THEN 1 ELSE 0)
  BY <1>1, <1>8
<1> QED
  BY <1>1, <1>6, <1>7, <1>9

\* It never goes down, and no faster than the places do.
LEMMA CountUp ==
  ASSUME NEW op, NEW p, NEW k \in Nat, NEW m \in Nat, k <= m
  PROVE  /\ Count(op, p, k) \in Nat /\ Count(op, p, m) \in Nat
         /\ Count(op, p, k) <= Count(op, p, m) /\ Count(op, p, m) <= m
<1> DEFINE S == {i \in 1 .. k : p[i].op = op}
           T == {i \in 1 .. m : p[i].op = op}
<1>1. Count(op, p, k) \in Nat /\ Count(op, p, m) \in Nat /\ IsFiniteSet(T)
  BY CountType, CountFinite
<1>2. S \in SUBSET T /\ T \in SUBSET (1 .. m)
  OBVIOUS
<1>3. Cardinality(S) <= Cardinality(T)
  <2> HIDE DEF S, T
  <2> QED
    BY <1>1, <1>2, FS_Subset
<1>4. IsFiniteSet(1 .. m) /\ Cardinality(1 .. m) = m
  BY FS_Interval
<1>5. Cardinality(T) <= m
  <2>1. Cardinality(T) <= Cardinality(1 .. m)
    BY <1>2, <1>4, FS_Subset
  <2> QED
    BY <1>4, <2>1
<1> QED
  BY <1>1, <1>3, <1>5 DEF Count

\* An instruction counts behind itself.
LEMMA CountBehind ==
  ASSUME NEW op, NEW p, NEW i \in Nat \ {0}, NEW k \in Nat, i <= k, p[i].op = op
  PROVE  Count(op, p, i - 1) \in Nat /\ Count(op, p, k) \in Nat /\ Count(op, p, i - 1) < Count(op, p, k)
<1>1. i - 1 \in Nat /\ i - 1 + 1 = i /\ i \in Nat
  OBVIOUS
<1>2. Count(op, p, i - 1) \in Nat /\ Count(op, p, i) = Count(op, p, i - 1) + 1
  <2>1. Count(op, p, (i - 1) + 1) = Count(op, p, i - 1) + (IF p[(i - 1) + 1].op = op THEN 1 ELSE 0)
    BY <1>1, CountStep
  <2>2. Count(op, p, i - 1) \in Nat
    BY <1>1, CountStep
  <2> QED
    BY <1>1, <2>1, <2>2
<1>3. Count(op, p, i) <= Count(op, p, k) /\ Count(op, p, k) \in Nat
  BY <1>1, CountUp
<1> QED
  BY <1>2, <1>3

\* Behind a place the count goes on with what is there.
LEMMA CountShift ==
  ASSUME NEW op, NEW p, NEW q, NEW n \in Nat, NEW k \in Nat,
         \A i \in 1 .. k : q[i].op = p[n + i].op
  PROVE  Count(op, p, n + k) = Count(op, p, n) + Count(op, q, k)
<1> DEFINE S == {i \in 1 .. k : q[i].op = op}
           A == {i \in 1 .. n : p[i].op = op}
           B == {i \in n + 1 .. n + k : p[i].op = op}
           C == {i \in 1 .. n + k : p[i].op = op}
           h == [i \in S |-> n + i]
<1>1. n + k \in Nat
  OBVIOUS
<1>2. IsFiniteSet(S) /\ IsFiniteSet(A) /\ IsFiniteSet(C)
  <2>1. Count(op, q, k) \in Nat /\ IsFiniteSet(S)
    BY CountType, CountFinite
  <2>2. Count(op, p, n) \in Nat /\ IsFiniteSet(A)
    BY CountType, CountFinite
  <2>3. Count(op, p, n + k) \in Nat /\ IsFiniteSet(C)
    BY <1>1, CountType, CountFinite
  <2> QED
    BY <2>1, <2>2, <2>3
<1>3. C = A \union B
  <2>1. 1 .. n + k = (1 .. n) \union (n + 1 .. n + k)
    OBVIOUS
  <2> QED
    BY <2>1
<1>4. A \intersect B = {}
  OBVIOUS
<1>5. h \in Bijection(S, B)
  <2>1. \A i \in S : n + i \in B
    OBVIOUS
  <2>2. \A i, j \in S : n + i = n + j => i = j
    OBVIOUS
  <2>3. ASSUME NEW j \in B PROVE \E i \in S : n + i = j
    <3>1. j - n \in 1 .. k /\ n + (j - n) = j
      OBVIOUS
    <3>2. j - n \in S
      BY <3>1
    <3> QED
      BY <3>1, <3>2
  <2>4. h \in [S -> B] /\ \A i \in S : h[i] = n + i
    BY <2>1
  <2> HIDE DEF h, S, B
  <2>5. h \in Injection(S, B)
    BY <2>2, <2>4 DEF Injection, IsInjective
  <2>6. h \in Surjection(S, B)
    BY <2>3, <2>4 DEF Surjection
  <2> QED
    BY <2>5, <2>6 DEF Bijection
<1> HIDE DEF h, S, A, B, C
<1>6. IsFiniteSet(B) /\ Cardinality(B) = Cardinality(S)
  <2>1. ExistsBijection(S, B)
    BY <1>5 DEF ExistsBijection
  <2> QED
    BY <1>2, <2>1, FS_Bijection
<1>7. Cardinality(C) = Cardinality(A) + Cardinality(B) - Cardinality({})
  BY <1>2, <1>3, <1>4, <1>6, FS_Union
<1>8. Cardinality({}) = 0 /\ Cardinality(A) \in Nat /\ Cardinality(B) \in Nat
  BY <1>2, <1>6, FS_EmptySet, FS_CardinalityType
<1>9. Cardinality(C) = Cardinality(A) + Cardinality(S)
  BY <1>6, <1>7, <1>8
<1> QED
  BY <1>9 DEF Count, S, A, C

\* what q has from its start is of the kinds that p has behind place n
Alike(q, p, n, k) == \A i \in 1 .. k : q[i].op = p[n + i].op

\* Counting in p behind place n is counting in q.
LEMMA CountMoved ==
  ASSUME NEW op, NEW p, NEW q, NEW n \in Nat, NEW k \in Nat, Alike(q, p, n, k)
  PROVE  Count(op, p, n + k) = Count(op, p, n) + Count(op, q, k)
<1>1. PICK c \in Nat : c = Count(op, p, n)
  BY CountType
<1>2. PICK j \in 0 .. k : j = k
  OBVIOUS
<1>3. (\A i \in 1 .. j : q[i].op = p[n + i].op) => Count(op, p, n + j) = Count(op, p, n) + Count(op, q, j)
  BY <1>1, CountShift, SMTT(60)
<1> QED
  BY <1>2, <1>3 DEF Alike

\* What is no load is a store.
LEMMA CountBoth ==
  ASSUME NEW p, NEW k \in Nat, \A i \in 1 .. k : p[i].op \in {"load", "store"}
  PROVE  Count("load", p, k) + Count("store", p, k) = k
<1> DEFINE A == {i \in 1 .. k : p[i].op = "load"}
           B == {i \in 1 .. k : p[i].op = "store"}
<1>1. IsFiniteSet(A) /\ IsFiniteSet(B)
  BY CountFinite
<1>2. A \union B = 1 .. k /\ A \intersect B = {}
  OBVIOUS
<1> HIDE DEF A, B
<1>3. Cardinality(1 .. k) = Cardinality(A) + Cardinality(B) - Cardinality({})
  BY <1>1, <1>2, FS_Union
<1>4. Cardinality({}) = 0 /\ Cardinality(A) \in Nat /\ Cardinality(B) \in Nat
  BY <1>1, FS_EmptySet, FS_CardinalityType
<1>5. Cardinality(1 .. k) = k
  BY FS_Interval
<1>6. Cardinality(A) + Cardinality(B) = k
  BY <1>3, <1>4, <1>5
<1> QED
  BY <1>6 DEF Count, A, B

-----------------------------------------------------------------------------
(* Indices. *)

\* the index of slot deq, with flip bit f
From(deq, f) == [idx |-> deq, flipped |-> f]

Indices(size) == [idx : 0 .. size - 1, flipped : BOOLEAN]

\* An index moves on within the ring.
LEMMA IndexType ==
  ASSUME NEW size \in Nat, NEW a \in Indices(size), NEW n \in 0 .. size
  PROVE  /\ Index(a, n, size) \in Indices(size) /\ Index(a, n, size).idx = Wrap(a.idx + n, size)
         /\ Wrap(a.idx + n, size) \in 0 .. size - 1
<1>1. a.idx \in 0 .. size - 1 /\ a.flipped \in BOOLEAN
  BY DEF Indices
<1>2. Wrap(a.idx + n, size) \in 0 .. size - 1
  BY <1>1 DEF Wrap
<1>3. PICK f \in BOOLEAN : f = IF a.idx + n < size THEN a.flipped ELSE ~a.flipped
  BY <1>1
<1>4. Index(a, n, size) = [idx |-> Wrap(a.idx + n, size), flipped |-> f]
  BY <1>3 DEF Index
<1> QED
  BY <1>2, <1>4 DEF Indices

\* Two moves are one, up to one turn.
LEMMA IndexAdd ==
  ASSUME NEW size \in Nat, NEW a \in Indices(size), NEW m \in Nat, NEW n \in Nat, m + n <= size
  PROVE  Index(Index(a, m, size), n, size) = Index(a, m + n, size)
<1>1. a.idx \in 0 .. size - 1 /\ a.flipped \in BOOLEAN
  BY DEF Indices
<1>2. PICK x \in 0 .. size - 1 : x = a.idx
  BY <1>1
<1>3. /\ Index(a, m, size) = [idx |-> Wrap(x + m, size), flipped |-> IF x + m < size THEN a.flipped ELSE ~a.flipped]
      /\ Index(a, m + n, size) = [idx |-> Wrap(x + (m + n), size),
                                  flipped |-> IF x + (m + n) < size THEN a.flipped ELSE ~a.flipped]
  BY <1>2 DEF Index
<1>4. Index(Index(a, m, size), n, size)
        = [idx |-> Wrap(Wrap(x + m, size) + n, size),
           flipped |-> IF Wrap(x + m, size) + n < size
                       THEN IF x + m < size THEN a.flipped ELSE ~a.flipped
                       ELSE ~(IF x + m < size THEN a.flipped ELSE ~a.flipped)]
  BY <1>3 DEF Index
<1>5. Wrap(Wrap(x + m, size) + n, size) = Wrap(x + (m + n), size)
  BY DEF Wrap
<1>6. CASE x + m < size
  <2>1. Wrap(x + m, size) = x + m /\ x + m + n = x + (m + n)
    BY <1>6 DEF Wrap
  <2> QED
    BY <1>3, <1>4, <1>5, <1>6, <2>1
<1>7. CASE ~(x + m < size)
  <2>1. Wrap(x + m, size) + n < size /\ ~(x + (m + n) < size)
    BY <1>7 DEF Wrap
  <2> QED
    BY <1>3, <1>4, <1>5, <1>7, <2>1
<1> QED
  BY <1>6, <1>7

\* Less than a turn apart, the older index is the one with the smaller distance.
LEMMA IndexOrder ==
  ASSUME NEW size \in Nat, NEW a \in Indices(size), NEW m \in 0 .. size, NEW n \in 0 .. size,
         m - n < size, n - m < size
  PROVE  OlderThan(Index(a, m, size), Index(a, n, size)) <=> m < n
<1>1. a.idx \in 0 .. size - 1 /\ a.flipped \in BOOLEAN
  BY DEF Indices
<1>2. PICK x \in 0 .. size - 1 : x = a.idx
  BY <1>1
<1>3. /\ Index(a, m, size) = [idx |-> IF x + m < size THEN x + m ELSE x + m - size,
                              flipped |-> IF x + m < size THEN a.flipped ELSE ~a.flipped]
      /\ Index(a, n, size) = [idx |-> IF x + n < size THEN x + n ELSE x + n - size,
                              flipped |-> IF x + n < size THEN a.flipped ELSE ~a.flipped]
  BY <1>2 DEF Index, Wrap
<1>4. CASE x + m < size /\ x + n < size
  BY <1>2, <1>3, <1>4 DEF OlderThan
<1>5. CASE x + m < size /\ ~(x + n < size)
  BY <1>1, <1>2, <1>3, <1>5 DEF OlderThan
<1>6. CASE ~(x + m < size) /\ x + n < size
  BY <1>1, <1>2, <1>3, <1>6 DEF OlderThan
<1>7. CASE ~(x + m < size) /\ ~(x + n < size)
  BY <1>1, <1>2, <1>3, <1>7 DEF OlderThan
<1> QED
  BY <1>4, <1>5, <1>6, <1>7

\* Within a turn no slot comes twice.
LEMMA WrapApart ==
  ASSUME NEW size \in Nat, NEW d \in 0 .. size - 1, NEW m \in 0 .. size - 1, NEW n \in 0 .. size - 1,
         Wrap(d + m, size) = Wrap(d + n, size)
  PROVE  m = n
  BY DEF Wrap

-----------------------------------------------------------------------------
(* The numbering of a queue. *)

\* The l instructions of p have the indices ix: each as many places behind slot
\* deq as there are of its kind in front of it; num of them, head is the next index.
Numbered(op, p, l, ix, size, head, num, deq, f) ==
  /\ num = Count(op, p, l) /\ num <= size
  /\ deq \in 0 .. size - 1 /\ f \in BOOLEAN
  /\ head = Index(From(deq, f), num, size)
  /\ \A i \in 1 .. l : ix[i] = Index(From(deq, f), Count(op, p, i - 1), size)

\* q, with the indices jx, is what is left of p when the first n of l instructions
\* go and the m of g come: c of the kind leave and d enter.
Shifted(op, p, ix, size, head, l, n, k, m, g, q, jx, c, d) ==
  /\ n \in Nat /\ k \in Nat /\ m \in Nat /\ l = n + k
  /\ c \in Nat /\ d \in Nat /\ c = Count(op, p, n) /\ d = Count(op, g, m)
  /\ \A i \in 1 .. k : q[i].op = p[n + i].op /\ jx[i] = ix[n + i]
  /\ \A i \in 1 .. m : q[k + i].op = g[i].op /\ jx[k + i] = Index(head, Count(op, g, i - 1), size)

\* The numbering stays right then.
LEMMA NumberedStep ==
  ASSUME NEW op, NEW p, NEW ix, NEW size \in Nat, NEW head, NEW num, NEW deq, NEW f, NEW l,
         Numbered(op, p, l, ix, size, head, num, deq, f),
         NEW n \in Nat, NEW k \in Nat, NEW m \in Nat, NEW g, NEW q, NEW jx, NEW c \in Nat, NEW d \in Nat,
         Shifted(op, p, ix, size, head, l, n, k, m, g, q, jx, c, d),
         num + d <= size
  PROVE  \E e \in BOOLEAN :
           Numbered(op, q, k + m, jx, size, Index(head, d, size), num + d - c, Wrap(deq + c, size), e)
<1>a. /\ n \in Nat /\ k \in Nat /\ m \in Nat /\ c \in Nat /\ d \in Nat
      /\ l = n + k /\ c = Count(op, p, n) /\ d = Count(op, g, m)
  BY DEF Shifted
<1>b. /\ \A i \in 1 .. k : q[i].op = p[n + i].op /\ jx[i] = ix[n + i]
      /\ \A i \in 1 .. m : q[k + i].op = g[i].op /\ jx[k + i] = Index(head, Count(op, g, i - 1), size)
  BY DEF Shifted
<1>c. Numbered(op, p, n + k, ix, size, head, num, deq, f)
  BY <1>a
<1>1. PICK a \in Nat : a = Count(op, q, k)
  BY <1>a, <1>b, <1>c, CountStep
<1>2. \A i \in 0 .. k : Count(op, q, i) \in Nat /\ Count(op, p, n + i) = c + Count(op, q, i)
  <2> TAKE i \in 0 .. k
  <2>1. \A j \in 1 .. i : q[j].op = p[n + j].op
    BY <1>a, <1>b
  <2>2. i \in Nat
    BY <1>a, <1>b
  <2>3. Count(op, q, i) \in Nat
    BY <2>2, CountStep
  <2>4. Count(op, p, n + i) = Count(op, p, n) + Count(op, q, i)
    <3>1. \A w \in Nat : (\A j \in 1 .. w : q[j].op = p[n + j].op) =>
            Count(op, p, n + w) = Count(op, p, n) + Count(op, q, w)
      BY CountShift
    <3> QED
      BY <1>a, <1>b, <1>c, <2>1, <2>2, <3>1
  <2> QED
    BY <1>a, <1>b, <1>c, <2>3, <2>4
<1>3. \A i \in 0 .. m : Count(op, g, i) \in Nat /\ Count(op, q, k + i) = a + Count(op, g, i)
  <2> TAKE i \in 0 .. m
  <2>1. \A j \in 1 .. i : g[j].op = q[k + j].op
    BY <1>a, <1>b
  <2>2. i \in Nat
    BY <1>a, <1>b
  <2>3. Count(op, g, i) \in Nat
    BY <2>2, CountStep
  <2>4. Count(op, q, k + i) = Count(op, q, k) + Count(op, g, i)
    <3>1. \A w \in Nat : (\A j \in 1 .. w : g[j].op = q[k + j].op) =>
            Count(op, q, k + w) = Count(op, q, k) + Count(op, g, w)
      BY CountShift
    <3> QED
      BY <2>1, <2>2, <3>1
  <2> QED
    BY <1>a, <1>b, <1>c, <1>1, <2>3, <2>4
<1>4. num = c + a /\ num \in Nat /\ num <= size
  <2>1. Count(op, p, n + k) = c + Count(op, q, k)
    BY <1>a, <1>b, <1>c, <1>2
  <2>2. num = Count(op, p, n + k) /\ num <= size
    BY <1>a, <1>b, <1>c DEF Numbered
  <2> QED
    BY ONLY <1>a, <1>1, <2>1, <2>2
<1>5. \A i \in 0 .. k : Count(op, q, i) <= a
  <2> TAKE i \in 0 .. k
  <2>1. i \in Nat /\ i <= k
    BY <1>a, <1>b
  <2> QED
    BY <1>a, <1>b, <1>c, <1>1, <2>1, CountUp
<1>6. \A i \in 0 .. m : Count(op, g, i) <= d
  <2> TAKE i \in 0 .. m
  <2>1. i \in Nat /\ i <= m
    BY <1>a, <1>b
  <2> QED
    BY <1>a, <1>b, <1>c, <2>1, CountUp
<1>7. PICK b : b = From(deq, f)
  BY <1>a, <1>b
<1>8. b \in Indices(size) /\ b.idx = deq /\ deq \in 0 .. size - 1
  BY <1>a, <1>b, <1>c, <1>7 DEF Numbered, From, Indices
<1>9. PICK e : e = Index(b, c, size)
  BY <1>a, <1>b
<1>10. c \in 0 .. size
  BY ONLY <1>a, <1>1, <1>4, size \in Nat
<1>11. e \in Indices(size) /\ e = From(Wrap(deq + c, size), e.flipped)
  <2>1. e \in Indices(size) /\ e.idx = Wrap(b.idx + c, size)
    BY ONLY <1>8, <1>9, <1>10, size \in Nat, IndexType
  <2> QED
    BY ONLY <1>8, <2>1 DEF Indices, From
<1>12. head = Index(b, num, size) /\ \A i \in 1 .. n + k : ix[i] = Index(b, Count(op, p, i - 1), size)
  BY <1>a, <1>b, <1>c, <1>7 DEF Numbered
<1>13. \A x \in Nat : c + x <= size => Index(e, x, size) = Index(b, c + x, size)
  BY ONLY <1>a, <1>8, <1>9, IndexAdd, size \in Nat
<1>14. \A x \in Nat : num + x <= size => Index(head, x, size) = Index(b, num + x, size)
  BY ONLY <1>4, <1>8, <1>12, IndexAdd, size \in Nat
<1>15. /\ num + d - c = a + d /\ num + d = c + (a + d)
       /\ a + d \in Nat /\ c + (a + d) <= size /\ a + d <= size
  BY ONLY <1>a, <1>1, <1>4, size \in Nat, num + d <= size
<1>16. Index(head, d, size) = Index(e, a + d, size)
  <2>1. Index(e, a + d, size) = Index(b, c + (a + d), size)
    BY <1>a, <1>b, <1>c, <1>13, <1>15
  <2>2. Index(head, d, size) = Index(b, num + d, size)
    BY <1>a, <1>b, <1>c, <1>14
  <2> QED
    BY <1>a, <1>b, <1>c, <1>15, <2>1, <2>2
<1>17. a + d = Count(op, q, k + m)
  <2>1. Count(op, q, k + m) = a + Count(op, g, m)
    BY <1>a, <1>b, <1>c, <1>3
  <2> QED
    BY <1>a, <1>b, <1>c, <2>1
<1>18. ASSUME NEW i \in 1 .. k PROVE jx[i] = Index(e, Count(op, q, i - 1), size)
  <2>1. i - 1 \in 0 .. k /\ n + i \in 1 .. n + k /\ n + i - 1 = n + (i - 1)
    BY <1>a, <1>b
  <2>2. PICK x \in Nat : x = Count(op, q, i - 1)
    BY <1>a, <1>b, <1>c, <1>2, <2>1
  <2>3. x <= a /\ Count(op, p, n + (i - 1)) = c + x
    BY <1>a, <1>b, <1>c, <1>2, <1>5, <2>1, <2>2
  <2>4. jx[i] = Index(b, c + x, size)
    <3>1. jx[i] = ix[n + i]
      BY <1>a, <1>b
    <3>2. ix[n + i] = Index(b, Count(op, p, n + i - 1), size)
      BY <1>a, <1>b, <1>c, <1>12, <2>1
    <3> QED
      BY <1>a, <1>b, <1>c, <2>1, <2>3, <3>1, <3>2
  <2>5. c + x <= size
    BY ONLY <1>a, <1>1, <1>4, <2>2, <2>3, size \in Nat
  <2> QED
    BY <1>a, <1>b, <1>c, <1>13, <2>2, <2>4, <2>5
<1>19. ASSUME NEW j \in 1 .. m PROVE jx[k + j] = Index(e, Count(op, q, k + j - 1), size)
  <2>1. j - 1 \in 0 .. m /\ k + j - 1 = k + (j - 1)
    BY <1>a, <1>b
  <2>2. PICK x \in Nat : x = Count(op, g, j - 1)
    BY <1>a, <1>b, <1>c, <1>3, <2>1
  <2>3. Count(op, q, k + (j - 1)) = a + x /\ x <= d
    BY <1>a, <1>b, <1>c, <1>3, <1>6, <2>1, <2>2
  <2>4. jx[k + j] = Index(head, x, size)
    BY <1>a, <1>b, <1>c, <2>2
  <2>5. num + x <= size /\ num + x = c + (a + x) /\ a + x \in Nat
    BY ONLY <1>a, <1>1, <1>4, <2>2, <2>3, size \in Nat, num + d <= size
  <2>6. Index(head, x, size) = Index(b, num + x, size)
    BY <1>a, <1>b, <1>c, <1>14, <2>5
  <2>7. Index(e, a + x, size) = Index(b, c + (a + x), size)
    BY <1>a, <1>b, <1>c, <1>13, <2>5
  <2> QED
    BY <1>a, <1>b, <1>c, <2>1, <2>3, <2>4, <2>5, <2>6, <2>7
<1>20. \A i \in 1 .. k + m : jx[i] = Index(e, Count(op, q, i - 1), size)
  <2> TAKE i \in 1 .. k + m
  <2>1. CASE i <= k
    BY <1>a, <1>b, <1>c, <1>18, <2>1
  <2>2. CASE ~(i <= k)
    <3>1. i - k \in 1 .. m /\ k + (i - k) = i
      BY <1>a, <1>b, <1>c, <2>2
    <3>2. PICK j \in 1 .. m : k + j = i
      BY <1>a, <1>b, <1>c, <3>1
    <3>3. jx[k + j] = Index(e, Count(op, q, k + j - 1), size) /\ k + j - 1 = i - 1
      BY <1>a, <1>b, <1>c, <1>19, <3>2
    <3> QED
      BY <1>a, <1>b, <1>c, <3>2, <3>3
  <2> QED
    BY <1>a, <1>b, <1>c, <2>1, <2>2
<1>21. Wrap(deq + c, size) \in 0 .. size - 1 /\ e.flipped \in BOOLEAN
  <2>1. Wrap(b.idx + c, size) \in 0 .. size - 1
    BY ONLY <1>8, <1>10, size \in Nat, IndexType
  <2> QED
    BY <1>a, <1>b, <1>c, <1>8, <1>11, <2>1 DEF Indices
<1>22. Numbered(op, q, k + m, jx, size, Index(head, d, size), a + d, Wrap(deq + c, size), e.flipped)
  BY <1>a, <1>b, <1>c, <1>11, <1>15, <1>16, <1>17, <1>20, <1>21 DEF Numbered
<1> QED
  BY <1>a, <1>b, <1>c, <1>15, <1>21, <1>22

\* Each index is in the ring, a kind's own less than num from its start.
LEMMA NumberedPlace ==
  ASSUME NEW op, NEW p, NEW ix, NEW size \in Nat, NEW head, NEW num, NEW deq, NEW f,
         NEW l \in Nat, Numbered(op, p, l, ix, size, head, num, deq, f), NEW i \in 1 .. l
  PROVE  /\ num \in 0 .. size /\ deq \in 0 .. size - 1
         /\ ix[i] \in Indices(size) /\ Count(op, p, i - 1) \in 0 .. num
         /\ ix[i].idx = Wrap(deq + Count(op, p, i - 1), size)
         /\ p[i].op = op => Count(op, p, i - 1) < num
<1>1. /\ num = Count(op, p, l) /\ num \in Nat /\ num <= size
      /\ deq \in 0 .. size - 1 /\ From(deq, f) \in Indices(size) /\ From(deq, f).idx = deq
  BY CountStep DEF Numbered, From, Indices
<1>2. i - 1 \in Nat /\ i - 1 <= l /\ i \in Nat \ {0} /\ i <= l
  OBVIOUS
<1>3. Count(op, p, i - 1) \in Nat /\ Count(op, p, i - 1) <= num
  BY <1>1, <1>2, CountUp
<1>4. p[i].op = op => Count(op, p, i - 1) < num
  BY <1>1, <1>2, CountBehind
<1>5. ix[i] = Index(From(deq, f), Count(op, p, i - 1), size)
  BY DEF Numbered
<1>6. Count(op, p, i - 1) \in 0 .. size
  BY <1>1, <1>3
<1>7. ix[i] \in Indices(size) /\ ix[i].idx = Wrap(deq + Count(op, p, i - 1), size)
  BY <1>1, <1>5, <1>6, IndexType, ZenonT(60)
<1> QED
  BY <1>1, <1>3, <1>4, <1>7

\* Two places of a kind have different slots.
LEMMA NumberedApart ==
  ASSUME NEW op, NEW p, NEW ix, NEW size \in Nat, NEW head, NEW num, NEW deq, NEW f,
         NEW l \in Nat, Numbered(op, p, l, ix, size, head, num, deq, f)
  PROVE  \A i, j \in 1 .. l : p[i].op = op /\ p[j].op = op /\ ix[i].idx = ix[j].idx => i = j
<1>1. ASSUME NEW i \in 1 .. l, NEW j \in 1 .. l, p[i].op = op, i < j
      PROVE  Count(op, p, i - 1) < Count(op, p, j - 1)
  <2>1. i \in Nat \ {0} /\ j - 1 \in Nat /\ i <= j - 1
    BY <1>1
  <2> QED
    BY <1>1, <2>1, CountBehind
<1>0. \A i \in 1 .. l :
        /\ num \in 0 .. size /\ deq \in 0 .. size - 1 /\ Count(op, p, i - 1) \in 0 .. num
        /\ ix[i].idx = Wrap(deq + Count(op, p, i - 1), size)
        /\ p[i].op = op => Count(op, p, i - 1) < num
  BY NumberedPlace
<1>2. ASSUME NEW i \in 1 .. l, NEW j \in 1 .. l, p[i].op = op, p[j].op = op,
             ix[i].idx = ix[j].idx
      PROVE  i = j
  <2>1. /\ Count(op, p, i - 1) \in 0 .. num /\ Count(op, p, i - 1) < num
        /\ ix[i].idx = Wrap(deq + Count(op, p, i - 1), size)
        /\ num \in 0 .. size /\ deq \in 0 .. size - 1
    BY <1>0, <1>2
  <2>2. /\ Count(op, p, j - 1) \in 0 .. num /\ Count(op, p, j - 1) < num
        /\ ix[j].idx = Wrap(deq + Count(op, p, j - 1), size)
    BY <1>0, <1>2
  <2>3. Count(op, p, i - 1) \in 0 .. size - 1 /\ Count(op, p, j - 1) \in 0 .. size - 1
    BY ONLY <2>1, <2>2, size \in Nat
  <2>4. Count(op, p, i - 1) = Count(op, p, j - 1)
    BY <1>2, <2>1, <2>2, <2>3, WrapApart
  <2>5. ~(i < j) /\ ~(j < i)
    BY <1>1, <1>2, <2>3, <2>4
  <2> QED
    BY <2>5
<1> QED
  BY <1>2

\* The next index is num further than the first.
LEMMA NumberedHead ==
  ASSUME NEW op, NEW p, NEW ix, NEW size \in Nat, NEW head, NEW num, NEW deq, NEW f,
         NEW l \in Nat, Numbered(op, p, l, ix, size, head, num, deq, f)
  PROVE  /\ num = Count(op, p, l) /\ num \in 0 .. size /\ deq \in 0 .. size - 1
         /\ head \in Indices(size) /\ head.idx = Wrap(deq + num, size)
<1>1. /\ num = Count(op, p, l) /\ num \in Nat /\ num <= size
      /\ deq \in 0 .. size - 1 /\ From(deq, f) \in Indices(size) /\ From(deq, f).idx = deq
  BY CountStep DEF Numbered, From, Indices
<1>2. num \in 0 .. size /\ head = Index(From(deq, f), num, size)
  BY <1>1 DEF Numbered
<1>3. head \in Indices(size) /\ head.idx = Wrap(deq + num, size)
  BY <1>1, <1>2, IndexType
<1> QED
  BY <1>1, <1>2, <1>3

-----------------------------------------------------------------------------
(* More about lists. *)

\* What is a function from 1 .. n is a list.
LEMMA ListDef ==
  ASSUME NEW s
  PROVE  /\ IsList(s) <=> \E n \in Nat : s = [i \in 1 .. n |-> s[i]]
         /\ IsList(s) => Len(s) \in Nat /\ DOMAIN s = 1 .. Len(s) /\ s = [i \in 1 .. Len(s) |-> s[i]]
<1>1. ASSUME IsList(s)
      PROVE  Len(s) \in Nat /\ DOMAIN s = 1 .. Len(s) /\ s = [i \in 1 .. Len(s) |-> s[i]]
  <2>1. s \in Seq(SeqRange(s))
    BY <1>1 DEF IsList
  <2>2. Len(s) \in Nat /\ s \in [1 .. Len(s) -> SeqRange(s)]
    BY <2>1, LenProperties
  <2> QED
    BY <2>2
<1>2. ASSUME NEW n \in Nat, s = [i \in 1 .. n |-> s[i]] PROVE IsList(s)
  <2>1. DOMAIN s = 1 .. n
    BY <1>2
  <2>2. \A i \in 1 .. n : s[i] \in SeqRange(s)
    BY <2>1 DEF SeqRange
  <2>3. s \in [1 .. n -> SeqRange(s)]
    BY <1>2, <2>2
  <2> QED
    BY <2>3 DEF IsList
<1> QED
  BY <1>1, <1>2

\* A list given by its elements.
LEMMA NewList ==
  ASSUME NEW n \in Nat, NEW s, DOMAIN s = 1 .. n, s = [i \in 1 .. n |-> s[i]]
  PROVE  IsList(s) /\ Len(s) = n
<1>1. IsList(s)
  BY ListDef
<1>2. Len(s) \in Nat /\ 1 .. Len(s) = 1 .. n
  BY <1>1, ListDef
<1>3. Len(s) = n
  <2>1. ~(Len(s) < n)
    <3>1. ASSUME Len(s) < n PROVE FALSE
      <4>1. n \in 1 .. n /\ n \notin 1 .. Len(s)
        BY <1>2, <3>1
      <4> QED
        BY <1>2, <4>1
    <3> QED
      BY <3>1
  <2>2. ~(n < Len(s))
    <3>1. ASSUME n < Len(s) PROVE FALSE
      <4>1. Len(s) \in 1 .. Len(s) /\ Len(s) \notin 1 .. n
        BY <1>2, <3>1
      <4> QED
        BY <1>2, <4>1
    <3> QED
      BY <3>1
  <2> QED
    BY <1>2, <2>1, <2>2
<1> QED
  BY <1>1, <1>3

\* Two lists joined.
LEMMA JoinedList ==
  ASSUME NEW s, NEW t, IsList(s), IsList(t)
  PROVE  /\ IsList(s \o t)
         /\ Len(s \o t) = Len(s) + Len(t)
         /\ \A i \in 1 .. Len(s) : (s \o t)[i] = s[i]
         /\ \A i \in 1 .. Len(t) : (s \o t)[Len(s) + i] = t[i]
<1> DEFINE S == SeqRange(s) \union SeqRange(t)
<1>1. s \in Seq(S) /\ t \in Seq(S)
  <2>1. Len(s) \in Nat /\ s \in [1 .. Len(s) -> S]
    BY ListDef DEF SeqRange
  <2>2. Len(t) \in Nat /\ t \in [1 .. Len(t) -> S]
    BY ListDef DEF SeqRange
  <2> QED
    BY <2>1, <2>2
<1> HIDE DEF S
<1>2. Len(s) \in Nat /\ Len(t) \in Nat
  BY <1>1, LenProperties
<1>3. /\ s \o t \in Seq(S)
      /\ Len(s \o t) = Len(s) + Len(t)
      /\ \A i \in 1 .. Len(s) + Len(t) : (s \o t)[i] = IF i <= Len(s) THEN s[i] ELSE t[i - Len(s)]
  BY <1>1, ConcatProperties
<1>4. \A i \in 1 .. Len(s) : (s \o t)[i] = s[i]
  BY <1>2, <1>3
<1>5. ASSUME NEW i \in 1 .. Len(t) PROVE (s \o t)[Len(s) + i] = t[i]
  <2>1. PICK j \in 1 .. Len(s) + Len(t) : j = Len(s) + i
    BY <1>2
  <2>2. ~(j <= Len(s)) /\ j - Len(s) = i
    BY <1>2, <2>1
  <2> QED
    BY <1>3, <2>1, <2>2
<1>6. IsList(s \o t)
  <2>1. Len(s \o t) \in Nat /\ s \o t \in [1 .. Len(s \o t) -> S]
    BY <1>3, LenProperties
  <2> QED
    BY <2>1, ListDef
<1> QED
  BY <1>3, <1>4, <1>5, <1>6

-----------------------------------------------------------------------------
(* The invariant of the queues. *)

\* an instruction in flight, whatever a load returned
IsEntry(r) ==
  r \in [inst : Insts, lq : LqIndices, sq : SqIndices, fin : BOOLEAN, val : {r.val}]

Typed ==
  /\ IsList(rob) /\ Len(rob) <= ROB_SIZE
  /\ \A i \in DOMAIN rob : IsEntry(rob[i])
  /\ finish_ptr \in SqSlots
  /\ \A s \in SqSlots : /\ sq[s].addr_vld \in BOOLEAN /\ sq[s].data_vld \in BOOLEAN
                        /\ sq[s].mask \subseteq Bytes /\ sq[s].sqIdx \in SqIndices
  /\ \A l \in LqSlots : lq[l].vld \in BOOLEAN /\ lq[l].mask \subseteq Bytes /\ lq[l].sqIdx \in SqIndices

\* The indices of the instructions in flight count the stores, and the loads,
\* from the slot that is the next to be freed.
SqOf == [i \in DOMAIN rob |-> rob[i].sq]
LqOf == [i \in DOMAIN rob |-> rob[i].lq]
Numbering ==
  /\ \E f \in BOOLEAN : Numbered("store", Program, Len(rob), SqOf, SQSIZE, sqhead, stNum, st_deq_ptr, f)
  /\ \E f \in BOOLEAN : Numbered("load", Program, Len(rob), LqOf, LQSIZE, lqhead, ldNum, ld_deq_ptr, f)

Executed(i) == rob[i].val # NotExecuted

\* The store queue holds what the stores in flight have given it.
StoreHeld(j) ==
  /\ sq[rob[j].sq.idx].addr_vld =>
       sq[rob[j].sq.idx].mask = rob[j].inst.mask /\ sq[rob[j].sq.idx].sqIdx = rob[j].sq
  /\ sq[rob[j].sq.idx].data_vld => sq[rob[j].sq.idx].data = rob[j].inst.data
  /\ rob[j].fin => sq[rob[j].sq.idx].addr_vld /\ sq[rob[j].sq.idx].data_vld
  /\ ~Executed(j)
StoresHeld ==
  /\ \A s \in SqSlots : sq[s].addr_vld \/ sq[s].data_vld => s \in Stores
  /\ \A j \in DOMAIN rob : IsStore(j) => StoreHeld(j)

\* The load queue holds the loads that have executed.
LoadHeld(i) ==
  /\ lq[rob[i].lq.idx].vld <=> Executed(i)
  /\ Executed(i) =>
       lq[rob[i].lq.idx].mask = rob[i].inst.mask /\ lq[rob[i].lq.idx].sqIdx = rob[i].sq
  /\ rob[i].fin => Executed(i)
LoadsHeld ==
  /\ \A l \in LqSlots : lq[l].vld => l \in Loads
  /\ \A i \in DOMAIN rob : IsLoad(i) => LoadHeld(i)

\* What is in the load pipeline is in flight and not finished; behind s1 it has
\* executed.
Piped ==
  /\ \A r \in s1 : /\ r.lq \in Loads /\ ~Executed(LoadAt(r.lq))
                   /\ DOMAIN r.bytes = rob[LoadAt(r.lq)].inst.mask
                   /\ \A q \in s1 : q.lq = r.lq => q = r
  /\ \A l \in s2 \union s3 : l \in Loads /\ Executed(LoadAt(l)) /\ ~rob[LoadAt(l)].fin
  /\ s2 \intersect s3 = {}

QueueInv == Typed /\ Numbering /\ StoresHeld /\ LoadsHeld /\ Piped

-----------------------------------------------------------------------------
(* One state. *)

\* A set of naturals that is not empty has a least element.
LEMMA LeastElement ==
  ASSUME NEW T \in SUBSET Nat, T # {}
  PROVE  \E m \in T : \A k \in T : m <= k
<1> DEFINE R == {ss \in Nat \X Nat : ss[1] < ss[2]}
<1>1. IsWellFoundedOn(R, Nat)
  BY NatLessThanWellFounded DEF OpToRel
<1>2. PICK m \in T : \A k \in T : <<k, m>> \notin R
  BY <1>1, WFMin, Zenon
<1>3. ASSUME NEW k \in T PROVE m <= k
  <2>1. k \in Nat /\ m \in Nat
    OBVIOUS
  <2>2. ~(k < m)
    BY <1>2, <2>1
  <2> QED
    BY <2>1, <2>2
<1> QED
  BY <1>3

\* The instructions in flight.
LEMMA RobFacts ==
  ASSUME Typed
  PROVE  /\ Len(rob) \in Nat /\ DOMAIN rob = 1 .. Len(rob)
         /\ \A i \in 1 .. Len(rob) :
              /\ Program[i] = rob[i].inst /\ SqOf[i] = rob[i].sq /\ LqOf[i] = rob[i].lq
              /\ rob[i].inst \in Insts /\ rob[i].inst.op \in {"load", "store"}
              /\ rob[i].inst.mask \subseteq Bytes /\ rob[i].inst.mask # {}
              /\ rob[i].lq \in LqIndices /\ rob[i].sq \in SqIndices /\ rob[i].fin \in BOOLEAN
              /\ rob[i].lq.idx \in LqSlots /\ rob[i].sq.idx \in SqSlots
              /\ IsStore(i) <=> ~IsLoad(i)
<1>1. Len(rob) \in Nat /\ DOMAIN rob = 1 .. Len(rob)
  BY ListDef DEF Typed
<1>2. ASSUME NEW i \in 1 .. Len(rob)
      PROVE  /\ rob[i].inst \in Insts /\ rob[i].lq \in LqIndices /\ rob[i].sq \in SqIndices
             /\ rob[i].fin \in BOOLEAN
  BY <1>1 DEF Typed, IsEntry
<1>3. ASSUME NEW i \in 1 .. Len(rob)
      PROVE  /\ Program[i] = rob[i].inst /\ SqOf[i] = rob[i].sq /\ LqOf[i] = rob[i].lq
  BY <1>1 DEF Program, SqOf, LqOf
<1>4. ASSUME NEW i \in 1 .. Len(rob)
      PROVE  /\ rob[i].inst.op \in {"load", "store"}
             /\ rob[i].inst.mask \subseteq Bytes /\ rob[i].inst.mask # {}
  BY <1>2, InstsAssumption
<1>5. ASSUME NEW i \in 1 .. Len(rob)
      PROVE  rob[i].lq.idx \in LqSlots /\ rob[i].sq.idx \in SqSlots
  BY <1>2 DEF LqIndices, SqIndices
<1>6. ASSUME NEW i \in 1 .. Len(rob) PROVE IsStore(i) <=> ~IsLoad(i)
  BY <1>4 DEF IsStore, IsLoad
<1> QED
  BY <1>1, <1>2, <1>3, <1>4, <1>5, <1>6

\* Every store in flight has a slot of its own, and every load.
LEMMA SlotFacts ==
  ASSUME Typed, Numbering
  PROVE  /\ \A i \in 1 .. Len(rob) : IsStore(i) => rob[i].sq.idx \in Stores /\ StoreAt(rob[i].sq.idx) = i
         /\ \A s \in Stores : /\ s \in SqSlots /\ StoreAt(s) \in 1 .. Len(rob)
                              /\ IsStore(StoreAt(s)) /\ rob[StoreAt(s)].sq.idx = s
         /\ \A i \in 1 .. Len(rob) : IsLoad(i) => rob[i].lq.idx \in Loads /\ LoadAt(rob[i].lq.idx) = i
         /\ \A l \in Loads : /\ l \in LqSlots /\ LoadAt(l) \in 1 .. Len(rob)
                             /\ IsLoad(LoadAt(l)) /\ rob[LoadAt(l)].lq.idx = l
<1>1. Len(rob) \in Nat /\ DOMAIN rob = 1 .. Len(rob) /\ SQSIZE \in Nat /\ LQSIZE \in Nat
  BY RobFacts, QueuesAssumption
<1>2. ASSUME NEW i \in 1 .. Len(rob), NEW j \in 1 .. Len(rob), IsStore(i), IsStore(j),
             rob[i].sq.idx = rob[j].sq.idx
      PROVE  i = j
  <2>1. Program[i].op = "store" /\ Program[j].op = "store" /\ SqOf[i].idx = SqOf[j].idx
    BY <1>2, RobFacts DEF IsStore
  <2>2. PICK f : Numbered("store", Program, Len(rob), SqOf, SQSIZE, sqhead, stNum, st_deq_ptr, f)
    BY DEF Numbering
  <2>3. \A a, b \in 1 .. Len(rob) :
          Program[a].op = "store" /\ Program[b].op = "store" /\ SqOf[a].idx = SqOf[b].idx => a = b
    BY ONLY <1>1, <2>2, NumberedApart
  <2> QED
    BY <2>1, <2>3
<1>3. ASSUME NEW i \in 1 .. Len(rob), NEW j \in 1 .. Len(rob), IsLoad(i), IsLoad(j),
             rob[i].lq.idx = rob[j].lq.idx
      PROVE  i = j
  <2>1. Program[i].op = "load" /\ Program[j].op = "load" /\ LqOf[i].idx = LqOf[j].idx
    BY <1>3, RobFacts DEF IsLoad
  <2>2. PICK f : Numbered("load", Program, Len(rob), LqOf, LQSIZE, lqhead, ldNum, ld_deq_ptr, f)
    BY DEF Numbering
  <2>3. \A a, b \in 1 .. Len(rob) :
          Program[a].op = "load" /\ Program[b].op = "load" /\ LqOf[a].idx = LqOf[b].idx => a = b
    BY ONLY <1>1, <2>2, NumberedApart
  <2> QED
    BY <2>1, <2>3
<1>4. ASSUME NEW i \in 1 .. Len(rob), IsStore(i)
      PROVE  rob[i].sq.idx \in Stores /\ StoreAt(rob[i].sq.idx) = i
  <2>1. rob[i].sq.idx \in Stores
    BY <1>1, <1>4 DEF Stores
  <2>2. \A j \in DOMAIN rob : IsStore(j) /\ rob[j].sq.idx = rob[i].sq.idx => j = i
    BY <1>1, <1>2, <1>4
  <2> QED
    BY <1>1, <1>4, <2>1, <2>2 DEF StoreAt
<1>5. ASSUME NEW i \in 1 .. Len(rob), IsLoad(i)
      PROVE  rob[i].lq.idx \in Loads /\ LoadAt(rob[i].lq.idx) = i
  <2>1. rob[i].lq.idx \in Loads
    BY <1>1, <1>5 DEF Loads
  <2>2. \A j \in DOMAIN rob : IsLoad(j) /\ rob[j].lq.idx = rob[i].lq.idx => j = i
    BY <1>1, <1>3, <1>5
  <2> QED
    BY <1>1, <1>5, <2>1, <2>2 DEF LoadAt
<1>6. ASSUME NEW s \in Stores
      PROVE  /\ s \in SqSlots /\ StoreAt(s) \in 1 .. Len(rob)
             /\ IsStore(StoreAt(s)) /\ rob[StoreAt(s)].sq.idx = s
  <2>1. PICK i \in 1 .. Len(rob) : IsStore(i) /\ rob[i].sq.idx = s
    BY <1>1 DEF Stores
  <2>2. StoreAt(s) = i
    BY <1>4, <2>1
  <2> QED
    BY <2>1, <2>2, RobFacts
<1>7. ASSUME NEW l \in Loads
      PROVE  /\ l \in LqSlots /\ LoadAt(l) \in 1 .. Len(rob)
             /\ IsLoad(LoadAt(l)) /\ rob[LoadAt(l)].lq.idx = l
  <2>1. PICK i \in 1 .. Len(rob) : IsLoad(i) /\ rob[i].lq.idx = l
    BY <1>1 DEF Loads
  <2>2. LoadAt(l) = i
    BY <1>5, <2>1
  <2> QED
    BY <2>1, <2>2, RobFacts
<1> QED
  BY <1>4, <1>5, <1>6, <1>7

\* What commits is at the front, finished, and no load in shr.
LEMMA CommitFacts ==
  ASSUME Typed
  PROVE  /\ CommitNum \in 0 .. COMMIT_WIDTH /\ CommitNum \in 0 .. Len(rob)
         /\ \A i \in 1 .. CommitNum : rob[i].fin /\ ~(IsLoad(i) /\ rob[i].lq.idx \in shr)
<1> DEFINE may(i) == i <= Len(rob) /\ rob[i].fin /\ ~(IsLoad(i) /\ rob[i].lq.idx \in shr)
           right(n) == (\A i \in 1 .. n : may(i)) /\ (n = COMMIT_WIDTH \/ ~may(n + 1))
           W == {n \in 0 .. COMMIT_WIDTH : n = COMMIT_WIDTH \/ ~may(n + 1)}
<1>1. COMMIT_WIDTH \in Nat /\ Len(rob) \in Nat
  BY QueuesAssumption, RobFacts
<1>2. PICK m \in W : \A k \in W : m <= k
  <2>1. W \in SUBSET Nat /\ COMMIT_WIDTH \in W
    BY <1>1
  <2> HIDE DEF W
  <2> QED
    BY <2>1, LeastElement
<1>3. ASSUME NEW i \in 1 .. m PROVE may(i)
  <2>1. i - 1 \in 0 .. COMMIT_WIDTH /\ i - 1 < m /\ i - 1 + 1 = i
    BY <1>1, <1>2
  <2>2. i - 1 \notin W
    BY <1>1, <1>2, <2>1
  <2>3. may(i - 1 + 1)
    BY <2>1, <2>2
  <2> HIDE DEF may
  <2> QED
    BY <2>1, <2>3
<1>4. m \in 0 .. COMMIT_WIDTH /\ right(m)
  BY <1>1, <1>2, <1>3
<1>5. CommitNum = CHOOSE n \in 0 .. COMMIT_WIDTH : right(n)
  BY DEF CommitNum
<1> HIDE DEF right
<1>6. CommitNum \in 0 .. COMMIT_WIDTH /\ right(CommitNum)
  BY <1>4, <1>5
<1>7. \A i \in 1 .. CommitNum : may(i)
  BY <1>6 DEF right
<1>8. CommitNum <= Len(rob)
  <2>1. CASE CommitNum = 0
    BY <1>1, <2>1
  <2>2. CASE CommitNum # 0
    <3>1. CommitNum \in 1 .. CommitNum
      BY <1>1, <1>6, <2>2
    <3> QED
      BY <1>7, <3>1
  <2> QED
    BY <2>1, <2>2
<1> QED
  BY <1>1, <1>6, <1>7, <1>8

-----------------------------------------------------------------------------
(* A cycle. *)

\* The first n elements of a list.
LEMMA FrontOf ==
  ASSUME NEW s, IsList(s), NEW n \in 0 .. Len(s)
  PROVE  /\ IsList(SubSeq(s, 1, n)) /\ Len(SubSeq(s, 1, n)) = n /\ DOMAIN SubSeq(s, 1, n) = 1 .. n
         /\ \A i \in 1 .. n : SubSeq(s, 1, n)[i] = s[i]
<1> DEFINE S == SeqRange(s)
           p == SubSeq(s, 1, n)
<1>1. PICK m \in Nat : m = Len(s) /\ s \in [1 .. m -> S]
  BY ListDef DEF SeqRange
<1> HIDE DEF S
<1>2. /\ SubSeq(s, 1, n) \in Seq(S)
      /\ Len(SubSeq(s, 1, n)) = IF 1 <= n THEN n - 1 + 1 ELSE 0
      /\ \A i \in 1 .. n - 1 + 1 : SubSeq(s, 1, n)[i] = s[1 + i - 1]
  <2>1. 1 \in Int /\ n \in Int /\ \A i \in 1 .. n : s[i] \in S
    BY <1>1
  <2> QED
    BY <2>1, SubSeqProperties
<1>3. n \in Nat /\ n - 1 + 1 = n /\ \A i \in 1 .. n : 1 + i - 1 = i
  BY <1>1
<1>4. p \in Seq(S) /\ Len(p) = n /\ \A i \in 1 .. n : p[i] = s[i]
  BY <1>2, <1>3
<1> HIDE DEF p
<1>5. p \in [1 .. n -> S]
  BY <1>3, <1>4, LenProperties
<1>6. IsList(p) /\ DOMAIN p = 1 .. n
  BY <1>3, <1>5, ListDef
<1> QED
  BY <1>4, <1>6 DEF p

\* A group that may be dispatched has room in both queues.
LEMMA GroupFacts ==
  ASSUME Typed, Numbering, NEW g \in Groups
  PROVE  /\ IsList(g) /\ Len(g) \in Nat /\ Len(g) <= MEMDQ_DISP_WID
         /\ \A i \in 1 .. Len(g) : g[i] \in Insts
         /\ \A op \in {"load", "store"} :
              /\ NumOf(op, g) = Count(op, g, Len(g))
              /\ \A i \in 1 .. Len(g) : NumOf(op, SubSeq(g, 1, i - 1)) = Count(op, g, i - 1)
         /\ ldNum + Count("load", g, Len(g)) <= LQSIZE
         /\ stNum + Count("store", g, Len(g)) <= SQSIZE
<1>1. PICK n \in 0 .. MEMDQ_DISP_WID : g \in [1 .. n -> Insts]
  BY DEF Groups
<1>2. MEMDQ_DISP_WID \in Nat /\ n \in Nat
  BY QueuesAssumption
<1>3. IsList(g) /\ Len(g) = n /\ DOMAIN g = 1 .. n
  BY <1>1, <1>2, NewList
<1>4. ASSUME NEW op \in {"load", "store"} PROVE NumOf(op, g) = Count(op, g, Len(g))
  BY <1>3 DEF NumOf, Count
<1>5. ASSUME NEW op \in {"load", "store"}, NEW i \in 1 .. Len(g)
      PROVE  NumOf(op, SubSeq(g, 1, i - 1)) = Count(op, g, i - 1)
  <2>1. i - 1 \in 0 .. Len(g) /\ i - 1 \in Nat
    BY <1>2, <1>3
  <2>2. /\ DOMAIN SubSeq(g, 1, i - 1) = 1 .. i - 1
        /\ \A j \in 1 .. i - 1 : SubSeq(g, 1, i - 1)[j] = g[j]
    BY <1>3, <2>1, FrontOf
  <2> QED
    BY <2>2 DEF NumOf, Count
<1>6. /\ NumOf("load", g) <= LD_ISSUE_WIDTH /\ NumOf("store", g) <= ST_ISSUE_WIDTH
      /\ g # << >> => ldNum <= LQSIZE - LD_ISSUE_WIDTH /\ stNum <= SQSIZE - ST_ISSUE_WIDTH
  BY DEF Groups, LSQ_ready
<1>7. /\ LQSIZE \in Nat /\ SQSIZE \in Nat /\ LD_ISSUE_WIDTH \in 1 .. LQSIZE /\ ST_ISSUE_WIDTH \in 1 .. SQSIZE
  BY QueuesAssumption
<1>8. ldNum \in 0 .. LQSIZE /\ stNum \in 0 .. SQSIZE
  <2>1. Len(rob) \in Nat
    BY RobFacts
  <2>2. PICK f : Numbered("store", Program, Len(rob), SqOf, SQSIZE, sqhead, stNum, st_deq_ptr, f)
    BY DEF Numbering
  <2>3. PICK e : Numbered("load", Program, Len(rob), LqOf, LQSIZE, lqhead, ldNum, ld_deq_ptr, e)
    BY DEF Numbering
  <2>4. stNum \in 0 .. SQSIZE
    BY ONLY <1>7, <2>1, <2>2, NumberedHead
  <2>5. ldNum \in 0 .. LQSIZE
    BY ONLY <1>7, <2>1, <2>3, NumberedHead
  <2> QED
    BY <2>4, <2>5
<1>9. /\ ldNum + Count("load", g, Len(g)) <= LQSIZE
      /\ stNum + Count("store", g, Len(g)) <= SQSIZE
  <2>1. PICK a \in Nat, b \in Nat : a = Count("load", g, Len(g)) /\ b = Count("store", g, Len(g))
    BY <1>2, <1>3, CountStep
  <2>2. a <= LD_ISSUE_WIDTH /\ b <= ST_ISSUE_WIDTH
    BY <1>4, <1>6, <2>1
  <2>3. CASE g = << >>
    <3>1. n = 0
      <4>1. Len(g) = 0
        BY <2>3
      <4> QED
        BY <1>3, <4>1
    <3>2. a = 0 /\ b = 0
      BY <1>3, <2>1, <3>1, CountStep
    <3> QED
      BY <1>7, <1>8, <2>1, <3>2
  <2>4. CASE g # << >>
    BY <1>6, <1>7, <1>8, <2>1, <2>2, <2>4
  <2> QED
    BY <2>3, <2>4
<1>10. \A i \in 1 .. Len(g) : g[i] \in Insts
  BY <1>1, <1>3
<1> QED
  BY <1>1, <1>2, <1>3, <1>4, <1>5, <1>9, <1>10

\* the loads of s1 that leave it in this cycle, and what they get
Ready == {r \in s1 : ForwardReady(r)}
Success == {r.lq : r \in Ready}
StoresGone == Count("store", Program, CommitNum)
LoadsGone == Count("load", Program, CommitNum)
Value(racing) ==
  [l \in Success |-> Merged(CHOOSE r \in Ready : r.lq = l,
                            IF l \in racing THEN Committed(StoresGone) ELSE mem)]

\* what finishes
Done(i) ==
  \/ IsLoad(i) /\ rob[i].lq.idx \in s3
  \/ IsStore(i) /\ \E k \in FinishedPorts : rob[i].sq.idx = FinishSlot(k)

\* The reorder buffer after a cycle.
RobAfter(g, racing) ==
  /\ IsList(rob') /\ Len(rob') = Len(rob) - CommitNum + Len(g)
  /\ \A i \in 1 .. Len(rob) - CommitNum :
       rob'[i] = [inst |-> rob[CommitNum + i].inst,
                  lq |-> rob[CommitNum + i].lq, sq |-> rob[CommitNum + i].sq,
                  fin |-> rob[CommitNum + i].fin \/ Done(CommitNum + i),
                  val |-> IF IsLoad(CommitNum + i) /\ rob[CommitNum + i].lq.idx \in Success
                          THEN Value(racing)[rob[CommitNum + i].lq.idx]
                          ELSE rob[CommitNum + i].val]
  /\ \A i \in 1 .. Len(g) :
       rob'[Len(rob) - CommitNum + i] =
         [inst |-> g[i], lq |-> Index(lqhead, Count("load", g, i - 1), LQSIZE),
          sq |-> Index(sqhead, Count("store", g, i - 1), SQSIZE),
          fin |-> FALSE, val |-> NotExecuted]

\* What a cycle assigns.
Turn(g, issue, stas, stds, racing) ==
  /\ RobAfter(g, racing)
  /\ ldNum' = ldNum + Count("load", g, Len(g)) - LoadsGone
  /\ stNum' = stNum + Count("store", g, Len(g)) - StoresGone
  /\ lqhead' = Index(lqhead, Count("load", g, Len(g)), LQSIZE)
  /\ sqhead' = Index(sqhead, Count("store", g, Len(g)), SQSIZE)
  /\ sq' = NextSq(NxtSq(stas, stds), StoresGone)
  /\ st_deq_ptr' = Wrap(st_deq_ptr + StoresGone, SQSIZE)
  /\ finish_ptr' = IF Finishes(0) THEN FinishSlot(Cardinality(FinishedPorts)) ELSE finish_ptr
  /\ lq' = [l \in LqSlots |->
              IF \E k \in 0 .. LoadsGone - 1 : l = Wrap(ld_deq_ptr + k, LQSIZE)
              THEN EmptyLoad ELSE NxtLq(Success)[l]]
  /\ ld_deq_ptr' = Wrap(ld_deq_ptr + LoadsGone, LQSIZE)
  /\ s1' = {[lq |-> l, match |-> Matches(l, NxtSq(stas, stds)),
              bytes |-> [b \in rob[LoadAt(l)].inst.mask |-> Covering(l, NxtSq(stas, stds), b)]] : l \in issue}
  /\ s2' = Success
  /\ s3' = s2
  /\ violation' = UNION {Oldest(Violates(s, NxtLq(Success))) : s \in stas}
  /\ mem_except' = Oldest(violation)
  /\ shr' = IF shr = {} THEN mem_except ELSE Oldest(shr \union mem_except)
  /\ mem' = Committed(StoresGone)
  /\ loaded' = [i \in 1 .. CommitNum |-> rob[i].val]

\* What commits, counted.
LEMMA GoneFacts ==
  ASSUME Typed
  PROVE  /\ StoresGone \in Nat /\ LoadsGone \in Nat
         /\ NumOf("store", [i \in 1 .. CommitNum |-> SubSeq(rob, 1, CommitNum)[i].inst]) = StoresGone
         /\ CommitNum - StoresGone = LoadsGone
         /\ [i \in 1 .. CommitNum |-> SubSeq(rob, 1, CommitNum)[i].val] = [i \in 1 .. CommitNum |-> rob[i].val]
<1>1. PICK n : n = CommitNum
  OBVIOUS
<1>2. n \in 0 .. Len(rob) /\ Len(rob) \in Nat /\ n \in Nat
  BY <1>1, CommitFacts, RobFacts
<1>3. IsList(rob)
  BY DEF Typed
<1>4. \A i \in 1 .. n : SubSeq(rob, 1, n)[i] = rob[i]
  BY <1>2, <1>3, FrontOf
<1>5. \A i \in 1 .. n : Program[i] = rob[i].inst /\ Program[i].op \in {"load", "store"}
  BY <1>2, RobFacts
<1>6. {i \in 1 .. n : [j \in 1 .. n |-> SubSeq(rob, 1, n)[j].inst][i].op = "store"}
        = {i \in 1 .. n : Program[i].op = "store"}
  BY <1>4, <1>5
<1>7. NumOf("store", [j \in 1 .. n |-> SubSeq(rob, 1, n)[j].inst]) = Count("store", Program, n)
  BY <1>6 DEF NumOf, Count
<1>8. /\ Count("load", Program, n) \in Nat /\ Count("store", Program, n) \in Nat
      /\ Count("load", Program, n) + Count("store", Program, n) = n
  BY <1>2, <1>5, CountStep, CountBoth
<1>9. n - Count("store", Program, n) = Count("load", Program, n)
  BY ONLY <1>2, <1>8
<1>10. [i \in 1 .. n |-> SubSeq(rob, 1, n)[i].val] = [i \in 1 .. n |-> rob[i].val]
  BY <1>4
<1> QED
  BY <1>1, <1>7, <1>8, <1>9, <1>10 DEF StoresGone, LoadsGone

\* An entry that is changed is written out.
LEMMA EntryStep ==
  ASSUME NEW r, IsEntry(r), NEW f \in BOOLEAN, NEW v
  PROVE  [r EXCEPT !.fin = f, !.val = v]
           = [inst |-> r.inst, lq |-> r.lq, sq |-> r.sq, fin |-> f, val |-> v]
<1>1. r = [inst |-> r.inst, lq |-> r.lq, sq |-> r.sq, fin |-> r.fin, val |-> r.val]
  BY DEF IsEntry
<1>2. PICK a, b, c, d, e : r = [inst |-> a, lq |-> b, sq |-> c, fin |-> d, val |-> e]
  BY <1>1, Zenon
<1>3. r.inst = a /\ r.lq = b /\ r.sq = c
  BY <1>2
<1>4. PICK u : u = [r EXCEPT !.fin = f]
  OBVIOUS
<1>5. u = [inst |-> a, lq |-> b, sq |-> c, fin |-> f, val |-> e]
  BY <1>2, <1>4
<1>6. [u EXCEPT !.val = v] = [inst |-> a, lq |-> b, sq |-> c, fin |-> f, val |-> v]
  BY <1>5
<1>7. [r EXCEPT !.fin = f, !.val = v] = [u EXCEPT !.val = v]
  BY <1>4, Zenon
<1> QED
  BY <1>3, <1>6, <1>7

\* The reorder buffer, as NextRob has it.
LEMMA RobStep ==
  ASSUME Typed, Numbering, NEW g \in Groups, NEW racing,
         rob' = NextRob(g, CommitNum, Success, Value(racing))
  PROVE  RobAfter(g, racing)
<1>1. PICK n \in Nat, k \in Nat, m \in Nat : n = CommitNum /\ k = Len(rob) - n /\ m = Len(g)
  <2>1. CommitNum \in 0 .. Len(rob) /\ Len(rob) \in Nat /\ Len(g) \in Nat
    BY CommitFacts, RobFacts, GroupFacts
  <2>2. CommitNum \in Nat /\ Len(rob) - CommitNum \in Nat
    BY <2>1
  <2> QED
    BY <2>1, <2>2
<1>2. PICK value : value = Value(racing)
  OBVIOUS
<1> DEFINE finished(i) == \/ IsLoad(i) /\ rob[i].lq.idx \in s3
                          \/ IsStore(i) /\ \E x \in FinishedPorts : rob[i].sq.idx = FinishSlot(x)
           step(i) == [rob[i] EXCEPT !.fin = @ \/ finished(i),
                                     !.val = IF IsLoad(i) /\ rob[i].lq.idx \in Success
                                             THEN value[rob[i].lq.idx] ELSE @]
           a == [i \in 1 .. Len(rob) - n |-> step(i + n)]
           b == Allocated(g)
<1>3. rob' = a \o b
  BY <1>1, <1>2 DEF NextRob
<1>4. ASSUME NEW i \in 1 .. k
      PROVE  step(i + n) = [inst |-> rob[n + i].inst, lq |-> rob[n + i].lq, sq |-> rob[n + i].sq,
                            fin |-> rob[n + i].fin \/ Done(n + i),
                            val |-> IF IsLoad(n + i) /\ rob[n + i].lq.idx \in Success
                                    THEN value[rob[n + i].lq.idx] ELSE rob[n + i].val]
  <2>1. PICK j \in 1 .. Len(rob) : j = n + i /\ j = i + n
    <3>1. Len(rob) \in Nat
      BY RobFacts
    <3>2. n + i \in 1 .. Len(rob) /\ n + i = i + n
      BY <1>1, <3>1
    <3> QED
      BY <3>2
  <2>2. IsEntry(rob[j]) /\ rob[j].fin \in BOOLEAN
    BY RobFacts DEF Typed
  <2>3. PICK f \in BOOLEAN : f = (rob[j].fin \/ finished(j))
    BY <2>2
  <2>4. PICK v : v = IF IsLoad(j) /\ rob[j].lq.idx \in Success THEN value[rob[j].lq.idx] ELSE rob[j].val
    OBVIOUS
  <2>5. step(j) = [rob[j] EXCEPT !.fin = f, !.val = v]
    BY <2>3, <2>4
  <2>6. finished(j) <=> Done(j)
    BY DEF Done
  <2>7. step(j) = [inst |-> rob[j].inst, lq |-> rob[j].lq, sq |-> rob[j].sq, fin |-> f, val |-> v]
    BY <2>2, <2>5, EntryStep
  <2>8. f = (rob[j].fin \/ Done(j))
    BY <2>2, <2>3, <2>6
  <2> HIDE DEF step, finished
  <2> QED
    BY <2>1, <2>4, <2>7, <2>8
<1>5. /\ IsList(a) /\ Len(a) = k /\ \A i \in 1 .. k : a[i] = step(i + n)
  <2>1. DOMAIN a = 1 .. k /\ a = [i \in 1 .. k |-> a[i]] /\ \A i \in 1 .. k : a[i] = step(i + n)
    BY <1>1
  <2> HIDE DEF a
  <2> QED
    BY <2>1, NewList
<1>6. /\ IsList(b) /\ Len(b) = m
      /\ \A i \in 1 .. m :
           b[i] = [inst |-> g[i], lq |-> Index(lqhead, Count("load", g, i - 1), LQSIZE),
                   sq |-> Index(sqhead, Count("store", g, i - 1), SQSIZE),
                   fin |-> FALSE, val |-> NotExecuted]
  <2>1. DOMAIN g = 1 .. m
    BY <1>1, GroupFacts, ListDef
  <2>2. DOMAIN b = 1 .. m /\ b = [i \in 1 .. m |-> b[i]]
    BY <2>1 DEF Allocated
  <2>3. ASSUME NEW i \in 1 .. m
        PROVE  b[i] = [inst |-> g[i], lq |-> Index(lqhead, Count("load", g, i - 1), LQSIZE),
                       sq |-> Index(sqhead, Count("store", g, i - 1), SQSIZE),
                       fin |-> FALSE, val |-> NotExecuted]
    <3>1. /\ NumOf("load", SubSeq(g, 1, i - 1)) = Count("load", g, i - 1)
          /\ NumOf("store", SubSeq(g, 1, i - 1)) = Count("store", g, i - 1)
      BY <1>1, GroupFacts
    <3> QED
      BY <2>1, <3>1 DEF Allocated
  <2>4. IsList(b) /\ Len(b) = m
    BY <2>2, NewList
  <2> QED
    BY <2>3, <2>4
<1> HIDE DEF a, b, step
<1>7. /\ IsList(rob') /\ Len(rob') = k + m
      /\ \A i \in 1 .. k : rob'[i] = a[i]
      /\ \A i \in 1 .. m : rob'[k + i] = b[i]
  <2>1. /\ IsList(a \o b) /\ Len(a \o b) = Len(a) + Len(b)
        /\ \A i \in 1 .. Len(a) : (a \o b)[i] = a[i]
        /\ \A i \in 1 .. Len(b) : (a \o b)[Len(a) + i] = b[i]
    <3>1. IsList(a) /\ IsList(b)
      BY <1>5, <1>6
    <3> QED
      BY ONLY <3>1, JoinedList
  <2>2. Len(a) = k /\ Len(b) = m
    BY <1>5, <1>6
  <2> QED
    BY <1>3, <2>1, <2>2
<1>8. \A i \in 1 .. k :
        rob'[i] = [inst |-> rob[n + i].inst, lq |-> rob[n + i].lq, sq |-> rob[n + i].sq,
                   fin |-> rob[n + i].fin \/ Done(n + i),
                   val |-> IF IsLoad(n + i) /\ rob[n + i].lq.idx \in Success
                           THEN value[rob[n + i].lq.idx] ELSE rob[n + i].val]
  BY <1>4, <1>5, <1>7
<1>9. \A i \in 1 .. m :
        rob'[k + i] = [inst |-> g[i], lq |-> Index(lqhead, Count("load", g, i - 1), LQSIZE),
                       sq |-> Index(sqhead, Count("store", g, i - 1), SQSIZE),
                       fin |-> FALSE, val |-> NotExecuted]
  BY <1>6, <1>7
<1> QED
  BY <1>1, <1>2, <1>7, <1>8, <1>9 DEF RobAfter

\* Every cycle is such a turn.
LEMMA CycleTurn ==
  ASSUME Typed, Numbering, NEW g \in Groups, NEW issue, NEW stas, NEW stds, NEW racing,
         Cycle(g, issue, stas, stds, racing)
  PROVE  Turn(g, issue, stas, stds, racing)
<1>1. /\ NumOf("store", [i \in 1 .. CommitNum |-> SubSeq(rob, 1, CommitNum)[i].inst]) = StoresGone
      /\ CommitNum - StoresGone = LoadsGone
      /\ [i \in 1 .. CommitNum |-> SubSeq(rob, 1, CommitNum)[i].val] = [i \in 1 .. CommitNum |-> rob[i].val]
  BY GoneFacts
<1>2. NumOf("load", g) = Count("load", g, Len(g)) /\ NumOf("store", g) = Count("store", g, Len(g))
  BY GroupFacts
<1>3. rob' = NextRob(g, CommitNum, Success, Value(racing))
  <2>1. Value(racing) = [l \in {r.lq : r \in {r \in s1 : ForwardReady(r)}} |->
                           Merged(CHOOSE r \in {r \in s1 : ForwardReady(r)} : r.lq = l,
                                  IF l \in racing THEN Committed(StoresGone) ELSE mem)]
    BY Zenon DEF Value, Success, Ready
  <2>2. Success = {r.lq : r \in {r \in s1 : ForwardReady(r)}}
    BY Zenon DEF Success, Ready
  <2> QED
    BY <1>1, <2>1, <2>2, Zenon DEF Cycle
<1>4. RobAfter(g, racing)
  BY <1>3, RobStep
<1>5. /\ ldNum' = ldNum + Count("load", g, Len(g)) - LoadsGone
      /\ stNum' = stNum + Count("store", g, Len(g)) - StoresGone
      /\ lqhead' = Index(lqhead, Count("load", g, Len(g)), LQSIZE)
      /\ sqhead' = Index(sqhead, Count("store", g, Len(g)), SQSIZE)
  BY <1>1, <1>2, Zenon DEF Cycle
<1>6. /\ sq' = NextSq(NxtSq(stas, stds), StoresGone)
      /\ st_deq_ptr' = Wrap(st_deq_ptr + StoresGone, SQSIZE)
      /\ finish_ptr' = IF Finishes(0) THEN FinishSlot(Cardinality(FinishedPorts)) ELSE finish_ptr
      /\ ld_deq_ptr' = Wrap(ld_deq_ptr + LoadsGone, LQSIZE)
      /\ mem' = Committed(StoresGone)
      /\ loaded' = [i \in 1 .. CommitNum |-> rob[i].val]
  BY <1>1, Zenon DEF Cycle
<1>7. /\ lq' = [l \in LqSlots |->
                  IF \E k \in 0 .. LoadsGone - 1 : l = Wrap(ld_deq_ptr + k, LQSIZE)
                  THEN EmptyLoad ELSE NxtLq(Success)[l]]
      /\ s2' = Success /\ s3' = s2
      /\ violation' = UNION {Oldest(Violates(s, NxtLq(Success))) : s \in stas}
      /\ mem_except' = Oldest(violation)
      /\ shr' = IF shr = {} THEN mem_except ELSE Oldest(shr \union mem_except)
      /\ s1' = {[lq |-> l, match |-> Matches(l, NxtSq(stas, stds)),
                  bytes |-> [b \in rob[LoadAt(l)].inst.mask |-> Covering(l, NxtSq(stas, stds), b)]] : l \in issue}
  BY <1>1, Zenon DEF Cycle, Success, Ready
<1> QED
  BY <1>4, <1>5, <1>6, <1>7 DEF Turn

-----------------------------------------------------------------------------
(* What the machine around the queues may do. *)

\* what the machine around the queues may do in a cycle
May(g, issue, stas, stds) ==
  /\ g \in Groups /\ Len(rob) - CommitNum + Len(g) <= ROB_SIZE
  /\ issue \subseteq Issuable /\ stas \subseteq NoAddress /\ stds \subseteq NoData

\* how many stay in flight
Kept == Len(rob) - CommitNum

\* The places in the reorder buffer before and after a cycle.
LEMMA Places ==
  ASSUME Typed, Numbering, NEW g \in Groups, NEW racing, RobAfter(g, racing)
  PROVE  /\ CommitNum \in Nat /\ Kept \in Nat /\ Len(g) \in Nat /\ Len(rob) \in Nat
         /\ Len(rob) = CommitNum + Kept /\ Len(rob') = Kept + Len(g)
         /\ DOMAIN rob' = 1 .. Kept + Len(g) /\ IsList(rob')
         /\ \A i \in 1 .. Kept : CommitNum + i \in 1 .. Len(rob) /\ i \in DOMAIN rob'
         /\ \A i \in DOMAIN rob' : i \in 1 .. Kept \/ \E h \in 1 .. Len(g) : i = Kept + h
         /\ \A j \in 1 .. Len(rob) : j <= CommitNum \/ \E i \in 1 .. Kept : j = CommitNum + i
<1>1. CommitNum \in 0 .. Len(rob) /\ Len(rob) \in Nat /\ Len(g) \in Nat
  BY CommitFacts, RobFacts, GroupFacts
<1>2. IsList(rob') /\ Len(rob') = Len(rob) - CommitNum + Len(g)
  BY DEF RobAfter
<1>3. PICK n \in Nat, k \in Nat, m \in Nat, l \in Nat :
        n = CommitNum /\ k = Kept /\ m = Len(g) /\ l = Len(rob) /\ l = n + k
  <2>1. CommitNum \in Nat /\ Kept \in Nat /\ Len(rob) = CommitNum + Kept
    BY <1>1 DEF Kept
  <2> QED
    BY <1>1, <2>1
<1>4. Len(rob') = k + m /\ DOMAIN rob' = 1 .. k + m
  BY <1>2, <1>3, ListDef DEF Kept
<1>5. \A i \in 1 .. k : n + i \in 1 .. l /\ i \in 1 .. k + m
  BY <1>3
<1>6. \A i \in 1 .. k + m : i \in 1 .. k \/ \E h \in 1 .. m : i = k + h
  <2> TAKE i \in 1 .. k + m
  <2>1. i <= k \/ (i - k \in 1 .. m /\ i = k + (i - k))
    OBVIOUS
  <2> QED
    BY <2>1
<1>7. \A j \in 1 .. l : j <= n \/ \E i \in 1 .. k : j = n + i
  <2> TAKE j \in 1 .. l
  <2>1. j <= n \/ (j - n \in 1 .. k /\ j = n + (j - n))
    BY <1>3
  <2> QED
    BY <2>1
<1> QED
  BY <1>2, <1>3, <1>4, <1>5, <1>6, <1>7

\* What stays.
LEMMA Stays ==
  ASSUME Typed, Numbering, NEW g \in Groups, NEW racing, RobAfter(g, racing),
         NEW i \in 1 .. Kept, NEW j, j = CommitNum + i
  PROVE  /\ j \in 1 .. Len(rob) /\ i \in DOMAIN rob'
         /\ rob'[i].inst = rob[j].inst /\ rob'[i].lq = rob[j].lq /\ rob'[i].sq = rob[j].sq
         /\ rob'[i].fin = (rob[j].fin \/ Done(j))
         /\ rob'[i].val = IF IsLoad(j) /\ rob[j].lq.idx \in Success
                          THEN Value(racing)[rob[j].lq.idx] ELSE rob[j].val
         /\ IsEntry(rob[j]) => IsEntry(rob'[i])
<1>1. rob'[i] = [inst |-> rob[j].inst, lq |-> rob[j].lq, sq |-> rob[j].sq,
                 fin |-> rob[j].fin \/ Done(j),
                 val |-> IF IsLoad(j) /\ rob[j].lq.idx \in Success
                         THEN Value(racing)[rob[j].lq.idx] ELSE rob[j].val]
  BY DEF RobAfter, Kept
<1>2. PICK f, v : /\ f = (rob[j].fin \/ Done(j))
                  /\ v = IF IsLoad(j) /\ rob[j].lq.idx \in Success
                         THEN Value(racing)[rob[j].lq.idx] ELSE rob[j].val
  OBVIOUS
<1>3. rob'[i] = [inst |-> rob[j].inst, lq |-> rob[j].lq, sq |-> rob[j].sq, fin |-> f, val |-> v]
  BY <1>1, <1>2
<1>4. j \in 1 .. Len(rob) /\ i \in DOMAIN rob'
  BY Places
<1>5. ASSUME IsEntry(rob[j]) PROVE IsEntry(rob'[i])
  <2>1. f \in BOOLEAN
    BY <1>2, <1>5 DEF IsEntry
  <2>2. rob[j].inst \in Insts /\ rob[j].lq \in LqIndices /\ rob[j].sq \in SqIndices
    BY <1>5 DEF IsEntry
  <2>3. PICK r : r = rob'[i]
    OBVIOUS
  <2>4. r.val = v
    BY <1>3, <2>3
  <2>5. r \in [inst : Insts, lq : LqIndices, sq : SqIndices, fin : BOOLEAN, val : {r.val}]
    BY <1>3, <2>1, <2>2, <2>3, <2>4
  <2>6. IsEntry(r)
    BY <2>5 DEF IsEntry
  <2> QED
    BY <2>3, <2>6
<1>6. rob'[i].inst = rob[j].inst /\ rob'[i].lq = rob[j].lq /\ rob'[i].sq = rob[j].sq
  BY <1>3
<1>7. rob'[i].fin = f /\ rob'[i].val = v
  BY <1>3
<1> QED
  BY <1>2, <1>4, <1>5, <1>6, <1>7

\* What comes in.
LEMMA Comes ==
  ASSUME Typed, Numbering, NEW g \in Groups, NEW racing, RobAfter(g, racing),
         NEW h \in 1 .. Len(g), NEW i, i = Kept + h
  PROVE  /\ i \in DOMAIN rob' /\ i \in Nat
         /\ rob'[i].inst = g[h]
         /\ rob'[i].lq = Index(lqhead, Count("load", g, h - 1), LQSIZE)
         /\ rob'[i].sq = Index(sqhead, Count("store", g, h - 1), SQSIZE)
         /\ rob'[i].fin = FALSE /\ rob'[i].val = NotExecuted
         /\ g[h] \in Insts
         /\ rob'[i].lq \in LqIndices /\ rob'[i].sq \in SqIndices => IsEntry(rob'[i])
<1>1. rob'[i] = [inst |-> g[h], lq |-> Index(lqhead, Count("load", g, h - 1), LQSIZE),
                 sq |-> Index(sqhead, Count("store", g, h - 1), SQSIZE),
                 fin |-> FALSE, val |-> NotExecuted]
  BY DEF RobAfter, Kept
<1>2. i \in DOMAIN rob' /\ i \in Nat
  BY Places
<1>3. g[h] \in Insts
  BY GroupFacts
<1>4. PICK r, a, b, v : r = rob'[i] /\ a = Index(lqhead, Count("load", g, h - 1), LQSIZE)
                        /\ b = Index(sqhead, Count("store", g, h - 1), SQSIZE) /\ v = NotExecuted
  OBVIOUS
<1>5. r = [inst |-> g[h], lq |-> a, sq |-> b, fin |-> FALSE, val |-> v]
  BY <1>1, <1>4
<1>6. r.inst = g[h] /\ r.lq = a /\ r.sq = b /\ r.fin = FALSE /\ r.val = v
  BY <1>5
<1>7. ASSUME a \in LqIndices, b \in SqIndices PROVE IsEntry(r)
  BY <1>3, <1>5, <1>6, <1>7 DEF IsEntry
<1> QED
  BY <1>2, <1>3, <1>4, <1>6, <1>7

\* The numbering goes on.
LEMMA NumberingNext ==
  ASSUME Typed, Numbering, NEW g, NEW issue, NEW stas, NEW stds, NEW racing,
         May(g, issue, stas, stds), Turn(g, issue, stas, stds, racing)
  PROVE  Numbering'
<1>1. g \in Groups /\ RobAfter(g, racing)
  BY DEF May, Turn
<1>2. PICK n \in Nat, k \in Nat, m \in Nat :
        n = CommitNum /\ k = Kept /\ m = Len(g) /\ Len(rob) = n + k /\ Len(rob') = k + m
  BY <1>1, Places
<1>3. PICK p, q, ss, st, ls, lt : /\ p = Program /\ q = Program' /\ ss = SqOf /\ st = SqOf'
                                  /\ ls = LqOf /\ lt = LqOf'
  OBVIOUS
<1>4. ASSUME NEW i \in 1 .. k
      PROVE  q[i].op = p[n + i].op /\ st[i] = ss[n + i] /\ lt[i] = ls[n + i]
  <2>1. PICK j : j = n + i
    OBVIOUS
  <2>2. /\ j \in 1 .. Len(rob) /\ i \in DOMAIN rob'
        /\ rob'[i].inst = rob[j].inst /\ rob'[i].lq = rob[j].lq /\ rob'[i].sq = rob[j].sq
    BY <1>1, <1>2, <2>1, Stays
  <2>3. p[j] = rob[j].inst /\ ss[j] = rob[j].sq /\ ls[j] = rob[j].lq
    BY <1>3, <2>2, RobFacts
  <2>4. q[i] = rob'[i].inst /\ st[i] = rob'[i].sq /\ lt[i] = rob'[i].lq
    BY <1>3, <2>2 DEF Program, SqOf, LqOf
  <2> QED
    BY <2>1, <2>2, <2>3, <2>4
<1>5. ASSUME NEW h \in 1 .. m
      PROVE  /\ q[k + h].op = g[h].op
             /\ st[k + h] = Index(sqhead, Count("store", g, h - 1), SQSIZE)
             /\ lt[k + h] = Index(lqhead, Count("load", g, h - 1), LQSIZE)
  <2>1. PICK i : i = k + h
    OBVIOUS
  <2>2. /\ i \in DOMAIN rob' /\ rob'[i].inst = g[h]
        /\ rob'[i].lq = Index(lqhead, Count("load", g, h - 1), LQSIZE)
        /\ rob'[i].sq = Index(sqhead, Count("store", g, h - 1), SQSIZE)
    BY <1>1, <1>2, <2>1, Comes
  <2>3. q[i] = rob'[i].inst /\ st[i] = rob'[i].sq /\ lt[i] = rob'[i].lq
    BY <1>3, <2>2 DEF Program, SqOf, LqOf
  <2> QED
    BY <2>1, <2>2, <2>3
<1>6. /\ stNum' = stNum + Count("store", g, m) - Count("store", p, n)
      /\ ldNum' = ldNum + Count("load", g, m) - Count("load", p, n)
      /\ sqhead' = Index(sqhead, Count("store", g, m), SQSIZE)
      /\ lqhead' = Index(lqhead, Count("load", g, m), LQSIZE)
      /\ st_deq_ptr' = Wrap(st_deq_ptr + Count("store", p, n), SQSIZE)
      /\ ld_deq_ptr' = Wrap(ld_deq_ptr + Count("load", p, n), LQSIZE)
  BY <1>2, <1>3 DEF Turn, StoresGone, LoadsGone
<1>7. /\ ldNum + Count("load", g, m) <= LQSIZE /\ stNum + Count("store", g, m) <= SQSIZE
      /\ SQSIZE \in Nat /\ LQSIZE \in Nat
  BY <1>1, <1>2, GroupFacts, QueuesAssumption
<1>8. \E f \in BOOLEAN : Numbered("store", q, k + m, st, SQSIZE, sqhead', stNum', st_deq_ptr', f)
  <2>1. PICK c \in Nat, d \in Nat, l \in Nat : c = Count("store", p, n) /\ d = Count("store", g, m) /\ l = n + k
    <3>1. Count("store", p, n) \in Nat /\ Count("store", g, m) \in Nat /\ n + k \in Nat
      BY n \in Nat, m \in Nat, k \in Nat, CountType
    <3> QED
      BY <3>1
  <2>2. PICK e : Numbered("store", p, l, ss, SQSIZE, sqhead, stNum, st_deq_ptr, e)
    BY <1>2, <1>3, <2>1 DEF Numbering
  <2>3. Shifted("store", p, ss, SQSIZE, sqhead, l, n, k, m, g, q, st, c, d) /\ n \in Nat /\ k \in Nat /\ m \in Nat /\ c \in Nat /\ d \in Nat
    BY <1>4, <1>5, <2>1 DEF Shifted
  <2>4. stNum + d <= SQSIZE /\ SQSIZE \in Nat
    BY <1>7, <2>1
  <2>5. \E f \in BOOLEAN :
          Numbered("store", q, k + m, st, SQSIZE, Index(sqhead, d, SQSIZE), stNum + d - c, Wrap(st_deq_ptr + c, SQSIZE), f)
    BY ONLY <2>2, <2>3, <2>4, NumberedStep
  <2> QED
    BY <1>6, <2>1, <2>5
<1>9. \E f \in BOOLEAN : Numbered("load", q, k + m, lt, LQSIZE, lqhead', ldNum', ld_deq_ptr', f)
  <2>1. PICK c \in Nat, d \in Nat, l \in Nat : c = Count("load", p, n) /\ d = Count("load", g, m) /\ l = n + k
    <3>1. Count("load", p, n) \in Nat /\ Count("load", g, m) \in Nat /\ n + k \in Nat
      BY n \in Nat, m \in Nat, k \in Nat, CountType
    <3> QED
      BY <3>1
  <2>2. PICK e : Numbered("load", p, l, ls, LQSIZE, lqhead, ldNum, ld_deq_ptr, e)
    BY <1>2, <1>3, <2>1 DEF Numbering
  <2>3. Shifted("load", p, ls, LQSIZE, lqhead, l, n, k, m, g, q, lt, c, d) /\ n \in Nat /\ k \in Nat /\ m \in Nat /\ c \in Nat /\ d \in Nat
    BY <1>4, <1>5, <2>1 DEF Shifted
  <2>4. ldNum + d <= LQSIZE /\ LQSIZE \in Nat
    BY <1>7, <2>1
  <2>5. \E f \in BOOLEAN :
          Numbered("load", q, k + m, lt, LQSIZE, Index(lqhead, d, LQSIZE), ldNum + d - c, Wrap(ld_deq_ptr + c, LQSIZE), f)
    BY ONLY <2>2, <2>3, <2>4, NumberedStep
  <2> QED
    BY <1>6, <2>1, <2>5
<1> QED
  BY <1>2, <1>3, <1>8, <1>9 DEF Numbering

-----------------------------------------------------------------------------
(* The slots that are freed. *)

\* n slots from deq on
Freed(deq, n, size) == {Wrap(deq + x, size) : x \in 0 .. n - 1}

\* The slots that the first n instructions of a queue free.
LEMMA NumberedGone ==
  ASSUME NEW op, NEW p, NEW ix, NEW size \in Nat, NEW head, NEW num, NEW deq, NEW f,
         NEW l \in Nat, Numbered(op, p, l, ix, size, head, num, deq, f),
         NEW n \in 0 .. l, NEW d, d = Count(op, p, n),
         NEW S, S = Freed(deq, d, size)
  PROVE  \A j \in 1 .. l : p[j].op = op => (ix[j].idx \in S <=> j <= n)
<1> SUFFICES ASSUME NEW j \in 1 .. l, p[j].op = op PROVE ix[j].idx \in S <=> j <= n
  OBVIOUS
<1> USE DEF Freed
<1>1. d \in Nat /\ \E c \in Nat : c = Count(op, p, j - 1)
  <2>1. j - 1 \in Nat /\ n \in Nat
    BY ONLY l \in Nat, n \in 0 .. l, j \in 1 .. l
  <2> QED
    BY <2>1, CountStep
<1>9. PICK c \in Nat : c = Count(op, p, j - 1)
  BY <1>1
<1>2. num \in 0 .. size /\ deq \in 0 .. size - 1 /\ ix[j].idx = Wrap(deq + c, size) /\ c < num
  <2>1. /\ num \in 0 .. size /\ deq \in 0 .. size - 1
        /\ ix[j].idx = Wrap(deq + Count(op, p, j - 1), size) /\ Count(op, p, j - 1) < num
    BY NumberedPlace
  <2> QED
    BY <1>9, <2>1
<1>3. d <= num
  <2>1. num = Count(op, p, l)
    BY NumberedHead
  <2>2. n \in Nat /\ n <= l
    OBVIOUS
  <2> QED
    BY <1>1, <2>1, <2>2, CountUp
<1>4. ASSUME j <= n PROVE c < d
  <2>1. n \in Nat /\ j \in Nat \ {0}
    OBVIOUS
  <2> QED
    BY <1>9, <1>4, <2>1, CountBehind
<1>5. ASSUME ~(j <= n) PROVE d <= c
  <2>1. n \in Nat /\ j - 1 \in Nat /\ n <= j - 1
    BY ONLY <1>5, l \in Nat, n \in 0 .. l, j \in 1 .. l
  <2> QED
    BY <1>9, <2>1, CountUp
<1>6. ASSUME NEW x \in 0 .. d - 1, Wrap(deq + c, size) = Wrap(deq + x, size) PROVE c = x
  <2>1. c \in 0 .. size - 1 /\ x \in 0 .. size - 1
    BY ONLY <1>2, <1>3, c \in Nat, <1>1, x \in 0 .. d - 1, size \in Nat
  <2> QED
    BY ONLY <1>2, <1>6, <2>1, size \in Nat, WrapApart
<1>7. CASE j <= n
  <2>1. c \in 0 .. d - 1
    BY ONLY <1>4, <1>7, c \in Nat, <1>1
  <2> QED
    BY <1>2, <1>7, <2>1
<1>8. CASE ~(j <= n)
  <2>1. c \notin 0 .. d - 1
    BY ONLY <1>5, <1>8, c \in Nat, <1>1
  <2> QED
    BY <1>1, <1>2, <1>6, <1>8, <2>1
<1> QED
  BY <1>7, <1>8

\* the slots freed in this cycle
SqGone == Freed(st_deq_ptr, StoresGone, SQSIZE)
LqGone == Freed(ld_deq_ptr, LoadsGone, LQSIZE)

\* A slot is freed when its instruction commits.
LEMMA GoneSlots ==
  ASSUME Typed, Numbering
  PROVE  /\ \A j \in 1 .. Len(rob) : IsStore(j) => (rob[j].sq.idx \in SqGone <=> j <= CommitNum)
         /\ \A j \in 1 .. Len(rob) : IsLoad(j) => (rob[j].lq.idx \in LqGone <=> j <= CommitNum)
<1>1. Len(rob) \in Nat /\ CommitNum \in 0 .. Len(rob) /\ SQSIZE \in Nat /\ LQSIZE \in Nat
  BY RobFacts, CommitFacts, QueuesAssumption
<1>2. ASSUME NEW j \in 1 .. Len(rob), IsStore(j) PROVE rob[j].sq.idx \in SqGone <=> j <= CommitNum
  <2>1. PICK f : Numbered("store", Program, Len(rob), SqOf, SQSIZE, sqhead, stNum, st_deq_ptr, f)
    BY DEF Numbering
  <2>2. Program[j].op = "store" /\ SqOf[j] = rob[j].sq
    BY <1>2, RobFacts DEF IsStore
  <2>3. StoresGone = Count("store", Program, CommitNum) /\ SqGone = Freed(st_deq_ptr, StoresGone, SQSIZE)
    BY DEF StoresGone, SqGone
  <2>4. PICK d, S, n, l : d = StoresGone /\ S = SqGone /\ n = CommitNum /\ l = Len(rob)
    OBVIOUS
  <2>5. SqOf[j].idx \in S <=> j <= CommitNum
    BY ONLY <1>1, <2>1, <2>2, <2>3, <2>4, j \in 1 .. Len(rob), NumberedGone
  <2> QED
    BY <2>2, <2>4, <2>5
<1>3. ASSUME NEW j \in 1 .. Len(rob), IsLoad(j) PROVE rob[j].lq.idx \in LqGone <=> j <= CommitNum
  <2>1. PICK f : Numbered("load", Program, Len(rob), LqOf, LQSIZE, lqhead, ldNum, ld_deq_ptr, f)
    BY DEF Numbering
  <2>2. Program[j].op = "load" /\ LqOf[j] = rob[j].lq
    BY <1>3, RobFacts DEF IsLoad
  <2>3. LoadsGone = Count("load", Program, CommitNum) /\ LqGone = Freed(ld_deq_ptr, LoadsGone, LQSIZE)
    BY DEF LoadsGone, LqGone
  <2>4. PICK d, S, n, l : d = LoadsGone /\ S = LqGone /\ n = CommitNum /\ l = Len(rob)
    OBVIOUS
  <2>5. LqOf[j].idx \in S <=> j <= CommitNum
    BY ONLY <1>1, <2>1, <2>2, <2>3, <2>4, j \in 1 .. Len(rob), NumberedGone
  <2> QED
    BY <2>2, <2>4, <2>5
<1> QED
  BY <1>2, <1>3

\* The store queue after a cycle.
LEMMA SqAfter ==
  ASSUME NEW stas, NEW stds, sq' = NextSq(NxtSq(stas, stds), StoresGone), NEW s \in SqSlots
  PROVE  /\ s \in SqGone => sq'[s] = EmptyStore
         /\ s \notin SqGone =>
              /\ sq'[s] = NxtSq(stas, stds)[s]
              /\ sq'[s].addr_vld = (sq[s].addr_vld \/ s \in stas)
              /\ sq'[s].data_vld = (sq[s].data_vld \/ s \in stds)
              /\ s \in stas => sq'[s].mask = rob[StoreAt(s)].inst.mask /\ sq'[s].sqIdx = rob[StoreAt(s)].sq
              /\ s \notin stas => sq'[s].mask = sq[s].mask /\ sq'[s].sqIdx = sq[s].sqIdx
              /\ s \in stds => sq'[s].data = rob[StoreAt(s)].inst.data
              /\ s \notin stds => sq'[s].data = sq[s].data
<1>1. sq'[s] = IF s \in SqGone THEN EmptyStore ELSE NxtSq(stas, stds)[s]
  BY DEF NextSq, SqGone, Freed
<1>2. NxtSq(stas, stds)[s] =
        [addr_vld |-> sq[s].addr_vld \/ s \in stas,
         data_vld |-> sq[s].data_vld \/ s \in stds,
         mask |-> IF s \in stas THEN rob[StoreAt(s)].inst.mask ELSE sq[s].mask,
         sqIdx |-> IF s \in stas THEN rob[StoreAt(s)].sq ELSE sq[s].sqIdx,
         data |-> IF s \in stds THEN rob[StoreAt(s)].inst.data ELSE sq[s].data]
  BY DEF NxtSq
<1>3. PICK u : u = NxtSq(stas, stds)[s]
  OBVIOUS
<1>4. /\ u.addr_vld = (sq[s].addr_vld \/ s \in stas)
      /\ u.data_vld = (sq[s].data_vld \/ s \in stds)
      /\ u.mask = IF s \in stas THEN rob[StoreAt(s)].inst.mask ELSE sq[s].mask
      /\ u.sqIdx = IF s \in stas THEN rob[StoreAt(s)].sq ELSE sq[s].sqIdx
      /\ u.data = IF s \in stds THEN rob[StoreAt(s)].inst.data ELSE sq[s].data
  BY <1>2, <1>3
<1> QED
  BY <1>1, <1>3, <1>4

\* The load queue after a cycle.
LEMMA LqAfter ==
  ASSUME NEW l \in LqSlots,
         lq' = [x \in LqSlots |->
                  IF \E k \in 0 .. LoadsGone - 1 : x = Wrap(ld_deq_ptr + k, LQSIZE)
                  THEN EmptyLoad ELSE NxtLq(Success)[x]]
  PROVE  /\ l \in LqGone => lq'[l] = EmptyLoad
         /\ l \notin LqGone /\ l \in Success =>
              lq'[l] = [vld |-> TRUE, mask |-> rob[LoadAt(l)].inst.mask, sqIdx |-> rob[LoadAt(l)].sq]
         /\ l \notin LqGone /\ l \notin Success => lq'[l] = lq[l]
<1>1. lq'[l] = IF l \in LqGone THEN EmptyLoad ELSE NxtLq(Success)[l]
  BY DEF LqGone, Freed
<1>2. NxtLq(Success)[l] = IF l \in Success
                          THEN [vld |-> TRUE, mask |-> rob[LoadAt(l)].inst.mask, sqIdx |-> rob[LoadAt(l)].sq]
                          ELSE lq[l]
  BY DEF NxtLq
<1> QED
  BY <1>1, <1>2

-----------------------------------------------------------------------------
(* The typing, and the values that loads get. *)

\* A finish port is a slot.
LEMMA FinishSlots ==
  ASSUME finish_ptr \in SqSlots
  PROVE  /\ \A k \in 0 .. STU_NUM : FinishSlot(k) \in SqSlots
         /\ Cardinality(FinishedPorts) \in 0 .. STU_NUM
         /\ 0 \in SqSlots /\ 0 \in LqSlots
<1>1. SQSIZE \in Nat /\ LQSIZE \in Nat /\ STU_NUM \in 1 .. SQSIZE /\ LD_ISSUE_WIDTH \in 1 .. LQSIZE
  BY QueuesAssumption
<1>2. PICK n \in Nat : n = STU_NUM
  BY <1>1
<1>3. \A k \in 0 .. STU_NUM : FinishSlot(k) \in SqSlots
  BY <1>1 DEF FinishSlot, Wrap, SqSlots
<1>4. FinishedPorts \in SUBSET (0 .. n - 1)
  BY <1>2 DEF FinishedPorts
<1>5. IsFiniteSet(0 .. n - 1) /\ Cardinality(0 .. n - 1) = n
  BY FS_Interval
<1>6. Cardinality(FinishedPorts) \in Nat /\ Cardinality(FinishedPorts) <= n
  BY <1>4, <1>5, FS_Subset, FS_CardinalityType
<1> QED
  BY <1>1, <1>2, <1>3, <1>6 DEF SqSlots, LqSlots

\* The types after a cycle.
LEMMA TypedNext ==
  ASSUME Typed, Numbering, Success \subseteq Loads,
         NEW g, NEW issue, NEW stas, NEW stds, NEW racing,
         May(g, issue, stas, stds), Turn(g, issue, stas, stds, racing)
  PROVE  Typed'
<1>1. g \in Groups /\ RobAfter(g, racing)
  BY DEF May, Turn
<1>2. IsList(rob') /\ Len(rob') <= ROB_SIZE
  BY <1>1, Places DEF May, Kept
<1>3. ASSUME NEW i \in DOMAIN rob' PROVE rob'[i].lq \in LqIndices /\ rob'[i].sq \in SqIndices
  <2>1. PICK l \in Nat : l = Len(rob') /\ DOMAIN rob' = 1 .. l
    BY <1>2, ListDef
  <2>2. Numbering' /\ SQSIZE \in Nat /\ LQSIZE \in Nat
    BY NumberingNext, QueuesAssumption
  <2>3. PICK f : Numbered("store", Program', Len(rob'), SqOf', SQSIZE, sqhead', stNum', st_deq_ptr', f)
    BY <2>2 DEF Numbering
  <2>4. PICK e : Numbered("load", Program', Len(rob'), LqOf', LQSIZE, lqhead', ldNum', ld_deq_ptr', e)
    BY <2>2 DEF Numbering
  <2>5. SqOf'[i] \in Indices(SQSIZE)
    BY <2>1, <2>2, <2>3, NumberedPlace
  <2>6. LqOf'[i] \in Indices(LQSIZE)
    BY <2>1, <2>2, <2>4, NumberedPlace
  <2>7. SqOf'[i] = rob'[i].sq /\ LqOf'[i] = rob'[i].lq
    BY DEF SqOf, LqOf
  <2> QED
    BY <2>5, <2>6, <2>7 DEF Indices, SqIndices, LqIndices, SqSlots, LqSlots
<1>4. ASSUME NEW i \in DOMAIN rob' PROVE IsEntry(rob'[i])
  <2>1. CASE i \in 1 .. Kept
    <3>1. PICK j : j = CommitNum + i
      OBVIOUS
    <3>2. j \in 1 .. Len(rob) /\ (IsEntry(rob[j]) => IsEntry(rob'[i]))
      BY <1>1, <2>1, <3>1, Stays
    <3> QED
      BY <3>2, RobFacts DEF Typed
  <2>2. CASE \E h \in 1 .. Len(g) : i = Kept + h
    BY <1>1, <1>3, <2>2, Comes
  <2> QED
    BY <1>1, <2>1, <2>2, Places
<1>5. finish_ptr' \in SqSlots
  <2>1. finish_ptr' = IF Finishes(0) THEN FinishSlot(Cardinality(FinishedPorts)) ELSE finish_ptr
    BY DEF Turn
  <2> QED
    BY <2>1, FinishSlots DEF Typed
<1>6. First \in SqIndices /\ First \in LqIndices
  BY FinishSlots DEF Typed, First, SqIndices, LqIndices
<1>7. ASSUME NEW s \in SqSlots
      PROVE  /\ sq'[s].addr_vld \in BOOLEAN /\ sq'[s].data_vld \in BOOLEAN
             /\ sq'[s].mask \subseteq Bytes /\ sq'[s].sqIdx \in SqIndices
  <2>1. /\ sq[s].addr_vld \in BOOLEAN /\ sq[s].data_vld \in BOOLEAN
        /\ sq[s].mask \subseteq Bytes /\ sq[s].sqIdx \in SqIndices
    BY DEF Typed
  <2>2. sq' = NextSq(NxtSq(stas, stds), StoresGone)
    BY DEF Turn
  <2>3. CASE s \in SqGone
    <3>1. sq'[s] = EmptyStore
      BY <2>2, <2>3, SqAfter
    <3> QED
      BY <1>6, <3>1 DEF EmptyStore
  <2>4. CASE s \notin SqGone
    <3>1. /\ sq'[s].addr_vld = (sq[s].addr_vld \/ s \in stas)
          /\ sq'[s].data_vld = (sq[s].data_vld \/ s \in stds)
          /\ s \in stas => sq'[s].mask = rob[StoreAt(s)].inst.mask /\ sq'[s].sqIdx = rob[StoreAt(s)].sq
          /\ s \notin stas => sq'[s].mask = sq[s].mask /\ sq'[s].sqIdx = sq[s].sqIdx
      BY <2>2, <2>4, SqAfter
    <3>2. ASSUME s \in stas
          PROVE  rob[StoreAt(s)].inst.mask \subseteq Bytes /\ rob[StoreAt(s)].sq \in SqIndices
      <4>1. s \in Stores
        BY <3>2 DEF May, NoAddress
      <4>2. StoreAt(s) \in 1 .. Len(rob)
        BY <4>1, SlotFacts
      <4> QED
        BY <4>2, RobFacts
    <3> QED
      BY <2>1, <3>1, <3>2
  <2> QED
    BY <2>3, <2>4
<1>8. ASSUME NEW l \in LqSlots
      PROVE  lq'[l].vld \in BOOLEAN /\ lq'[l].mask \subseteq Bytes /\ lq'[l].sqIdx \in SqIndices
  <2>1. lq[l].vld \in BOOLEAN /\ lq[l].mask \subseteq Bytes /\ lq[l].sqIdx \in SqIndices
    BY DEF Typed
  <2>2. lq' = [x \in LqSlots |->
                 IF \E k \in 0 .. LoadsGone - 1 : x = Wrap(ld_deq_ptr + k, LQSIZE)
                 THEN EmptyLoad ELSE NxtLq(Success)[x]]
    BY DEF Turn
  <2>3. CASE l \in LqGone
    <3>1. lq'[l] = EmptyLoad
      BY <2>2, <2>3, LqAfter
    <3> QED
      BY <1>6, <3>1 DEF EmptyLoad
  <2>4. CASE l \notin LqGone /\ l \in Success
    <3>1. lq'[l] = [vld |-> TRUE, mask |-> rob[LoadAt(l)].inst.mask, sqIdx |-> rob[LoadAt(l)].sq]
      BY <2>2, <2>4, LqAfter
    <3>2. LoadAt(l) \in 1 .. Len(rob)
      BY <2>4, SlotFacts
    <3> QED
      BY <3>1, <3>2, RobFacts
  <2>5. CASE l \notin LqGone /\ l \notin Success
    <3>1. lq'[l] = lq[l]
      BY <2>2, <2>5, LqAfter
    <3> QED
      BY <2>1, <3>1
  <2> QED
    BY <2>3, <2>4, <2>5
<1> QED
  BY <1>2, <1>4, <1>5, <1>7, <1>8 DEF Typed

\* What leaves s1 is a load that has not executed.
LEMMA SuccessFacts ==
  ASSUME QueueInv
  PROVE  /\ Success \subseteq Loads
         /\ \A l \in Success : /\ l \in InS1 /\ ~Executed(LoadAt(l))
                               /\ \E r \in Ready : r.lq = l
<1>1. \A l \in Success : \E r \in Ready : r.lq = l /\ r \in s1
  BY DEF Success, Ready
<1> QED
  BY <1>1 DEF QueueInv, Piped, InS1

\* What a load gets has its bytes.
LEMMA ValueFacts ==
  ASSUME QueueInv, NEW racing, NEW l \in Success
  PROVE  \E r \in Ready, m \in {mem, Committed(StoresGone)} :
           /\ r \in s1 /\ r.lq = l /\ Value(racing)[l] = Merged(r, m)
           /\ m = IF l \in racing THEN Committed(StoresGone) ELSE mem
           /\ DOMAIN Value(racing)[l] = rob[LoadAt(l)].inst.mask
           /\ Value(racing)[l] # NotExecuted
<1>1. PICK r, m : /\ r = CHOOSE x \in Ready : x.lq = l
                  /\ m = IF l \in racing THEN Committed(StoresGone) ELSE mem
  OBVIOUS
<1>2. r \in Ready /\ r.lq = l
  BY <1>1, SuccessFacts
<1>3. Value(racing)[l] = Merged(r, m)
  BY <1>1 DEF Value
<1>4. r \in s1
  BY <1>2 DEF Ready
<1>5. DOMAIN r.bytes = rob[LoadAt(l)].inst.mask
  BY <1>2, <1>4 DEF QueueInv, Piped
<1>6. DOMAIN Merged(r, m) = DOMAIN r.bytes
  BY DEF Merged
<1>7. rob[LoadAt(l)].inst.mask # {}
  <2>1. LoadAt(l) \in 1 .. Len(rob)
    BY SuccessFacts, SlotFacts DEF QueueInv
  <2> QED
    BY <2>1, RobFacts DEF QueueInv
<1>8. DOMAIN NotExecuted = {}
  BY DEF NotExecuted
<1>9. Merged(r, m) # NotExecuted
  BY <1>5, <1>6, <1>7, <1>8
<1> QED
  BY <1>1, <1>2, <1>3, <1>4, <1>5, <1>6, <1>9

-----------------------------------------------------------------------------
(* The stores keep what they were told. *)

\* The slots in the next state.
LEMMA SlotsNext ==
  ASSUME Typed', Numbering'
  PROVE  /\ \A i \in DOMAIN rob' : IsStore(i)' => rob'[i].sq.idx \in Stores' /\ StoreAt(rob[i].sq.idx)' = i
         /\ \A i \in DOMAIN rob' : IsLoad(i)' => rob'[i].lq.idx \in Loads' /\ LoadAt(rob[i].lq.idx)' = i
<1>1. (Typed /\ Numbering =>
         /\ \A i \in 1 .. Len(rob) : IsStore(i) => rob[i].sq.idx \in Stores /\ StoreAt(rob[i].sq.idx) = i
         /\ \A s \in Stores : /\ s \in SqSlots /\ StoreAt(s) \in 1 .. Len(rob)
                              /\ IsStore(StoreAt(s)) /\ rob[StoreAt(s)].sq.idx = s
         /\ \A i \in 1 .. Len(rob) : IsLoad(i) => rob[i].lq.idx \in Loads /\ LoadAt(rob[i].lq.idx) = i
         /\ \A l \in Loads : /\ l \in LqSlots /\ LoadAt(l) \in 1 .. Len(rob)
                             /\ IsLoad(LoadAt(l)) /\ rob[LoadAt(l)].lq.idx = l)'
  BY SlotFacts, PTL
<1>2. DOMAIN rob' = 1 .. Len(rob')
  <2>1. IsList(rob')
    BY DEF Typed
  <2> QED
    BY <2>1, ListDef
<1> QED
  BY <1>1, <1>2

\* What does not retire keeps its slot and moves up.
LEMMA StoreMoves ==
  ASSUME Typed, Numbering, NEW g \in Groups, NEW racing, RobAfter(g, racing), Typed', Numbering',
         NEW s \in Stores, s \notin SqGone
  PROVE  \E i \in 1 .. Kept : /\ StoreAt(s) = CommitNum + i /\ StoreAt(s)' = i
                              /\ IsStore(i)' /\ rob'[i].sq.idx = s /\ s \in Stores'
<1>1. PICK j \in 1 .. Len(rob) : j = StoreAt(s) /\ IsStore(j) /\ rob[j].sq.idx = s
  BY SlotFacts
<1>2. ~(j <= CommitNum)
  BY <1>1, GoneSlots
<1>3. PICK i \in 1 .. Kept : j = CommitNum + i
  BY <1>2, Places
<1>4. rob'[i].inst = rob[j].inst /\ rob'[i].sq = rob[j].sq /\ i \in DOMAIN rob'
  BY <1>3, Stays
<1>5. IsStore(i)' /\ rob'[i].sq.idx = s
  BY <1>1, <1>4 DEF IsStore
<1>6. s \in Stores' /\ StoreAt(s)' = i
  <2>3. rob'[i].sq.idx \in Stores' /\ StoreAt(rob[i].sq.idx)' = i
    BY <1>4, <1>5, SlotsNext
  <2>4. StoreAt(rob[i].sq.idx)' = StoreAt(s)'
    BY <1>5 DEF StoreAt
  <2> QED
    BY <1>5, <2>3, <2>4
<1> QED
  BY <1>1, <1>3, <1>5, <1>6

\* A slot of the load queue that is not freed stays with its load.
LEMMA LoadMoves ==
  ASSUME Typed, Numbering, NEW g \in Groups, NEW racing, RobAfter(g, racing), Typed', Numbering',
         NEW l \in Loads, l \notin LqGone
  PROVE  \E i \in 1 .. Kept : /\ LoadAt(l) = CommitNum + i /\ LoadAt(l)' = i
                              /\ IsLoad(i)' /\ rob'[i].lq.idx = l /\ l \in Loads'
<1>1. PICK j \in 1 .. Len(rob) : j = LoadAt(l) /\ IsLoad(j) /\ rob[j].lq.idx = l
  BY SlotFacts
<1>2. ~(j <= CommitNum)
  BY <1>1, GoneSlots
<1>3. PICK i \in 1 .. Kept : j = CommitNum + i
  BY <1>2, Places
<1>4. rob'[i].inst = rob[j].inst /\ rob'[i].lq = rob[j].lq /\ i \in DOMAIN rob'
  BY <1>3, Stays
<1>5. IsLoad(i)' /\ rob'[i].lq.idx = l
  BY <1>1, <1>4 DEF IsLoad
<1>6. l \in Loads' /\ LoadAt(l)' = i
  <2>3. rob'[i].lq.idx \in Loads' /\ LoadAt(rob[i].lq.idx)' = i
    BY <1>4, <1>5, SlotsNext
  <2>4. LoadAt(rob[i].lq.idx)' = LoadAt(l)'
    BY <1>5 DEF LoadAt
  <2> QED
    BY <1>5, <2>3, <2>4
<1> QED
  BY <1>1, <1>3, <1>5, <1>6

\* A load that has not finished does not retire.
LEMMA Unfinished ==
  ASSUME Typed, Numbering, NEW l \in Loads, ~rob[LoadAt(l)].fin
  PROVE  l \notin LqGone
<1>1. PICK j \in 1 .. Len(rob) : j = LoadAt(l) /\ IsLoad(j) /\ rob[j].lq.idx = l
  BY SlotFacts
<1>2. ~(j <= CommitNum)
  BY <1>1, CommitFacts, RobFacts
<1> QED
  BY <1>1, <1>2, GoneSlots

\* The store queue holds what it should.
LEMMA StoresHeldNext ==
  ASSUME QueueInv, NEW g, NEW issue, NEW stas, NEW stds, NEW racing,
         May(g, issue, stas, stds), Turn(g, issue, stas, stds, racing), Typed', Numbering'
  PROVE  StoresHeld'
<1>1. g \in Groups /\ RobAfter(g, racing) /\ Typed /\ Numbering /\ StoresHeld
  BY DEF May, Turn, QueueInv
<1>2. sq' = NextSq(NxtSq(stas, stds), StoresGone) /\ stas \subseteq Stores /\ stds \subseteq Stores
  BY DEF Turn, May, NoAddress, NoData
<1>3. ASSUME NEW s \in SqSlots, sq'[s].addr_vld \/ sq'[s].data_vld
      PROVE  s \notin SqGone /\ s \in Stores
  <2>1. s \notin SqGone
    BY <1>2, <1>3, SqAfter DEF EmptyStore
  <2>2. sq[s].addr_vld \/ s \in stas \/ sq[s].data_vld \/ s \in stds
    BY <1>2, <1>3, <2>1, SqAfter
  <2> QED
    BY <1>1, <1>2, <2>1, <2>2 DEF StoresHeld
<1>4. \A s \in SqSlots : sq'[s].addr_vld \/ sq'[s].data_vld =>
        s \in Stores' /\ \E i \in 1 .. Kept : IsStore(i)' /\ rob'[i].sq.idx = s
  BY <1>1, <1>3, StoreMoves
<1>5. ASSUME NEW i \in 1 .. Kept, IsStore(i)'
      PROVE  StoreHeld(i)'
  <2>1. PICK j : j = CommitNum + i
    OBVIOUS
  <2>2. /\ j \in 1 .. Len(rob) /\ i \in DOMAIN rob'
        /\ rob'[i].inst = rob[j].inst /\ rob'[i].sq = rob[j].sq
        /\ rob'[i].fin = (rob[j].fin \/ Done(j))
        /\ rob'[i].val = IF IsLoad(j) /\ rob[j].lq.idx \in Success
                         THEN Value(racing)[rob[j].lq.idx] ELSE rob[j].val
    BY <1>1, <2>1, Stays
  <2>3. IsStore(j) /\ ~IsLoad(j) /\ j \in DOMAIN rob
    BY <1>1, <1>5, <2>2, RobFacts DEF IsStore
  <2>4. PICK s \in SqSlots : s = rob[j].sq.idx /\ s \in Stores /\ StoreAt(s) = j
    BY <1>1, <2>2, <2>3, SlotFacts
  <2>5. s \notin SqGone
    <3>1. ~(j <= CommitNum)
      BY <1>1, <2>1, Places
    <3> QED
      BY <1>1, <2>2, <2>3, <2>4, <3>1, GoneSlots
  <2>6. /\ sq'[s].addr_vld = (sq[s].addr_vld \/ s \in stas)
        /\ sq'[s].data_vld = (sq[s].data_vld \/ s \in stds)
        /\ s \in stas => sq'[s].mask = rob[j].inst.mask /\ sq'[s].sqIdx = rob[j].sq
        /\ s \notin stas => sq'[s].mask = sq[s].mask /\ sq'[s].sqIdx = sq[s].sqIdx
        /\ s \in stds => sq'[s].data = rob[j].inst.data
        /\ s \notin stds => sq'[s].data = sq[s].data
    BY <1>2, <2>4, <2>5, SqAfter
  <2>7. StoreHeld(j)
    BY <1>1, <2>3 DEF StoresHeld
  <2>8. ASSUME Done(j) PROVE sq[s].addr_vld /\ sq[s].data_vld
    BY <2>3, <2>4, <2>8 DEF Done, FinishedPorts, Finishes
  <2>9. rob[j].fin \/ Done(j) => sq[s].addr_vld /\ sq[s].data_vld
    BY <2>4, <2>7, <2>8 DEF StoreHeld
  <2>10. rob'[i].fin => sq'[s].addr_vld /\ sq'[s].data_vld
    BY <2>2, <2>6, <2>9
  <2>11. rob'[i].val = NotExecuted
    BY <2>2, <2>3, <2>7 DEF StoreHeld, Executed
  <2>12. sq'[s].addr_vld => sq'[s].mask = rob'[i].inst.mask /\ sq'[s].sqIdx = rob'[i].sq
    BY <2>2, <2>4, <2>6, <2>7 DEF StoreHeld
  <2>13. sq'[s].data_vld => sq'[s].data = rob'[i].inst.data
    BY <2>2, <2>4, <2>6, <2>7 DEF StoreHeld
  <2> QED
    BY <2>2, <2>4, <2>10, <2>11, <2>12, <2>13 DEF StoreHeld, Executed
<1>6. ASSUME NEW h \in 1 .. Len(g), NEW i, i = Kept + h, IsStore(i)'
      PROVE  StoreHeld(i)'
  <2>1. i \in DOMAIN rob' /\ rob'[i].fin = FALSE /\ rob'[i].val = NotExecuted
    BY <1>1, <1>6, Comes
  <2>2. PICK s \in SqSlots : s = rob'[i].sq.idx
    BY <2>1 DEF Typed, IsEntry, SqIndices
  <2>3. ~(sq'[s].addr_vld \/ sq'[s].data_vld)
    <3>1. ASSUME sq'[s].addr_vld \/ sq'[s].data_vld PROVE FALSE
      <4>1. PICK x \in 1 .. Kept : IsStore(x)' /\ rob'[x].sq.idx = s
        BY <1>4, <3>1
      <4>3. x \in DOMAIN rob' /\ x # i
        <5>1. x \in DOMAIN rob' /\ Kept \in Nat /\ Len(g) \in Nat
          BY <1>1, Places
        <5>2. x # i
          BY <1>6, <5>1
        <5> QED
          BY <5>1, <5>2
      <4>4. StoreAt(rob[x].sq.idx)' = x /\ StoreAt(rob[i].sq.idx)' = i
        BY <1>6, <2>1, <4>1, <4>3, SlotsNext
      <4>5. StoreAt(rob[x].sq.idx)' = StoreAt(rob[i].sq.idx)'
        BY <2>2, <4>1 DEF StoreAt
      <4> QED
        BY <4>3, <4>4, <4>5
    <3> QED
      BY <3>1
  <2> QED
    BY <2>1, <2>2, <2>3 DEF StoreHeld, Executed
<1>7. ASSUME NEW i \in DOMAIN rob', IsStore(i)' PROVE StoreHeld(i)'
  <2>1. CASE i \in 1 .. Kept
    BY <1>5, <1>7, <2>1
  <2>2. CASE \E h \in 1 .. Len(g) : i = Kept + h
    BY <1>6, <1>7, <2>2
  <2> QED
    BY <1>1, <2>1, <2>2, Places
<1> QED
  BY <1>4, <1>7 DEF StoresHeld

-----------------------------------------------------------------------------
(* The loads, and the pipeline. *)

\* A load that has been in flight for the whole cycle, before and after it.
LEMMA LoadChange ==
  ASSUME QueueInv, NEW g, NEW issue, NEW stas, NEW stds, NEW racing,
         May(g, issue, stas, stds), Turn(g, issue, stas, stds, racing), Typed', Numbering',
         NEW i \in 1 .. Kept, NEW j, j = CommitNum + i, IsLoad(i)'
  PROVE  /\ j \in 1 .. Len(rob) /\ IsLoad(j) /\ rob[j].lq.idx \in LqSlots
         /\ rob[j].lq.idx \in Loads /\ LoadAt(rob[j].lq.idx) = j
         /\ rob'[i].inst = rob[j].inst /\ rob'[i].lq = rob[j].lq /\ rob'[i].sq = rob[j].sq
         /\ rob'[i].fin = (rob[j].fin \/ rob[j].lq.idx \in s3)
         /\ Executed(i)' <=> Executed(j) \/ rob[j].lq.idx \in Success
         /\ rob[j].lq.idx \notin Success => rob'[i].val = rob[j].val
         /\ rob[j].lq.idx \in Success => rob'[i].val = Value(racing)[rob[j].lq.idx]
         /\ lq'[rob[j].lq.idx] =
              IF rob[j].lq.idx \in Success
              THEN [vld |-> TRUE, mask |-> rob[j].inst.mask, sqIdx |-> rob[j].sq]
              ELSE lq[rob[j].lq.idx]
<1>1. g \in Groups /\ RobAfter(g, racing) /\ Typed /\ Numbering
  BY DEF May, Turn, QueueInv
<1>2. /\ j \in 1 .. Len(rob) /\ i \in DOMAIN rob'
      /\ rob'[i].inst = rob[j].inst /\ rob'[i].lq = rob[j].lq /\ rob'[i].sq = rob[j].sq
      /\ rob'[i].fin = (rob[j].fin \/ Done(j))
      /\ rob'[i].val = IF IsLoad(j) /\ rob[j].lq.idx \in Success
                       THEN Value(racing)[rob[j].lq.idx] ELSE rob[j].val
  BY <1>1, Stays
<1>3. IsLoad(j) /\ ~IsStore(j)
  BY <1>1, <1>2, RobFacts DEF IsLoad
<1>4. PICK l \in LqSlots : l = rob[j].lq.idx /\ l \in Loads /\ LoadAt(l) = j
  BY <1>1, <1>2, <1>3, SlotFacts
<1>5. l \notin LqGone
  <2>1. ~(j <= CommitNum)
    BY <1>1, Places
  <2> QED
    BY <1>1, <1>2, <1>3, <1>4, <2>1, GoneSlots
<1>6. lq'[l] = IF l \in Success THEN [vld |-> TRUE, mask |-> rob[j].inst.mask, sqIdx |-> rob[j].sq]
               ELSE lq[l]
  <2>1. lq' = [x \in LqSlots |->
                 IF \E k \in 0 .. LoadsGone - 1 : x = Wrap(ld_deq_ptr + k, LQSIZE)
                 THEN EmptyLoad ELSE NxtLq(Success)[x]]
    BY DEF Turn
  <2> QED
    BY <1>4, <1>5, <2>1, LqAfter
<1>7. Done(j) <=> l \in s3
  BY <1>3, <1>4 DEF Done
<1>8. l \in Success => Value(racing)[l] # NotExecuted
  BY ValueFacts
<1>9. rob'[i].fin = (rob[j].fin \/ l \in s3)
  BY <1>2, <1>7
<1>10. rob'[i].val = IF l \in Success THEN Value(racing)[l] ELSE rob[j].val
  BY <1>2, <1>3, <1>4
<1>11. Executed(i)' <=> Executed(j) \/ l \in Success
  <2>1. l \in Success => ~Executed(j)
    BY <1>4, SuccessFacts
  <2> QED
    BY <1>8, <1>10 DEF Executed
<1> QED
  BY <1>2, <1>3, <1>4, <1>6, <1>9, <1>10, <1>11

\* The load queue holds what it should.
LEMMA LoadsHeldNext ==
  ASSUME QueueInv, NEW g, NEW issue, NEW stas, NEW stds, NEW racing,
         May(g, issue, stas, stds), Turn(g, issue, stas, stds, racing), Typed', Numbering'
  PROVE  LoadsHeld'
<1>1. g \in Groups /\ RobAfter(g, racing) /\ Typed /\ Numbering /\ LoadsHeld
  BY DEF May, Turn, QueueInv
<1>2. lq' = [x \in LqSlots |->
               IF \E k \in 0 .. LoadsGone - 1 : x = Wrap(ld_deq_ptr + k, LQSIZE)
               THEN EmptyLoad ELSE NxtLq(Success)[x]]
  BY DEF Turn
<1>3. ASSUME NEW l \in LqSlots, lq'[l].vld
      PROVE  l \notin LqGone /\ l \in Loads
  <2>1. l \notin LqGone
    <3>1. l \in LqGone => lq'[l] = EmptyLoad
      BY <1>2, LqAfter
    <3>2. ~EmptyLoad.vld
      BY DEF EmptyLoad
    <3> QED
      BY <1>3, <3>1, <3>2
  <2>2. l \in Success \/ lq[l].vld
    BY <1>2, <1>3, <2>1, LqAfter
  <2> QED
    BY <1>1, <2>1, <2>2, SuccessFacts DEF LoadsHeld
<1>4. \A l \in LqSlots : lq'[l].vld => l \in Loads' /\ \E i \in 1 .. Kept : IsLoad(i)' /\ rob'[i].lq.idx = l
  BY <1>1, <1>3, LoadMoves
<1>5. ASSUME NEW i \in 1 .. Kept, IsLoad(i)' PROVE LoadHeld(i)'
  <2>1. PICK j : j = CommitNum + i
    OBVIOUS
  <2>2. PICK l \in LqSlots : l = rob[j].lq.idx /\ l \in Loads /\ LoadAt(l) = j
    BY <1>5, <2>1, LoadChange
  <2>3. /\ j \in 1 .. Len(rob) /\ IsLoad(j)
        /\ rob'[i].inst = rob[j].inst /\ rob'[i].lq = rob[j].lq /\ rob'[i].sq = rob[j].sq
        /\ rob'[i].fin = (rob[j].fin \/ l \in s3)
        /\ Executed(i)' <=> Executed(j) \/ l \in Success
        /\ lq'[l] = IF l \in Success
                    THEN [vld |-> TRUE, mask |-> rob[j].inst.mask, sqIdx |-> rob[j].sq]
                    ELSE lq[l]
    BY <1>5, <2>1, <2>2, LoadChange
  <2>4. LoadHeld(j) /\ lq[l].vld \in BOOLEAN
    BY <1>1, <2>2, <2>3, RobFacts DEF LoadsHeld, Typed
  <2>5. l \in s3 => Executed(j)
    BY <2>2 DEF QueueInv, Piped
  <2>6. CASE l \in Success
    BY <2>2, <2>3, <2>4, <2>5, <2>6 DEF LoadHeld
  <2>7. CASE l \notin Success
    BY <2>2, <2>3, <2>4, <2>5, <2>7 DEF LoadHeld
  <2> QED
    BY <2>6, <2>7
<1>6. ASSUME NEW h \in 1 .. Len(g), NEW i, i = Kept + h, IsLoad(i)' PROVE LoadHeld(i)'
  <2>1. i \in DOMAIN rob' /\ rob'[i].fin = FALSE /\ rob'[i].val = NotExecuted
    BY <1>1, <1>6, Comes
  <2>2. PICK l \in LqSlots : l = rob'[i].lq.idx
    BY <2>1 DEF Typed, IsEntry, LqIndices
  <2>3. ~lq'[l].vld
    <3>1. ASSUME lq'[l].vld PROVE FALSE
      <4>1. PICK x \in 1 .. Kept : IsLoad(x)' /\ rob'[x].lq.idx = l
        BY <1>4, <3>1
      <4>2. x \in DOMAIN rob' /\ x # i
        <5>1. x \in DOMAIN rob' /\ Kept \in Nat /\ Len(g) \in Nat
          BY <1>1, Places
        <5> QED
          BY <1>6, <5>1
      <4>3. LoadAt(rob[x].lq.idx)' = x /\ LoadAt(rob[i].lq.idx)' = i
        BY <1>6, <2>1, <4>1, <4>2, SlotsNext
      <4>4. LoadAt(rob[x].lq.idx)' = LoadAt(rob[i].lq.idx)'
        BY <2>2, <4>1 DEF LoadAt
      <4> QED
        BY <4>2, <4>3, <4>4
    <3> QED
      BY <3>1
  <2> QED
    BY <2>1, <2>2, <2>3 DEF LoadHeld, Executed
<1>7. ASSUME NEW i \in DOMAIN rob', IsLoad(i)' PROVE LoadHeld(i)'
  <2>1. CASE i \in 1 .. Kept
    BY <1>5, <1>7, <2>1
  <2>2. CASE \E h \in 1 .. Len(g) : i = Kept + h
    BY <1>6, <1>7, <2>2
  <2> QED
    BY <1>1, <2>1, <2>2, Places
<1> QED
  BY <1>4, <1>7 DEF LoadsHeld

\* What is in the load pipeline is as it should be.
LEMMA PipedNext ==
  ASSUME QueueInv, NEW g, NEW issue, NEW stas, NEW stds, NEW racing,
         May(g, issue, stas, stds), Turn(g, issue, stas, stds, racing), Typed', Numbering'
  PROVE  Piped'
<1>1. g \in Groups /\ RobAfter(g, racing) /\ Typed /\ Numbering /\ LoadsHeld /\ Piped
  BY DEF May, Turn, QueueInv
<1>2. /\ s1' = {[lq |-> l, match |-> Matches(l, NxtSq(stas, stds)),
                  bytes |-> [b \in rob[LoadAt(l)].inst.mask |-> Covering(l, NxtSq(stas, stds), b)]] : l \in issue}
      /\ s2' = Success /\ s3' = s2
  BY DEF Turn
<1>3. ASSUME NEW l \in Loads, ~rob[LoadAt(l)].fin
      PROVE  \E i \in 1 .. Kept :
               /\ LoadAt(l)' = i /\ l \in Loads'
               /\ rob'[i].inst = rob[LoadAt(l)].inst
               /\ rob'[i].fin = (l \in s3)
               /\ Executed(i)' <=> Executed(LoadAt(l)) \/ l \in Success
  <2>1. PICK i \in 1 .. Kept : /\ LoadAt(l) = CommitNum + i /\ LoadAt(l)' = i
                               /\ IsLoad(i)' /\ rob'[i].lq.idx = l /\ l \in Loads'
    BY <1>1, <1>3, Unfinished, LoadMoves
  <2>2. PICK j : j = CommitNum + i
    OBVIOUS
  <2>3. /\ rob[j].lq.idx = l /\ rob'[i].inst = rob[j].inst
        /\ rob'[i].fin = (rob[j].fin \/ rob[j].lq.idx \in s3)
        /\ Executed(i)' <=> Executed(j) \/ rob[j].lq.idx \in Success
    <3>1. rob[j].lq.idx = l
      BY <1>1, <2>1, <2>2, SlotFacts
    <3> QED
      BY <2>1, <2>2, <3>1, LoadChange, ZenonT(60)
  <2>4. rob[j].fin = FALSE
    <3>1. rob[j].fin \in BOOLEAN
      BY <1>1, <2>1, <2>2, SlotFacts, RobFacts
    <3> QED
      BY <1>3, <2>1, <2>2, <3>1
  <2> QED
    BY <2>1, <2>2, <2>3, <2>4
<1>4. \A l \in Loads : ~Executed(LoadAt(l)) => ~rob[LoadAt(l)].fin
  <2> TAKE l \in Loads
  <2>1. PICK j \in 1 .. Len(rob) : j = LoadAt(l) /\ IsLoad(j) /\ j \in DOMAIN rob
    BY <1>1, SlotFacts, RobFacts
  <2> QED
    BY <1>1, <2>1 DEF LoadsHeld, LoadHeld
<1>5. ASSUME NEW r \in s1'
      PROVE  /\ r.lq \in Loads' /\ ~Executed(LoadAt(r.lq))'
             /\ DOMAIN r.bytes = rob'[LoadAt(r.lq)'].inst.mask
             /\ \A q \in s1' : q.lq = r.lq => q = r
  <2>1. PICK l \in issue : r = [lq |-> l, match |-> Matches(l, NxtSq(stas, stds)),
                  bytes |-> [b \in rob[LoadAt(l)].inst.mask |-> Covering(l, NxtSq(stas, stds), b)]]
    BY <1>2
  <2>2. l \in Loads /\ rob[LoadAt(l)].val = NotExecuted /\ l \notin InS1
    BY DEF May, Issuable, Unexecuted
  <2>3. r.lq = l /\ DOMAIN r.bytes = rob[LoadAt(l)].inst.mask
    BY <2>1
  <2>4. ~Executed(LoadAt(l)) /\ ~rob[LoadAt(l)].fin
    BY <1>4, <2>2 DEF Executed
  <2>5. PICK i \in 1 .. Kept :
               /\ LoadAt(l)' = i /\ l \in Loads'
               /\ rob'[i].inst = rob[LoadAt(l)].inst
               /\ Executed(i)' <=> Executed(LoadAt(l)) \/ l \in Success
    BY <1>3, <2>2, <2>4
  <2>6. l \notin Success
    BY <2>2, SuccessFacts
  <2>7. rob'[i].val = NotExecuted
    BY <2>4, <2>5, <2>6 DEF Executed
  <2>8. ~Executed(LoadAt(r.lq))'
    BY <2>3, <2>5, <2>7 DEF Executed
  <2>9. LoadAt(r.lq)' = i
    BY <2>3, <2>5
  <2>10. \A q \in s1' : q.lq = r.lq => q = r
    <3>1. \A q \in s1' : \E k \in issue :
            q = [lq |-> k, match |-> Matches(k, NxtSq(stas, stds)),
                 bytes |-> [b \in rob[LoadAt(k)].inst.mask |-> Covering(k, NxtSq(stas, stds), b)]]
      BY <1>2
    <3> QED
      BY <2>1, <3>1
  <2> QED
    BY <2>3, <2>5, <2>8, <2>9, <2>10
<1>6. ASSUME NEW l \in s2' \union s3'
      PROVE  l \in Loads' /\ Executed(LoadAt(l))' /\ ~rob'[LoadAt(l)'].fin
  <2>1. l \in Loads /\ ~rob[LoadAt(l)].fin /\ l \notin s3 /\ (Executed(LoadAt(l)) \/ l \in Success)
    <3>1. CASE l \in Success
      BY <1>1, <1>4, <3>1, SuccessFacts DEF Piped
    <3>2. CASE l \in s2
      BY <1>1, <3>2 DEF Piped
    <3> QED
      BY <1>2, <3>1, <3>2
  <2>2. PICK i \in 1 .. Kept :
               /\ LoadAt(l)' = i /\ l \in Loads'
               /\ rob'[i].fin = (l \in s3)
               /\ Executed(i)' <=> Executed(LoadAt(l)) \/ l \in Success
    BY <1>3, <2>1
  <2>3. rob'[i].val # NotExecuted /\ ~rob'[i].fin
    BY <2>1, <2>2 DEF Executed
  <2> QED
    BY <2>2, <2>3 DEF Executed
<1>7. s2' \intersect s3' = {}
  BY <1>1, <1>2, SuccessFacts DEF Piped
<1> QED
  BY <1>5, <1>6, <1>7 DEF Piped

-----------------------------------------------------------------------------
(* The invariant of the queues always holds. *)

\* A cycle keeps the invariant of the queues.
LEMMA QueueCycle ==
  ASSUME QueueInv, NEW g, NEW issue, NEW stas, NEW stds, NEW racing,
         May(g, issue, stas, stds), Cycle(g, issue, stas, stds, racing)
  PROVE  QueueInv' /\ Turn(g, issue, stas, stds, racing)
<1>1. Turn(g, issue, stas, stds, racing)
  BY CycleTurn DEF QueueInv, May
<1>2. Numbering'
  BY <1>1, NumberingNext DEF QueueInv
<1>3. Typed'
  BY <1>1, SuccessFacts, TypedNext DEF QueueInv
<1>4. StoresHeld'
  BY <1>1, <1>2, <1>3, StoresHeldNext
<1>5. LoadsHeld'
  BY <1>1, <1>2, <1>3, LoadsHeldNext
<1>6. Piped'
  BY <1>1, <1>2, <1>3, PipedNext
<1> QED
  BY <1>1, <1>2, <1>3, <1>4, <1>5, <1>6 DEF QueueInv

\* nothing in flight
Cleared ==
  /\ rob = << >> /\ VlsqInit
  /\ sq = [s \in SqSlots |-> EmptyStore] /\ st_deq_ptr = 0 /\ finish_ptr = 0
  /\ lq = [l \in LqSlots |-> EmptyLoad] /\ ld_deq_ptr = 0
  /\ s1 = {} /\ s2 = {} /\ s3 = {}

\* That is how the machine starts, and what a squash leaves.
LEMMA ClearedInv == Cleared => QueueInv
<1> SUFFICES ASSUME Cleared PROVE QueueInv
  OBVIOUS
<1>1. /\ SQSIZE \in Nat /\ LQSIZE \in Nat /\ 0 < SQSIZE /\ 0 < LQSIZE /\ ROB_SIZE \in Nat
      /\ 0 \in SqSlots /\ 0 \in LqSlots
  BY QueuesAssumption DEF SqSlots, LqSlots
<1>2. IsList(rob) /\ Len(rob) = 0 /\ DOMAIN rob = {}
  <2>1. rob = << >>
    BY DEF Cleared
  <2>2. DOMAIN rob = {} /\ DOMAIN rob = 1 .. 0 /\ rob = [i \in 1 .. 0 |-> rob[i]]
    BY <2>1
  <2> QED
    BY <2>2, NewList
<1>3. First \in SqIndices /\ First \in LqIndices
  BY <1>1 DEF First, SqIndices, LqIndices
<1>4. /\ \A s \in SqSlots : sq[s] = EmptyStore
      /\ \A l \in LqSlots : lq[l] = EmptyLoad
  BY DEF Cleared
<1>5. /\ EmptyStore.addr_vld = FALSE /\ EmptyStore.data_vld = FALSE
      /\ EmptyStore.mask = {} /\ EmptyStore.sqIdx = First
      /\ EmptyLoad.vld = FALSE /\ EmptyLoad.mask = {} /\ EmptyLoad.sqIdx = First
  BY DEF EmptyStore, EmptyLoad
<1>6. Typed
  <2>1. finish_ptr \in SqSlots
    BY <1>1 DEF Cleared
  <2>2. \A s \in SqSlots : /\ sq[s].addr_vld \in BOOLEAN /\ sq[s].data_vld \in BOOLEAN
                           /\ sq[s].mask \subseteq Bytes /\ sq[s].sqIdx \in SqIndices
    BY <1>3, <1>4, <1>5
  <2>3. \A l \in LqSlots : lq[l].vld \in BOOLEAN /\ lq[l].mask \subseteq Bytes /\ lq[l].sqIdx \in SqIndices
    BY <1>3, <1>4, <1>5
  <2> QED
    BY <1>1, <1>2, <2>1, <2>2, <2>3 DEF Typed
<1>7. ASSUME NEW op, NEW p, NEW ix, NEW size \in Nat, 0 < size
      PROVE  Numbered(op, p, 0, ix, size, First, 0, 0, FALSE)
  <2>1. Count(op, p, 0) = 0
    BY CountStep
  <2>2. First = Index(From(0, FALSE), 0, size)
    BY <1>7 DEF First, Index, From, Wrap
  <2> QED
    BY <1>7, <2>1, <2>2 DEF Numbered
<1>8. Numbering
  <2>1. ldNum = 0 /\ stNum = 0 /\ lqhead = First /\ sqhead = First /\ st_deq_ptr = 0 /\ ld_deq_ptr = 0
    BY DEF Cleared, VlsqInit
  <2>2. Numbered("store", Program, 0, SqOf, SQSIZE, First, 0, 0, FALSE)
    BY <1>1, <1>7
  <2>3. Numbered("load", Program, 0, LqOf, LQSIZE, First, 0, 0, FALSE)
    BY <1>1, <1>7
  <2> QED
    BY <1>2, <2>1, <2>2, <2>3 DEF Numbering
<1>9. StoresHeld /\ LoadsHeld
  BY <1>2, <1>4, <1>5 DEF StoresHeld, LoadsHeld
<1>10. Piped
  BY DEF Cleared, Piped
<1> QED
  BY <1>6, <1>8, <1>9, <1>10 DEF QueueInv

\* The queues' invariant holds, whatever the widths.
LEMMA QueueInvariance == Spec => []QueueInv
<1>1. Init => QueueInv
  BY ClearedInv DEF Init, Cleared
<1>2. QueueInv /\ [Next]_vars => QueueInv'
  <2> SUFFICES ASSUME QueueInv, [Next]_vars PROVE QueueInv'
    OBVIOUS
  <2>1. CASE Squash
    <3>1. Cleared'
      BY <2>1 DEF Squash, Cleared, VlsqInit
    <3>2. (Cleared => QueueInv)'
      BY ClearedInv, PTL
    <3> QED
      BY <3>1, <3>2
  <2>2. CASE Advance(Groups, FALSE)
    <3>1. PICK g \in Groups, issue \in AtMost(LDU_NUM, Issuable), stas \in AtMost(STU_NUM, NoAddress),
               stds \in AtMost(STU_NUM, NoData), racing \in SUBSET InS1 :
                 /\ Len(rob) - CommitNum + Len(g) <= ROB_SIZE
                 /\ Cycle(g, issue, stas, stds, racing)
      BY <2>2, Zenon DEF Advance
    <3>2. May(g, issue, stas, stds)
      BY <3>1 DEF May, AtMost
    <3> QED
      BY <3>1, <3>2, QueueCycle
  <2>3. CASE UNCHANGED vars
    <3>1. /\ rob' = rob /\ ldNum' = ldNum /\ stNum' = stNum /\ lqhead' = lqhead /\ sqhead' = sqhead
          /\ sq' = sq /\ st_deq_ptr' = st_deq_ptr /\ finish_ptr' = finish_ptr
          /\ lq' = lq /\ ld_deq_ptr' = ld_deq_ptr /\ s1' = s1 /\ s2' = s2 /\ s3' = s3
      BY <2>3 DEF vars, vlsqVars, queueVars, pipeVars
    <3>2. Typed'
      BY <3>1 DEF QueueInv, Typed
    <3>3. Numbering'
      <4>1. Program' = Program /\ SqOf' = SqOf /\ LqOf' = LqOf
        BY <3>1 DEF Program, SqOf, LqOf
      <4> QED
        BY <3>1, <4>1 DEF QueueInv, Numbering
    <3>4. StoresHeld'
      BY <3>1 DEF QueueInv, StoresHeld, StoreHeld, Stores, IsStore, Executed
    <3>5. LoadsHeld'
      BY <3>1 DEF QueueInv, LoadsHeld, LoadHeld, Loads, IsLoad, Executed
    <3>6. Piped'
      BY <3>1 DEF QueueInv, Piped, Loads, LoadAt, IsLoad, Executed
    <3> QED
      BY <3>2, <3>3, <3>4, <3>5, <3>6 DEF QueueInv
  <2> QED
    BY <2>1, <2>2, <2>3 DEF Next
<1> QED
  BY <1>1, <1>2, PTL DEF Spec

-----------------------------------------------------------------------------
(* What the queues hold. *)

\* What is ahead of an instruction, counted.
LEMMA AheadCounts ==
  ASSUME Typed, NEW op, NEW i \in 1 .. Len(rob) + 1
  PROVE  Ahead(op, i) = Count(op, Program, i - 1) /\ Ahead(op, i) \in Nat
<1>1. \A j \in 1 .. i - 1 : rob[j].inst = Program[j]
  <2> TAKE j \in 1 .. i - 1
  <2>1. j \in 1 .. Len(rob)
    BY RobFacts
  <2> QED
    BY <2>1, RobFacts
<1>2. {j \in 1 .. i - 1 : rob[j].inst.op = op} = {j \in 1 .. i - 1 : Program[j].op = op}
  BY <1>1
<1>3. i - 1 \in Nat
  BY RobFacts
<1> QED
  BY <1>2, <1>3, CountType, ZenonT(60) DEF Ahead, Count

\* The three views of the queues agree, and nothing they assert is wrong.
LEMMA QueuesMeant ==
  QueueInv => QueuesAgree /\ CommitAssertions
<1> SUFFICES ASSUME QueueInv PROVE QueuesAgree /\ CommitAssertions
  OBVIOUS
<1>1. Typed /\ Numbering /\ StoresHeld /\ LoadsHeld /\ Piped
  BY DEF QueueInv
<1>2. PICK l \in Nat : l = Len(rob) /\ DOMAIN rob = 1 .. l
  BY <1>1, RobFacts
<1>3. SQSIZE \in Nat /\ LQSIZE \in Nat
  BY QueuesAssumption
<1>4. PICK f : Numbered("store", Program, l, SqOf, SQSIZE, sqhead, stNum, st_deq_ptr, f)
  BY <1>1, <1>2 DEF Numbering
<1>5. PICK e : Numbered("load", Program, l, LqOf, LQSIZE, lqhead, ldNum, ld_deq_ptr, e)
  BY <1>1, <1>2 DEF Numbering
<1>6. stNum = Count("store", Program, l) /\ sqhead.idx = Wrap(st_deq_ptr + stNum, SQSIZE)
  BY <1>3, <1>4, NumberedHead
<1>7. ldNum = Count("load", Program, l) /\ lqhead.idx = Wrap(ld_deq_ptr + ldNum, LQSIZE)
  BY <1>3, <1>5, NumberedHead
<1>8. ASSUME NEW op \in {"load", "store"} PROVE Ahead(op, Len(rob) + 1) = Count(op, Program, l)
  <2>1. Len(rob) + 1 \in 1 .. Len(rob) + 1 /\ Len(rob) + 1 - 1 = l
    BY <1>2
  <2> QED
    BY <1>1, <2>1, AheadCounts
<1>9. ASSUME NEW i \in 1 .. l
      PROVE  /\ rob[i].sq.idx = Wrap(st_deq_ptr + Ahead("store", i), SQSIZE)
             /\ rob[i].lq.idx = Wrap(ld_deq_ptr + Ahead("load", i), LQSIZE)
  <2>1. SqOf[i].idx = Wrap(st_deq_ptr + Count("store", Program, i - 1), SQSIZE)
    BY <1>3, <1>4, NumberedPlace
  <2>2. LqOf[i].idx = Wrap(ld_deq_ptr + Count("load", Program, i - 1), LQSIZE)
    BY <1>3, <1>5, NumberedPlace
  <2>3. i \in 1 .. Len(rob) + 1
    BY <1>2
  <2>4. Ahead("store", i) = Count("store", Program, i - 1) /\ Ahead("load", i) = Count("load", Program, i - 1)
    BY <1>1, <2>3, AheadCounts
  <2>5. SqOf[i] = rob[i].sq /\ LqOf[i] = rob[i].lq
    BY <1>1, <1>2, RobFacts
  <2> QED
    BY <2>1, <2>2, <2>4, <2>5
<1>10. QueuesAgree
  <2>1. stNum = Ahead("store", Len(rob) + 1) /\ ldNum = Ahead("load", Len(rob) + 1)
    BY <1>6, <1>7, <1>8
  <2>2. /\ {s \in SqSlots : sq[s].addr_vld \/ sq[s].data_vld} \subseteq Stores
        /\ {x \in LqSlots : lq[x].vld} \subseteq Loads
    BY <1>1 DEF StoresHeld, LoadsHeld
  <2>3. \A i \in DOMAIN rob :
          IF IsStore(i) THEN rob[i].sq.idx = Wrap(st_deq_ptr + Ahead("store", i), SQSIZE)
          ELSE rob[i].lq.idx = Wrap(ld_deq_ptr + Ahead("load", i), LQSIZE)
    BY <1>2, <1>9
  <2> QED
    BY <1>6, <1>7, <2>1, <2>2, <2>3 DEF QueuesAgree
<1>11. CommitAssertions
  <2>1. ASSUME NEW i \in 1 .. CommitNum
        PROVE  IF IsStore(i) THEN sq[rob[i].sq.idx].addr_vld /\ sq[rob[i].sq.idx].data_vld
               ELSE lq[rob[i].lq.idx].vld
    <3>1. i \in 1 .. l /\ i \in DOMAIN rob /\ rob[i].fin
      BY <1>1, <1>2, CommitFacts
    <3>2. IsStore(i) <=> ~IsLoad(i)
      BY <1>1, <1>2, <3>1, RobFacts
    <3>3. IsStore(i) => StoreHeld(i)
      BY <1>1, <3>1 DEF StoresHeld
    <3>4. IsLoad(i) => LoadHeld(i)
      BY <1>1, <3>1 DEF LoadsHeld
    <3> QED
      BY <3>1, <3>2, <3>3, <3>4 DEF StoreHeld, LoadHeld
  <2>2. ASSUME NEW x \in InS1 PROVE ~lq[x].vld
    <3>1. x \in Loads /\ ~Executed(LoadAt(x))
      BY <1>1 DEF InS1, Piped
    <3>2. PICK j \in DOMAIN rob : j = LoadAt(x) /\ IsLoad(j) /\ rob[j].lq.idx = x
      BY <1>1, <1>2, <3>1, SlotFacts
    <3>3. LoadHeld(j)
      BY <1>1, <3>2 DEF LoadsHeld
    <3> QED
      BY <3>1, <3>2, <3>3 DEF LoadHeld
  <2> QED
    BY <2>1, <2>2 DEF CommitAssertions
<1> QED
  BY <1>10, <1>11

\* The stores in flight, the store queue and the virtual queue stay the same
\* set in the same order, and so do the loads; the queues' assertions hold.
THEOREM QueuesKept == Spec => [](QueuesAgree /\ CommitAssertions)
  BY QueueInvariance, QueuesMeant, PTL

-----------------------------------------------------------------------------
(* The order of the indices. *)

\* No load has a whole turn of the store queue in front of it.
RoomBehind == \A i \in DOMAIN rob : IsLoad(i) => Ahead("store", i) < SQSIZE

\* A load that is dispatched has fewer than ST_ISSUE_WIDTH stores in front of it
\* in its group.
GroupLeavesRoom ==
  \A i \in DOMAIN rob' :
    i > Kept /\ IsLoad(i)' =>
      Count("store", Program', i - 1) - Count("store", Program', Kept) < ST_ISSUE_WIDTH

\* The program in the next state.
LEMMA ProgramNext ==
  ASSUME Typed, Numbering, NEW g \in Groups, NEW racing, RobAfter(g, racing), Typed'
  PROVE  /\ \A i \in 1 .. Kept : Program'[i] = Program[CommitNum + i]
         /\ \A h \in 1 .. Len(g) : Program'[Kept + h] = g[h]
<1>1. ASSUME NEW i \in 1 .. Kept PROVE Program'[i] = Program[CommitNum + i]
  <2>1. PICK j : j = CommitNum + i
    OBVIOUS
  <2>2. j \in 1 .. Len(rob) /\ i \in DOMAIN rob' /\ rob'[i].inst = rob[j].inst
    BY <2>1, Stays
  <2>3. Program[j] = rob[j].inst
    BY <2>2, RobFacts
  <2> QED
    BY <2>1, <2>2, <2>3 DEF Program
<1>2. ASSUME NEW h \in 1 .. Len(g) PROVE Program'[Kept + h] = g[h]
  <2>1. PICK i : i = Kept + h
    OBVIOUS
  <2>2. i \in DOMAIN rob' /\ rob'[i].inst = g[h]
    BY <2>1, Comes
  <2> QED
    BY <2>1, <2>2 DEF Program
<1> QED
  BY <1>1, <1>2

\* What is ahead of an instruction that stays is less by what retires.
LEMMA CountNext ==
  ASSUME Typed, Numbering, NEW g \in Groups, NEW racing, RobAfter(g, racing), Typed', NEW op
  PROVE  \A i \in 0 .. Kept : /\ Count(op, Program', i) \in Nat
                              /\ Count(op, Program, CommitNum + i) = Count(op, Program, CommitNum) + Count(op, Program', i)
<1> TAKE i \in 0 .. Kept
<1>0. PICK n \in Nat : n = CommitNum
  BY Places
<1>1. PICK p, q : p = Program /\ q = Program'
  OBVIOUS
<1>2. i \in Nat /\ \A j \in 1 .. i : q[j].op = p[n + j].op
  <2>1. \A j \in 1 .. Kept : q[j] = p[n + j]
    BY <1>0, <1>1, ProgramNext
  <2>2. Kept \in Nat
    BY Places
  <2> QED
    BY <2>1, <2>2
<1>3. Count(op, q, i) \in Nat
  BY <1>2, CountType
<1>4. Count(op, p, n + i) = Count(op, p, n) + Count(op, q, i)
  <2>1. Alike(q, p, n, i) /\ i \in Nat /\ n \in Nat
    BY <1>2 DEF Alike
  <2> QED
    BY ONLY <2>1, CountMoved
<1> QED
  BY <1>0, <1>1, <1>3, <1>4

-----------------------------------------------------------------------------
(* The order of the indices tells the order of the program. *)

\* What is ahead, in both states.
LEMMA AheadIs ==
  Typed => \A i \in DOMAIN rob : /\ Ahead("store", i) = Count("store", Program, i - 1)
                                 /\ Count("store", Program, i - 1) \in Nat
<1> SUFFICES ASSUME Typed, NEW i \in DOMAIN rob
             PROVE  /\ Ahead("store", i) = Count("store", Program, i - 1)
                    /\ Count("store", Program, i - 1) \in Nat
  OBVIOUS
<1>1. i \in 1 .. Len(rob) + 1
  BY RobFacts
<1> QED
  BY <1>1, AheadCounts

\* A load that enters finds room behind the stores: the group was let in because
\* ST_ISSUE_WIDTH stores had room.
LEMMA RoomNext ==
  ASSUME GroupLeavesRoom, QueueInv, RoomBehind, NEW g, NEW issue, NEW stas, NEW stds, NEW racing,
         May(g, issue, stas, stds), Turn(g, issue, stas, stds, racing), QueueInv'
  PROVE  RoomBehind'
<1>1. g \in Groups /\ RobAfter(g, racing) /\ Typed /\ Numbering /\ Typed'
  BY DEF May, Turn, QueueInv
<1>2. (Typed => \A i \in DOMAIN rob : /\ Ahead("store", i) = Count("store", Program, i - 1)
                                      /\ Count("store", Program, i - 1) \in Nat)'
  BY AheadIs, PTL
<1>3. SQSIZE \in Nat /\ ROB_SIZE \in Nat /\ ST_ISSUE_WIDTH \in 1 .. SQSIZE
  BY QueuesAssumption
<1>4. PICK n \in Nat, k \in Nat, m \in Nat, l \in Nat :
        /\ n = CommitNum /\ k = Kept /\ m = Len(g) /\ l = Len(rob) /\ l = n + k
        /\ Len(rob') = k + m /\ DOMAIN rob' = 1 .. k + m
  BY <1>1, Places
<1>5. ASSUME NEW i \in 1 .. k, IsLoad(i)' PROVE Count("store", Program', i - 1) < SQSIZE
  <2>1. PICK j : j = n + i
    OBVIOUS
  <2>2. j \in 1 .. l /\ j \in DOMAIN rob /\ IsLoad(j)
    <3>1. rob'[i].inst = rob[j].inst /\ j \in 1 .. Len(rob)
      BY <1>1, <1>4, <2>1, Stays
    <3> QED
      BY <1>1, <1>4, <1>5, <3>1, RobFacts DEF IsLoad
  <2>3. Count("store", Program, j - 1) < SQSIZE
    BY <1>1, <2>2, AheadIs DEF RoomBehind
  <2>4. i - 1 \in 0 .. k /\ j - 1 = n + (i - 1)
    BY <2>1
  <2>5. /\ Count("store", Program', i - 1) \in Nat
        /\ Count("store", Program, n + (i - 1)) = Count("store", Program, n) + Count("store", Program', i - 1)
    BY <1>1, <1>4, <2>4, CountNext
  <2>6. Count("store", Program, n) \in Nat
    BY CountType
  <2> QED
    BY ONLY <1>3, <2>3, <2>4, <2>5, <2>6
<1>6. ASSUME NEW i \in 1 .. k + m, i > k, IsLoad(i)' PROVE Count("store", Program', i - 1) < SQSIZE
  <2>1. stNum <= SQSIZE - ST_ISSUE_WIDTH
    <3>1. Len(g) # 0
      BY <1>4, <1>6
    <3>2. g # << >>
      BY <3>1
    <3> QED
      BY <1>1, <3>2 DEF Groups, LSQ_ready
  <2>2. stNum = Count("store", Program, l)
    <3>1. PICK f : Numbered("store", Program, l, SqOf, SQSIZE, sqhead, stNum, st_deq_ptr, f)
      BY <1>1, <1>4 DEF Numbering
    <3> QED
      BY <1>3, <3>1, NumberedHead
  <2>3. /\ Count("store", Program', k) \in Nat
        /\ Count("store", Program, n + k) = Count("store", Program, n) + Count("store", Program', k)
    BY <1>1, <1>4, CountNext
  <2>4. Count("store", Program, n) \in Nat /\ Count("store", Program, l) = Count("store", Program, n + k)
    BY <1>4, CountType
  <2>5. PICK a \in Nat, b \in Nat : a = Count("store", Program, n) /\ b = Count("store", Program', k)
    BY <2>3, <2>4
  <2>6. stNum = a + b
    BY <2>2, <2>3, <2>4, <2>5
  <2>7. PICK c \in Nat : c = Count("store", Program', i - 1)
    BY <1>6, CountType
  <2>8. c - b < ST_ISSUE_WIDTH
    BY <1>4, <1>6, <2>5, <2>7 DEF GroupLeavesRoom
  <2>9. c < SQSIZE
    BY ONLY <1>3, <2>1, <2>6, <2>8, a \in Nat, b \in Nat, c \in Nat
  <2> QED
    BY <2>7, <2>9
<1>7. ASSUME NEW i \in 1 .. k + m, IsLoad(i)' PROVE Count("store", Program', i - 1) < SQSIZE
  <2>1. i \in 1 .. k \/ i > k
    OBVIOUS
  <2> QED
    BY <1>5, <1>6, <1>7, <2>1
<1> QED
  BY <1>1, <1>2, <1>4, <1>7 DEF RoomBehind

\* Every load has room behind the stores in front of it, as long as the groups
\* leave it.
LEMMA RoomInvariance ==
  Spec /\ [][GroupLeavesRoom]_vars => [](QueueInv /\ RoomBehind)
<1>1. Init => RoomBehind
  BY DEF Init, RoomBehind
<1>2. QueueInv /\ QueueInv' /\ RoomBehind /\ [Next]_vars /\ [GroupLeavesRoom]_vars => RoomBehind'
  <2> SUFFICES ASSUME QueueInv, QueueInv', RoomBehind, [Next]_vars, [GroupLeavesRoom]_vars PROVE RoomBehind'
    OBVIOUS
  <2>1. CASE Squash
    BY <2>1 DEF Squash, RoomBehind
  <2>2. CASE Advance(Groups, FALSE)
    <3>1. PICK g \in Groups, issue \in AtMost(LDU_NUM, Issuable), stas \in AtMost(STU_NUM, NoAddress),
               stds \in AtMost(STU_NUM, NoData), racing \in SUBSET InS1 :
                 /\ Len(rob) - CommitNum + Len(g) <= ROB_SIZE
                 /\ Cycle(g, issue, stas, stds, racing)
      BY <2>2, Zenon DEF Advance
    <3>2. May(g, issue, stas, stds)
      BY <3>1 DEF May, AtMost
    <3>3. Turn(g, issue, stas, stds, racing)
      BY <3>1, <3>2, QueueCycle
    <3>4. CASE UNCHANGED vars
      <4>1. rob' = rob
        BY <3>4 DEF vars
      <4> QED
        BY <4>1 DEF RoomBehind, IsLoad, Ahead
    <3>5. CASE GroupLeavesRoom
      BY <3>2, <3>3, <3>5, RoomNext
    <3> QED
      BY <3>4, <3>5
  <2>3. CASE UNCHANGED vars
    <3>1. rob' = rob
      BY <2>3 DEF vars
    <3> QED
      BY <3>1 DEF RoomBehind, IsLoad, Ahead
  <2> QED
    BY <2>1, <2>2, <2>3 DEF Next
<1> QED
  BY <1>1, <1>2, QueueInvariance, PTL DEF Spec

\* A load's store index as far behind the next store to commit as there are
\* stores in front of it, and so is a store's.
LEMMA SqPlaces ==
  ASSUME QueueInv
  PROVE  \E b \in Indices(SQSIZE) :
           /\ b.idx = st_deq_ptr
           /\ \A i \in DOMAIN rob :
                /\ Count("store", Program, i - 1) \in 0 .. SQSIZE
                /\ rob[i].sq = Index(b, Count("store", Program, i - 1), SQSIZE)
                /\ rob[i].sq.idx = Wrap(st_deq_ptr + Count("store", Program, i - 1), SQSIZE)
                /\ IsStore(i) => Count("store", Program, i - 1) < SQSIZE
<1>1. Typed /\ Numbering /\ SQSIZE \in Nat
  BY QueuesAssumption DEF QueueInv
<1>2. PICK l \in Nat : l = Len(rob) /\ DOMAIN rob = 1 .. l
  BY <1>1, RobFacts
<1>3. PICK f \in BOOLEAN : Numbered("store", Program, l, SqOf, SQSIZE, sqhead, stNum, st_deq_ptr, f)
  BY <1>1, <1>2 DEF Numbering
<1>4. PICK b : b = From(st_deq_ptr, f)
  OBVIOUS
<1>5. b \in Indices(SQSIZE) /\ b.idx = st_deq_ptr
  BY <1>3, <1>4 DEF From, Indices, Numbered
<1>6. ASSUME NEW i \in DOMAIN rob
      PROVE  /\ Count("store", Program, i - 1) \in 0 .. SQSIZE
             /\ rob[i].sq = Index(b, Count("store", Program, i - 1), SQSIZE)
             /\ rob[i].sq.idx = Wrap(st_deq_ptr + Count("store", Program, i - 1), SQSIZE)
             /\ IsStore(i) => Count("store", Program, i - 1) < SQSIZE
  <2>1. SqOf[i] = rob[i].sq /\ Program[i] = rob[i].inst
    BY <1>1, <1>2, RobFacts
  <2>2. SqOf[i] = Index(b, Count("store", Program, i - 1), SQSIZE)
    <3>1. \A h \in 1 .. l : SqOf[h] = Index(From(st_deq_ptr, f), Count("store", Program, h - 1), SQSIZE)
      BY <1>3, Zenon DEF Numbered
    <3>2. i \in 1 .. l
      BY <1>2
    <3> QED
      BY <1>4, <3>1, <3>2, Zenon
  <2>3. /\ stNum \in 0 .. SQSIZE /\ Count("store", Program, i - 1) \in 0 .. stNum
        /\ SqOf[i].idx = Wrap(st_deq_ptr + Count("store", Program, i - 1), SQSIZE)
        /\ Program[i].op = "store" => Count("store", Program, i - 1) < stNum
    <3>1. i \in 1 .. l /\ SQSIZE \in Nat /\ l \in Nat
      BY <1>1, <1>2
    <3>2. stNum \in 0 .. SQSIZE
      BY ONLY <1>3, <3>1, NumberedPlace
    <3>3. Count("store", Program, i - 1) \in 0 .. stNum
      BY ONLY <1>3, <3>1, NumberedPlace
    <3>4. SqOf[i].idx = Wrap(st_deq_ptr + Count("store", Program, i - 1), SQSIZE)
      BY ONLY <1>3, <3>1, NumberedPlace
    <3>5. ASSUME Program[i].op = "store" PROVE Count("store", Program, i - 1) < stNum
      <4>1. stNum = Count("store", Program, l)
        BY <1>3 DEF Numbered
      <4>2. i \in Nat \ {0} /\ i <= l
        BY <3>1
      <4> QED
        BY <3>1, <3>5, <4>1, <4>2, CountBehind
    <3> QED
      BY <3>2, <3>3, <3>4, <3>5
  <2>4. Count("store", Program, i - 1) \in 0 .. SQSIZE
    BY ONLY <1>1, <2>3
  <2>5. IsStore(i) => Count("store", Program, i - 1) < SQSIZE
    <3>1. IsStore(i) => Count("store", Program, i - 1) < stNum
      BY <2>1, <2>3 DEF IsStore
    <3> QED
      BY ONLY <1>1, <2>3, <3>1
  <2> QED
    BY <2>1, <2>2, <2>3, <2>4, <2>5
<1> QED
  BY <1>5, <1>6

\* A store's index is older than that of every younger load and of no older one,
\* except for a load with the whole store queue between it and the store.
AgeWithinTurn ==
  \A i, j \in DOMAIN rob :
    IsLoad(i) /\ IsStore(j) =>
      (OlderThan(rob[j].sq, rob[i].sq) <=> j < i /\ Ahead("store", i) - Ahead("store", j) < SQSIZE)

\* An index a whole turn on has the same slot and the other flip bit, and is not
\* the younger one.
LEMMA TurnOrder ==
  ASSUME NEW size \in Nat, NEW a \in Indices(size)
  PROVE  ~OlderThan(Index(a, 0, size), Index(a, size, size))
<1>1. PICK x \in 0 .. size - 1, f \in BOOLEAN : x = a.idx /\ f = a.flipped
  BY DEF Indices
<1>2. Wrap(x + 0, size) = x /\ Wrap(x + size, size) = x
  BY DEF Wrap
<1>3. x + 0 < size /\ ~(x + size < size)
  OBVIOUS
<1>4. Index(a, 0, size) = [idx |-> x, flipped |-> f] /\ Index(a, size, size) = [idx |-> x, flipped |-> ~f]
  BY <1>1, <1>2, <1>3 DEF Index
<1> QED
  BY <1>4 DEF OlderThan

\* The index comparison is the order of the program within a turn, and says the
\* opposite at the distance of a whole turn.
LEMMA AgeWithin ==
  QueueInv => AgeWithinTurn
<1> SUFFICES ASSUME QueueInv PROVE AgeWithinTurn
  OBVIOUS
<1>1. Typed /\ SQSIZE \in Nat
  BY QueuesAssumption DEF QueueInv
<1>2. PICK l \in Nat : l = Len(rob) /\ DOMAIN rob = 1 .. l
  BY <1>1, RobFacts
<1>3. PICK b \in Indices(SQSIZE) :
        \A i \in DOMAIN rob :
          /\ Count("store", Program, i - 1) \in 0 .. SQSIZE
          /\ rob[i].sq = Index(b, Count("store", Program, i - 1), SQSIZE)
          /\ IsStore(i) => Count("store", Program, i - 1) < SQSIZE
  BY SqPlaces
<1>4. ASSUME NEW i \in DOMAIN rob, NEW j \in DOMAIN rob, IsLoad(i), IsStore(j)
      PROVE  OlderThan(rob[j].sq, rob[i].sq) <=> j < i /\ Ahead("store", i) - Ahead("store", j) < SQSIZE
  <2>1. PICK x \in 0 .. SQSIZE, y \in 0 .. SQSIZE :
          /\ x = Count("store", Program, j - 1) /\ y = Count("store", Program, i - 1)
          /\ x = Ahead("store", j) /\ y = Ahead("store", i)
          /\ rob[j].sq = Index(b, x, SQSIZE) /\ rob[i].sq = Index(b, y, SQSIZE)
          /\ x < SQSIZE
    BY <1>1, <1>3, <1>4, AheadIs
  <2>2. ASSUME j < i PROVE x < y
    <3>1. j \in Nat \ {0} /\ i - 1 \in Nat /\ j <= i - 1
      BY <1>2, <2>2
    <3>2. Program[j].op = "store"
      BY <1>1, <1>2, <1>4, RobFacts DEF IsStore
    <3> QED
      BY <2>1, <3>1, <3>2, CountBehind
  <2>3. ASSUME ~(j < i) PROVE y <= x
    <3>1. i - 1 \in Nat /\ j - 1 \in Nat /\ i - 1 <= j - 1
      BY <1>2, <2>3
    <3> QED
      BY <2>1, <3>1, CountUp
  <2>4. CASE y - x < SQSIZE
    <3>1. OlderThan(Index(b, x, SQSIZE), Index(b, y, SQSIZE)) <=> x < y
      <4>1. x - y < SQSIZE
        BY ONLY <1>1, <2>1, x \in 0 .. SQSIZE, y \in 0 .. SQSIZE
      <4> QED
        BY ONLY <1>1, <2>4, <4>1, x \in 0 .. SQSIZE, y \in 0 .. SQSIZE, b \in Indices(SQSIZE), IndexOrder
    <3>2. x < y <=> j < i
      BY <2>2, <2>3
    <3> QED
      BY <2>1, <2>4, <3>1, <3>2
  <2>5. CASE ~(y - x < SQSIZE)
    <3>1. x = 0 /\ y = SQSIZE
      BY ONLY <1>1, <2>5, x \in 0 .. SQSIZE, y \in 0 .. SQSIZE
    <3>2. ~OlderThan(rob[j].sq, rob[i].sq)
      BY <1>1, <2>1, <3>1, TurnOrder
    <3> QED
      BY <2>1, <2>5, <3>2
  <2> QED
    BY <2>4, <2>5
<1> QED
  BY <1>4 DEF AgeWithinTurn

\* With room behind the stores the index comparison is the order of the program.
LEMMA AgeMeant ==
  QueueInv /\ RoomBehind => SqIndexTellsAge
<1> SUFFICES ASSUME QueueInv, RoomBehind, NEW i \in DOMAIN rob, NEW j \in DOMAIN rob, IsLoad(i), IsStore(j)
             PROVE  OlderThan(rob[j].sq, rob[i].sq) <=> j < i
  BY DEF SqIndexTellsAge
<1>1. OlderThan(rob[j].sq, rob[i].sq) <=> j < i /\ Ahead("store", i) - Ahead("store", j) < SQSIZE
  BY AgeWithin DEF AgeWithinTurn
<1>2. Ahead("store", i) \in Nat /\ Ahead("store", j) \in Nat /\ SQSIZE \in Nat
  BY AheadIs, QueuesAssumption DEF QueueInv
<1>3. Ahead("store", i) < SQSIZE
  BY DEF RoomBehind
<1> QED
  BY <1>1, <1>2, <1>3

\* Only so: with a whole turn in front of it, a load is compared wrongly with the
\* oldest store.
LEMMA AgeNeedsRoom ==
  QueueInv /\ SqIndexTellsAge => RoomBehind
<1> SUFFICES ASSUME QueueInv, SqIndexTellsAge, NEW i \in DOMAIN rob, IsLoad(i),
                    ~(Ahead("store", i) < SQSIZE)
             PROVE  FALSE
  BY DEF RoomBehind
<1>1. Typed /\ SQSIZE \in Nat
  BY QueuesAssumption DEF QueueInv
<1>2. PICK l \in Nat : l = Len(rob) /\ DOMAIN rob = 1 .. l
  BY <1>1, RobFacts
<1>3. PICK n \in Nat : n = i - 1 /\ i \in Nat
  BY <1>2
<1>4. PICK c \in Nat : c = Count("store", Program, n) /\ c = Ahead("store", i)
  BY <1>1, <1>3, AheadIs
<1>5. \E k \in 1 .. n : Program[k].op = "store"
  <2>1. PICK p : p = Program
    OBVIOUS
  <2>2. ASSUME \A k \in 1 .. n : p[k].op # "store" PROVE c = 0
    <3>1. {k \in 1 .. n : p[k].op = "store"} = {}
      BY <2>2
    <3> QED
      BY <1>4, <2>1, <3>1, FS_EmptySet DEF Count
  <2>3. c # 0
    <3>1. 0 < SQSIZE
      BY QueuesAssumption
    <3> QED
      BY <1>4, <3>1
  <2> QED
    BY <2>1, <2>2, <2>3
<1>6. PICK j \in 1 .. n : Program[j].op = "store" /\ \A k \in 1 .. j - 1 : Program[k].op # "store"
  <2> DEFINE K == {k \in 1 .. n : Program[k].op = "store"}
  <2>1. K \in SUBSET Nat /\ K # {}
    BY <1>5
  <2>2. PICK j \in K : \A k \in K : j <= k
    <3> HIDE DEF K
    <3> QED
      BY <2>1, LeastElement
  <2> QED
    BY <2>2
<1>7. j \in DOMAIN rob /\ IsStore(j) /\ j < i
  BY <1>1, <1>2, <1>3, <1>6, RobFacts DEF IsStore
<1>8. Ahead("store", j) = 0
  <2>1. {k \in 1 .. j - 1 : Program[k].op = "store"} = {}
    BY <1>6
  <2> QED
    BY <1>1, <1>7, <2>1, AheadIs, FS_EmptySet DEF Count
<1>9. Ahead("store", i) - Ahead("store", j) < SQSIZE
  BY <1>7, AgeWithin DEF SqIndexTellsAge, AgeWithinTurn
<1> QED
  BY <1>1, <1>4, <1>8, <1>9

\* The two in all states.
LEMMA RoomMeant ==
  Spec /\ []SqIndexTellsAge => [](QueueInv /\ RoomBehind)
  BY QueueInvariance, AgeNeedsRoom, PTL

\* In every reachable state of a machine of any size, a store's index is older
\* than that of a load exactly if the store is older and less than the whole
\* store queue lies between them.
THEOREM IndexWithinTurn == Spec => []AgeWithinTurn
  BY QueueInvariance, AgeWithin, PTL

\* So the indices tell ages (stfwd_if.sv 14) exactly while no load has the whole
\* store queue in front of it,
THEOREM IndexNeedsRoom == Spec => [](SqIndexTellsAge <=> RoomBehind)
<1>1. QueueInv => (SqIndexTellsAge <=> RoomBehind)
  BY AgeMeant, AgeNeedsRoom
<1> QED
  BY <1>1, QueueInvariance, PTL

\* and a load gets it there only by being dispatched in one group with, and
\* behind, as many stores as a group may hold.
THEOREM IndexTellsAge == Spec /\ [][GroupLeavesRoom]_vars => []SqIndexTellsAge
  BY RoomInvariance, AgeMeant, PTL

-----------------------------------------------------------------------------
(* The reports of loads that ran too early. *)

\* A load that is reported is in flight.
Reported == violation \union mem_except \union shr \subseteq Loads

\* No load retires while the report about it is on its way.
ReportedStay ==
  \A i \in 1 .. CommitNum : IsLoad(i) => rob[i].lq.idx \notin violation \union mem_except

\* The oldest of a set of loads is one of them, and no younger than any.
LEMMA OldestFacts ==
  ASSUME Typed, Numbering, NEW S, S \subseteq Loads
  PROVE  /\ Oldest(S) \subseteq S
         /\ \A l \in S : \E k \in Oldest(S) : LoadAt(k) <= LoadAt(l)
<1>1. CASE S = {}
  BY <1>1 DEF Oldest
<1>2. CASE S # {}
  <2>1. \A l \in S : LoadAt(l) \in Nat
    BY SlotFacts, RobFacts
  <2> DEFINE T == {LoadAt(l) : l \in S}
  <2>2. T \in SUBSET Nat /\ T # {}
    BY <1>2, <2>1
  <2>3. PICK x \in T : \A y \in T : x <= y
    BY <2>2, LeastElement
  <2>4. \E l \in S : \A k \in S : LoadAt(l) <= LoadAt(k)
    BY <2>3
  <2>5. OldestLoad(S) \in S /\ \A k \in S : LoadAt(OldestLoad(S)) <= LoadAt(k)
    <3> HIDE DEF T
    <3> QED
      BY <2>4 DEF OldestLoad
  <2>6. Oldest(S) = {OldestLoad(S)}
    BY <1>2 DEF Oldest
  <2> QED
    BY <2>5, <2>6
<1> QED
  BY <1>1, <1>2

\* A store that gets its address is in flight, not finished, and does not finish
\* in this cycle.
LEMMA Addressed ==
  ASSUME QueueInv, NEW s \in NoAddress
  PROVE  /\ s \in Stores /\ StoreAt(s) \in 1 .. Len(rob) /\ IsStore(StoreAt(s))
         /\ rob[StoreAt(s)].sq.idx = s
         /\ ~rob[StoreAt(s)].fin /\ ~Done(StoreAt(s))
<1>1. Typed /\ Numbering /\ StoresHeld
  BY DEF QueueInv
<1>2. s \in Stores /\ ~sq[s].addr_vld
  BY DEF NoAddress
<1>3. PICK j \in 1 .. Len(rob) : j = StoreAt(s) /\ IsStore(j) /\ rob[j].sq.idx = s
  BY <1>1, <1>2, SlotFacts
<1>4. StoreHeld(j) /\ ~IsLoad(j)
  BY <1>1, <1>3, RobFacts DEF StoresHeld
<1>5. ~rob[j].fin
  BY <1>2, <1>3, <1>4 DEF StoreHeld
<1>6. ~Done(j)
  BY <1>2, <1>3, <1>4 DEF Done, FinishedPorts, Finishes
<1> QED
  BY <1>2, <1>3, <1>5, <1>6

\* What a store finds when it gets its address: the younger loads that have run,
\* or leave s1 in this cycle, and read what it writes.
LEMMA Found ==
  ASSUME QueueInv, RoomBehind, NEW s \in NoAddress
  PROVE  /\ Violates(s, NxtLq(Success)) \subseteq Loads
         /\ \A l \in Loads :
              l \in Violates(s, NxtLq(Success)) <=>
                /\ Executed(LoadAt(l)) \/ l \in Success
                /\ StoreAt(s) < LoadAt(l)
                /\ rob[LoadAt(l)].inst.mask \intersect rob[StoreAt(s)].inst.mask # {}
<1>1. Typed /\ Numbering /\ LoadsHeld /\ DOMAIN rob = 1 .. Len(rob)
  BY RobFacts DEF QueueInv
<1>2. PICK j \in 1 .. Len(rob) : j = StoreAt(s) /\ IsStore(j)
  BY Addressed
<1>3. \A l \in LqSlots : NxtLq(Success)[l] =
        IF l \in Success THEN [vld |-> TRUE, mask |-> rob[LoadAt(l)].inst.mask, sqIdx |-> rob[LoadAt(l)].sq]
        ELSE lq[l]
  BY DEF NxtLq
<1>4. ASSUME NEW l \in LqSlots
      PROVE  l \in Success => /\ NxtLq(Success)[l].vld
                              /\ NxtLq(Success)[l].mask = rob[LoadAt(l)].inst.mask
                              /\ NxtLq(Success)[l].sqIdx = rob[LoadAt(l)].sq
  <2>1. PICK m, q : m = rob[LoadAt(l)].inst.mask /\ q = rob[LoadAt(l)].sq
    OBVIOUS
  <2>2. l \in Success => NxtLq(Success)[l] = [vld |-> TRUE, mask |-> m, sqIdx |-> q]
    BY <1>3, <2>1
  <2> QED
    BY <2>1, <2>2
<1>5. ASSUME NEW l \in LqSlots, NxtLq(Success)[l].vld PROVE l \in Loads
  <2>1. l \in Success => l \in Loads
    BY SuccessFacts
  <2>2. lq[l].vld => l \in Loads
    BY <1>1 DEF LoadsHeld
  <2>3. l \notin Success => NxtLq(Success)[l] = lq[l]
    BY <1>3
  <2> QED
    BY <1>5, <2>1, <2>2, <2>3
<1>6. ASSUME NEW l \in Loads
      PROVE  /\ l \in LqSlots
             /\ NxtLq(Success)[l].vld <=> Executed(LoadAt(l)) \/ l \in Success
             /\ Executed(LoadAt(l)) \/ l \in Success =>
                  /\ NxtLq(Success)[l].mask = rob[LoadAt(l)].inst.mask
                  /\ NxtLq(Success)[l].sqIdx = rob[LoadAt(l)].sq
             /\ OlderThan(rob[j].sq, rob[LoadAt(l)].sq) <=> j < LoadAt(l)
  <2>1. PICK i \in 1 .. Len(rob) : i = LoadAt(l) /\ IsLoad(i) /\ rob[i].lq.idx = l
    BY <1>1, SlotFacts
  <2>2. l \in LqSlots
    BY <1>1, SlotFacts
  <2>3. LoadHeld(i)
    BY <1>1, <2>1 DEF LoadsHeld
  <2>4. OlderThan(rob[j].sq, rob[i].sq) <=> j < i
    BY <1>1, <1>2, <2>1, AgeMeant DEF SqIndexTellsAge
  <2>5. CASE l \in Success
    BY <1>4, <2>1, <2>2, <2>4, <2>5
  <2>6. CASE l \notin Success
    <3>1. NxtLq(Success)[l] = lq[l]
      BY <1>3, <2>2, <2>6
    <3> QED
      BY <2>1, <2>2, <2>3, <2>4, <2>6, <3>1 DEF LoadHeld
  <2> QED
    BY <2>5, <2>6
<1>7. PICK N : N = NxtLq(Success)
  OBVIOUS
<1>8. Violates(s, N) = {l \in LqSlots : /\ N[l].vld /\ OlderThan(rob[j].sq, N[l].sqIdx)
                                        /\ N[l].mask \intersect rob[j].inst.mask # {}}
  BY <1>2 DEF Violates
<1>9. Violates(s, N) \subseteq Loads
  BY <1>5, <1>7, <1>8
<1>10. ASSUME NEW l \in Loads
       PROVE  l \in Violates(s, N) <=> /\ Executed(LoadAt(l)) \/ l \in Success
                                       /\ j < LoadAt(l)
                                       /\ rob[LoadAt(l)].inst.mask \intersect rob[j].inst.mask # {}
  <2>1. /\ l \in LqSlots
        /\ N[l].vld <=> Executed(LoadAt(l)) \/ l \in Success
        /\ Executed(LoadAt(l)) \/ l \in Success =>
             N[l].mask = rob[LoadAt(l)].inst.mask /\ N[l].sqIdx = rob[LoadAt(l)].sq
        /\ OlderThan(rob[j].sq, rob[LoadAt(l)].sq) <=> j < LoadAt(l)
    BY <1>6, <1>7
  <2> QED
    BY <1>8, <2>1
<1> QED
  BY <1>2, <1>7, <1>9, <1>10

\* A cycle's reports are about loads that stay in flight.
LEMMA ReportedNext ==
  ASSUME QueueInv, RoomBehind, Reported, ReportedStay,
         NEW g, NEW issue, NEW stas, NEW stds, NEW racing,
         May(g, issue, stas, stds), Turn(g, issue, stas, stds, racing), QueueInv'
  PROVE  /\ Reported'
         /\ \A l \in violation' \union mem_except' \union shr' :
              l \in Loads /\ LoadAt(l) = CommitNum + LoadAt(l)' /\ LoadAt(l)' \in Nat
         /\ \A l \in violation' : \E i \in 1 .. Len(rob') : i < LoadAt(l)' /\ IsStore(i)' /\ ~rob'[i].fin
<1>1. g \in Groups /\ RobAfter(g, racing) /\ Typed /\ Numbering /\ Typed' /\ Numbering'
  BY DEF May, Turn, QueueInv
<1>2. /\ violation' = UNION {Oldest(Violates(s, NxtLq(Success))) : s \in stas}
      /\ mem_except' = Oldest(violation)
      /\ shr' = IF shr = {} THEN mem_except ELSE Oldest(shr \union mem_except)
  BY DEF Turn
<1>3. PICK n \in Nat : n = CommitNum
  BY <1>1, CommitFacts
<1>4. ASSUME NEW l \in Loads, n < LoadAt(l) PROVE l \in Loads' /\ LoadAt(l) = n + LoadAt(l)' /\ LoadAt(l)' \in Nat
  <2>1. PICK j \in 1 .. Len(rob) : j = LoadAt(l) /\ IsLoad(j) /\ rob[j].lq.idx = l
    BY <1>1, SlotFacts
  <2>2. j \in Nat /\ ~(j <= n)
    BY <1>1, <1>4, <2>1, RobFacts
  <2>3. l \notin LqGone
    BY <1>1, <1>3, <2>1, <2>2, GoneSlots
  <2>4. PICK i \in 1 .. Kept : LoadAt(l) = CommitNum + i /\ LoadAt(l)' = i /\ l \in Loads'
    BY <1>1, <2>3, LoadMoves
  <2>5. i \in Nat
    BY <1>1, <2>4, Places
  <2> QED
    BY <1>3, <2>4, <2>5
<1>5. \A l \in Loads : LoadAt(l) \in 1 .. Len(rob) /\ LoadAt(l) \in Nat
  BY <1>1, SlotFacts, RobFacts
<1>6. ASSUME NEW l \in violation \union mem_except \union shr PROVE l \in Loads /\ n < LoadAt(l)
  <2>1. l \in Loads
    BY DEF Reported
  <2>2. PICK j \in 1 .. Len(rob) : j = LoadAt(l) /\ IsLoad(j) /\ rob[j].lq.idx = l
    BY <1>1, <2>1, SlotFacts
  <2>3. j \notin 1 .. n
    <3>1. ASSUME l \in violation \union mem_except PROVE j \notin 1 .. n
      BY <1>3, <2>2, <3>1 DEF ReportedStay
    <3>2. ASSUME l \in shr PROVE j \notin 1 .. n
      BY <1>1, <1>3, <2>2, <3>2, CommitFacts
    <3> QED
      BY <3>1, <3>2
  <2> QED
    BY <1>3, <1>5, <2>1, <2>2, <2>3
<1>7. ASSUME NEW l \in mem_except' \union shr'
      PROVE  l \in Loads' /\ l \in Loads /\ LoadAt(l) = n + LoadAt(l)' /\ LoadAt(l)' \in Nat
  <2>1. violation \subseteq Loads /\ shr \union mem_except \subseteq Loads
    BY DEF Reported
  <2>2. Oldest(violation) \subseteq violation /\ Oldest(shr \union mem_except) \subseteq shr \union mem_except
    BY <1>1, <2>1, OldestFacts
  <2>3. l \in violation \union mem_except \union shr
    BY <1>2, <1>7, <2>2
  <2> QED
    BY <1>4, <1>6, <2>3
<1>8. ASSUME NEW l \in violation'
      PROVE  /\ l \in Loads' /\ l \in Loads /\ LoadAt(l) = n + LoadAt(l)' /\ LoadAt(l)' \in Nat
             /\ \E j \in 1 .. Len(rob') : j < LoadAt(l)' /\ IsStore(j)' /\ ~rob'[j].fin
  <2>1. PICK s \in stas : l \in Oldest(Violates(s, NxtLq(Success)))
    BY <1>2, <1>8
  <2>2. s \in NoAddress
    BY DEF May
  <2>3. l \in Violates(s, NxtLq(Success)) /\ l \in Loads
    <3>1. Violates(s, NxtLq(Success)) \subseteq Loads
      BY <2>2, Found
    <3> QED
      BY <1>1, <2>1, <3>1, OldestFacts
  <2>4. PICK j \in 1 .. Len(rob) : j = StoreAt(s) /\ IsStore(j) /\ ~rob[j].fin /\ ~Done(j)
    BY <2>2, Addressed
  <2>5. j < LoadAt(l)
    BY <2>2, <2>3, <2>4, Found
  <2>6. j \in Nat /\ j \notin 1 .. n
    BY <1>1, <1>3, <2>4, CommitFacts, RobFacts
  <2>7. ~(j <= CommitNum) /\ n < j /\ n < LoadAt(l)
    BY <1>3, <1>5, <2>3, <2>4, <2>5, <2>6
  <2>8. l \in Loads' /\ LoadAt(l) = n + LoadAt(l)' /\ LoadAt(l)' \in Nat
    BY <1>4, <2>3, <2>7
  <2>9. PICK i \in 1 .. Kept : j = CommitNum + i
    BY <1>1, <2>7, Places
  <2>10. i \in DOMAIN rob' /\ rob'[i].fin = (rob[j].fin \/ Done(j)) /\ i \in Nat
    BY <1>1, <2>9, Stays, Places
  <2>11. i \in 1 .. Len(rob') /\ IsStore(i)' /\ ~rob'[i].fin
    <3>1. i \in 1 .. Len(rob') /\ ~rob'[i].fin
      BY <1>1, <2>4, <2>10, ListDef DEF Typed
    <3>2. rob'[i].inst = rob[j].inst
      BY <1>1, <2>9, Stays
    <3> QED
      BY <2>4, <3>1, <3>2 DEF IsStore
  <2>12. i < LoadAt(l)'
    BY <1>3, <2>5, <2>8, <2>9, <2>10
  <2> QED
    BY <2>3, <2>8, <2>11, <2>12
<1>9. Reported'
  BY <1>7, <1>8 DEF Reported
<1>10. \A l \in violation' \union mem_except' \union shr' :
         l \in Loads /\ LoadAt(l) = n + LoadAt(l)' /\ LoadAt(l)' \in Nat
  BY <1>7, <1>8
<1> QED
  BY <1>3, <1>8, <1>9, <1>10

\* Reports stay with their loads.
LEMMA ReportedStep ==
  ASSUME QueueInv, QueueInv', RoomBehind, Reported, ReportedStay, [Next]_vars
  PROVE  Reported'
<1>1. CASE Squash
  BY <1>1 DEF Squash, Reported
<1>2. CASE Advance(Groups, FALSE)
  <2>1. PICK g \in Groups, issue \in AtMost(LDU_NUM, Issuable), stas \in AtMost(STU_NUM, NoAddress),
             stds \in AtMost(STU_NUM, NoData), racing \in SUBSET InS1 :
               /\ Len(rob) - CommitNum + Len(g) <= ROB_SIZE
               /\ Cycle(g, issue, stas, stds, racing)
    BY <1>2, Zenon DEF Advance
  <2>2. May(g, issue, stas, stds)
    BY <2>1 DEF May, AtMost
  <2>3. Turn(g, issue, stas, stds, racing)
    BY <2>1, <2>2, QueueCycle
  <2> QED
    BY <2>2, <2>3, ReportedNext
<1>3. CASE UNCHANGED vars
  <2>1. rob' = rob /\ violation' = violation /\ mem_except' = mem_except /\ shr' = shr
    BY <1>3 DEF vars, pipeVars
  <2>2. Loads' = Loads
    BY <2>1 DEF Loads, IsLoad
  <2> QED
    BY <2>1, <2>2 DEF Reported
<1> QED
  BY <1>1, <1>2, <1>3 DEF Next

\* What is reported is in flight, while the indices tell ages and no reported
\* load retires.
LEMMA ReportedInvariance ==
  Spec /\ []SqIndexTellsAge /\ []ReportedStay => [](QueueInv /\ RoomBehind /\ Reported)
<1>1. Init => Reported
  BY DEF Init, Reported
<1>2. QueueInv /\ QueueInv' /\ RoomBehind /\ Reported /\ ReportedStay /\ [Next]_vars => Reported'
  BY ReportedStep
<1> QED
  BY <1>1, <1>2, RoomMeant, PTL DEF Spec

\* With the reports, every variable has its type.
LEMMA Consistent ==
  QueueInv /\ Reported => QueuesConsistent
<1> SUFFICES ASSUME QueueInv, Reported PROVE QueuesConsistent
  OBVIOUS
<1>1. Typed /\ Numbering /\ Piped
  BY DEF QueueInv
<1>2. PICK l \in Nat : l = Len(rob) /\ DOMAIN rob = 1 .. l
  BY <1>1, RobFacts
<1>3. SQSIZE \in Nat /\ LQSIZE \in Nat
  BY QueuesAssumption
<1>4. PICK f : Numbered("store", Program, l, SqOf, SQSIZE, sqhead, stNum, st_deq_ptr, f)
  BY <1>1, <1>2 DEF Numbering
<1>5. PICK e : Numbered("load", Program, l, LqOf, LQSIZE, lqhead, ldNum, ld_deq_ptr, e)
  BY <1>1, <1>2 DEF Numbering
<1>6. stNum \in 0 .. SQSIZE /\ sqhead \in Indices(SQSIZE) /\ st_deq_ptr \in 0 .. SQSIZE - 1
  BY <1>3, <1>4, NumberedHead
<1>7. ldNum \in 0 .. LQSIZE /\ lqhead \in Indices(LQSIZE) /\ ld_deq_ptr \in 0 .. LQSIZE - 1
  BY <1>3, <1>5, NumberedHead
<1>8. InS1 \union s2 \union s3 \union violation \union mem_except \union shr \subseteq LqSlots
  <2>1. Loads \subseteq LqSlots
    BY <1>1, SlotFacts
  <2>2. InS1 \subseteq Loads
    BY <1>1 DEF InS1, Piped
  <2>3. s2 \union s3 \subseteq Loads
    BY <1>1 DEF Piped
  <2> QED
    BY <2>1, <2>2, <2>3 DEF Reported
<1>9. /\ \A i \in DOMAIN rob : /\ rob[i].inst \in Insts /\ rob[i].fin \in BOOLEAN
                               /\ rob[i].lq \in LqIndices /\ rob[i].sq \in SqIndices
      /\ Len(rob) <= ROB_SIZE /\ finish_ptr \in SqSlots
      /\ \A s \in SqSlots : sq[s].mask \subseteq Bytes /\ sq[s].sqIdx \in SqIndices
      /\ \A x \in LqSlots : lq[x].mask \subseteq Bytes /\ lq[x].sqIdx \in SqIndices
  BY <1>1, <1>2, RobFacts DEF Typed
<1>10. lqhead \in LqIndices /\ sqhead \in SqIndices /\ st_deq_ptr \in SqSlots /\ ld_deq_ptr \in LqSlots
  BY <1>6, <1>7 DEF Indices, LqIndices, SqIndices, LqSlots, SqSlots
<1>11. TypeOK
  BY <1>6, <1>7, <1>8, <1>9, <1>10 DEF TypeOK
<1> QED
  BY <1>11, QueuesMeant DEF QueuesConsistent

\* The queues are consistent, the reports of the loads to run again included.
THEOREM Consistency ==
  Spec /\ []SqIndexTellsAge /\ []ReportedStay => []QueuesConsistent
  BY ReportedInvariance, Consistent, PTL

-----------------------------------------------------------------------------
(* The race of a report with the commit of its load. *)

\* The race: a load retires that mem_except names and shr does not name yet, and
\* with it a store in front of it.
NoRace ==
  \A i \in 1 .. CommitNum :
    IsLoad(i) /\ rob[i].lq.idx \in mem_except => \A j \in 1 .. i - 1 : ~IsStore(j)

\* What violation names has a store in front of it that is not finished; what
\* mem_except names has a store in front of it.
InTime ==
  /\ \A l \in violation : \E j \in 1 .. Len(rob) : j < LoadAt(l) /\ IsStore(j) /\ ~rob[j].fin
  /\ \A l \in mem_except : \E j \in 1 .. Len(rob) : j < LoadAt(l) /\ IsStore(j)

\* But for the race a report in time keeps its load from retiring.
LEMMA InTimeStays ==
  NoRace /\ QueueInv /\ Reported /\ InTime => ReportedStay
<1> SUFFICES ASSUME NoRace, QueueInv, Reported, InTime,
                    NEW i \in 1 .. CommitNum, IsLoad(i), NEW l \in violation \union mem_except, rob[i].lq.idx = l
             PROVE  FALSE
  BY DEF ReportedStay
<1>1. Typed /\ Numbering /\ l \in Loads
  BY DEF QueueInv, Reported
<1>2. /\ CommitNum \in Nat /\ CommitNum <= Len(rob) /\ Len(rob) \in Nat
      /\ \A k \in 1 .. CommitNum : rob[k].fin
  BY <1>1, CommitFacts, RobFacts
<1>3. i \in 1 .. Len(rob)
  BY <1>2
<1>4. LoadAt(l) = i
  BY <1>1, <1>3, SlotFacts
<1>5. \A j \in 1 .. Len(rob) : j < i => j \in 1 .. CommitNum /\ j \in 1 .. i - 1
  BY <1>2
<1>6. CASE l \in violation
  BY <1>2, <1>4, <1>5, <1>6 DEF InTime
<1>7. CASE l \in mem_except
  BY <1>4, <1>5, <1>7 DEF InTime, NoRace
<1> QED
  BY <1>6, <1>7

\* What was in violation has its store still in front of it when it is in
\* mem_except.
LEMMA InTimeNext ==
  ASSUME NoRace, QueueInv, RoomBehind, Reported, InTime,
         NEW g, NEW issue, NEW stas, NEW stds, NEW racing,
         May(g, issue, stas, stds), Turn(g, issue, stas, stds, racing), QueueInv'
  PROVE  InTime'
<1>1. g \in Groups /\ RobAfter(g, racing) /\ Typed /\ Numbering /\ Typed' /\ ReportedStay
  BY InTimeStays DEF QueueInv, May, Turn
<1>2. PICK n \in Nat : n = CommitNum
  BY <1>1, CommitFacts
<1>3. /\ \A l \in mem_except' : l \in Loads /\ LoadAt(l) = n + LoadAt(l)' /\ LoadAt(l)' \in Nat
      /\ \A l \in violation' : \E i \in 1 .. Len(rob') : i < LoadAt(l)' /\ IsStore(i)' /\ ~rob'[i].fin
  BY <1>1, <1>2, ReportedNext
<1>4. ASSUME NEW l \in mem_except' PROVE \E i \in 1 .. Len(rob') : i < LoadAt(l)' /\ IsStore(i)'
  <2>1. l \in violation
    <3>1. mem_except' = Oldest(violation) /\ violation \subseteq Loads
      BY DEF Turn, Reported
    <3> QED
      BY <1>1, <1>4, <3>1, OldestFacts
  <2>2. PICK j \in 1 .. Len(rob) : j < LoadAt(l) /\ IsStore(j) /\ ~rob[j].fin
    BY <2>1 DEF InTime
  <2>3. j \in Nat /\ ~(j <= n)
    BY <1>1, <1>2, <2>2, CommitFacts, RobFacts
  <2>4. PICK i \in 1 .. Kept : j = n + i
    BY <1>1, <1>2, <2>3, Places
  <2>5. i \in DOMAIN rob' /\ i \in Nat /\ rob'[i].inst = rob[j].inst
    BY <1>1, <1>2, <2>4, Stays, Places
  <2>6. i \in 1 .. Len(rob') /\ IsStore(i)'
    BY <1>1, <2>2, <2>5, ListDef DEF Typed, IsStore
  <2>7. PICK x \in Nat, y \in Nat : x = LoadAt(l) /\ y = LoadAt(l)' /\ x = n + y
    BY <1>2, <1>3, <1>4
  <2>8. i < y
    BY ONLY <2>2, <2>4, <2>5, <2>7, n \in Nat, x \in Nat, y \in Nat
  <2> QED
    BY <2>6, <2>7, <2>8
<1> QED
  BY <1>3, <1>4 DEF InTime

\* While the indices tell ages, a load that is reported retires in no other way
\* than in the race, however many instructions commit in a cycle: the store that
\* found it stands in front of it, unfinished while the report is in violation.
THEOREM ReportInTime == Spec /\ []SqIndexTellsAge /\ []NoRace => []ReportedStay
<1>1. Init => Reported /\ InTime
  BY DEF Init, Reported, InTime
<1>2. /\ QueueInv /\ QueueInv' /\ RoomBehind /\ Reported /\ InTime /\ NoRace /\ [Next]_vars
      => Reported' /\ InTime'
  <2> SUFFICES ASSUME QueueInv, QueueInv', RoomBehind, Reported, InTime, NoRace, [Next]_vars
               PROVE  Reported' /\ InTime'
    OBVIOUS
  <2>1. Reported'
    BY InTimeStays, ReportedStep
  <2>2. CASE Squash
    BY <2>1, <2>2 DEF Squash, InTime
  <2>3. CASE Advance(Groups, FALSE)
    <3>1. PICK g \in Groups, issue \in AtMost(LDU_NUM, Issuable), stas \in AtMost(STU_NUM, NoAddress),
               stds \in AtMost(STU_NUM, NoData), racing \in SUBSET InS1 :
                 /\ Len(rob) - CommitNum + Len(g) <= ROB_SIZE
                 /\ Cycle(g, issue, stas, stds, racing)
      BY <2>3, Zenon DEF Advance
    <3>2. May(g, issue, stas, stds)
      BY <3>1 DEF May, AtMost
    <3>3. Turn(g, issue, stas, stds, racing)
      BY <3>1, <3>2, QueueCycle
    <3> QED
      BY <2>1, <3>2, <3>3, InTimeNext
  <2>4. CASE UNCHANGED vars
    <3>1. rob' = rob /\ violation' = violation /\ mem_except' = mem_except
      BY <2>4 DEF vars, pipeVars
    <3>2. \A l : LoadAt(l)' = LoadAt(l)
      BY <3>1 DEF LoadAt, IsLoad
    <3>3. InTime'
      BY <3>1, <3>2 DEF InTime, IsStore
    <3> QED
      BY <2>1, <3>3
  <2>5. InTime'
    BY <2>2, <2>3, <2>4 DEF Next
  <2> QED
    BY <2>1, <2>5
<1>3. NoRace /\ QueueInv /\ Reported /\ InTime => ReportedStay
  BY InTimeStays
<1> QED
  BY <1>1, <1>2, <1>3, RoomMeant, PTL DEF Spec

-----------------------------------------------------------------------------
(* What a load finds in the store queue. *)

\* the older stores that write byte b, with their address in the store queue
KnownWriters(i, b) ==
  {j \in 1 .. Len(rob) : /\ j < i /\ IsStore(j)
                         /\ sq[rob[j].sq.idx].addr_vld /\ b \in rob[j].inst.mask}

\* A load in s1 has found every one of them, and nothing else that has data.
Seen ==
  \A r \in s1 : \A b \in DOMAIN r.bytes :
    /\ r.bytes[b] \subseteq r.match
    /\ \A s \in r.bytes[b] :
         /\ s \in SqSlots
         /\ sq[s].data_vld => \E j \in KnownWriters(LoadAt(r.lq), b) : s = rob[j].sq.idx
    /\ \A j \in KnownWriters(LoadAt(r.lq), b) : rob[j].sq.idx \in r.bytes[b]

\* What the store queue holds at the end of the cycle.
LEMMA NxtFacts ==
  ASSUME QueueInv, NEW stas, stas \subseteq NoAddress, NEW stds, NEW s \in SqSlots
  PROVE  /\ NxtSq(stas, stds)[s].addr_vld <=> (sq[s].addr_vld \/ s \in stas)
         /\ sq[s].addr_vld \/ s \in stas =>
              /\ s \in Stores
              /\ NxtSq(stas, stds)[s].mask = rob[StoreAt(s)].inst.mask
              /\ NxtSq(stas, stds)[s].sqIdx = rob[StoreAt(s)].sq
<1>1. Typed /\ Numbering /\ StoresHeld /\ DOMAIN rob = 1 .. Len(rob)
  BY RobFacts DEF QueueInv
<1>2. NxtSq(stas, stds)[s] =
        [addr_vld |-> sq[s].addr_vld \/ s \in stas,
         data_vld |-> sq[s].data_vld \/ s \in stds,
         mask |-> IF s \in stas THEN rob[StoreAt(s)].inst.mask ELSE sq[s].mask,
         sqIdx |-> IF s \in stas THEN rob[StoreAt(s)].sq ELSE sq[s].sqIdx,
         data |-> IF s \in stds THEN rob[StoreAt(s)].inst.data ELSE sq[s].data]
  BY DEF NxtSq
<1>3. PICK u : u = NxtSq(stas, stds)[s]
  OBVIOUS
<1>4. /\ u.addr_vld = (sq[s].addr_vld \/ s \in stas)
      /\ u.mask = IF s \in stas THEN rob[StoreAt(s)].inst.mask ELSE sq[s].mask
      /\ u.sqIdx = IF s \in stas THEN rob[StoreAt(s)].sq ELSE sq[s].sqIdx
  BY <1>2, <1>3
<1>5. s \in stas => s \in Stores
  BY DEF NoAddress
<1>6. ASSUME sq[s].addr_vld
      PROVE  s \in Stores /\ sq[s].mask = rob[StoreAt(s)].inst.mask /\ sq[s].sqIdx = rob[StoreAt(s)].sq
  <2>1. s \in Stores
    BY <1>1, <1>6 DEF StoresHeld
  <2>2. PICK j \in 1 .. Len(rob) : j = StoreAt(s) /\ IsStore(j) /\ rob[j].sq.idx = s
    BY <1>1, <2>1, SlotFacts
  <2>3. StoreHeld(j)
    BY <1>1, <2>2 DEF StoresHeld
  <2> QED
    BY <1>6, <2>1, <2>2, <2>3 DEF StoreHeld
<1> QED
  BY <1>3, <1>4, <1>5, <1>6

\* The comparison with the stores finds the older ones with an address.
LEMMA MatchMeant ==
  ASSUME QueueInv, RoomBehind, NEW stas, stas \subseteq NoAddress, NEW stds, NEW l \in Loads
  PROVE  /\ \A s : s \in Matches(l, NxtSq(stas, stds)) <=>
                     /\ s \in SqSlots /\ s \in Stores /\ (sq[s].addr_vld \/ s \in stas)
                     /\ StoreAt(s) < LoadAt(l)
         /\ \A s, b : s \in Covering(l, NxtSq(stas, stds), b) <=>
                     s \in Matches(l, NxtSq(stas, stds)) /\ b \in rob[StoreAt(s)].inst.mask
<1>1. Typed /\ Numbering /\ DOMAIN rob = 1 .. Len(rob)
  BY RobFacts DEF QueueInv
<1>2. PICK i \in 1 .. Len(rob) : i = LoadAt(l) /\ IsLoad(i)
  BY <1>1, SlotFacts
<1>3. PICK N : N = NxtSq(stas, stds)
  OBVIOUS
<1>4. ASSUME NEW s \in SqSlots
      PROVE  /\ N[s].addr_vld <=> (sq[s].addr_vld \/ s \in stas)
             /\ sq[s].addr_vld \/ s \in stas =>
                  /\ s \in Stores /\ N[s].mask = rob[StoreAt(s)].inst.mask
                  /\ OlderThan(N[s].sqIdx, rob[i].sq) <=> StoreAt(s) < i
  <2>1. /\ N[s].addr_vld <=> (sq[s].addr_vld \/ s \in stas)
        /\ sq[s].addr_vld \/ s \in stas =>
             /\ s \in Stores
             /\ N[s].mask = rob[StoreAt(s)].inst.mask /\ N[s].sqIdx = rob[StoreAt(s)].sq
    BY <1>3, NxtFacts
  <2>2. ASSUME s \in Stores PROVE OlderThan(rob[StoreAt(s)].sq, rob[i].sq) <=> StoreAt(s) < i
    <3>1. PICK j \in 1 .. Len(rob) : j = StoreAt(s) /\ IsStore(j)
      BY <1>1, <2>2, SlotFacts
    <3>2. OlderThan(rob[j].sq, rob[i].sq) <=> j < i
      BY <1>1, <1>2, <3>1, AgeMeant DEF SqIndexTellsAge
    <3> QED
      BY <3>1, <3>2
  <2> QED
    BY <2>1, <2>2
<1>5. Matches(l, N) = {s \in SqSlots : N[s].addr_vld /\ OlderThan(N[s].sqIdx, rob[i].sq)}
  BY <1>2 DEF Matches
<1>6. Matches(l, N) = {s \in SqSlots : /\ sq[s].addr_vld \/ s \in stas
                                       /\ s \in Stores /\ StoreAt(s) < i}
  BY <1>4, <1>5
<1>7. ASSUME NEW b PROVE Covering(l, N, b) = {s \in Matches(l, N) : b \in rob[StoreAt(s)].inst.mask}
  <2>1. Covering(l, N, b) = {s \in Matches(l, N) : b \in N[s].mask}
    BY DEF Covering
  <2>2. \A s \in Matches(l, N) : N[s].mask = rob[StoreAt(s)].inst.mask
    BY <1>4, <1>6
  <2> QED
    BY <2>1, <2>2
<1>8. \A s : s \in Matches(l, N) <=> /\ s \in SqSlots /\ s \in Stores /\ (sq[s].addr_vld \/ s \in stas)
                                     /\ StoreAt(s) < i
  BY <1>6
<1>9. \A s, b : s \in Covering(l, N, b) <=> s \in Matches(l, N) /\ b \in rob[StoreAt(s)].inst.mask
  BY <1>7
<1> QED
  BY <1>2, <1>3, <1>8, <1>9, Zenon

\* A load that enters s1 has seen the stores that are known at the end of the
\* cycle: what commits in it is forgotten with its data.
LEMMA SeenNext ==
  ASSUME QueueInv, RoomBehind, NEW g, NEW issue, NEW stas, NEW stds, NEW racing,
         May(g, issue, stas, stds), Turn(g, issue, stas, stds, racing), QueueInv'
  PROVE  Seen'
<1>1. g \in Groups /\ RobAfter(g, racing) /\ Typed /\ Numbering /\ LoadsHeld /\ Typed' /\ Numbering'
  BY DEF May, Turn, QueueInv
<1>2. /\ s1' = {[lq |-> l, match |-> Matches(l, NxtSq(stas, stds)),
                  bytes |-> [b \in rob[LoadAt(l)].inst.mask |-> Covering(l, NxtSq(stas, stds), b)]] : l \in issue}
      /\ sq' = NextSq(NxtSq(stas, stds), StoresGone)
      /\ stas \subseteq NoAddress /\ stas \subseteq Stores
  BY DEF Turn, May, NoAddress
<1>3. PICK N, n : N = NxtSq(stas, stds) /\ n = CommitNum
  OBVIOUS
<1>4. ASSUME NEW r \in s1', NEW b \in DOMAIN r.bytes
      PROVE  /\ r.bytes[b] \subseteq r.match
             /\ \A s \in r.bytes[b] :
                  /\ s \in SqSlots
                  /\ sq'[s].data_vld => \E k \in KnownWriters(LoadAt(r.lq), b)' : s = rob'[k].sq.idx
             /\ \A k \in KnownWriters(LoadAt(r.lq), b)' : rob'[k].sq.idx \in r.bytes[b]
  <2>1. PICK l \in issue : r = [lq |-> l, match |-> Matches(l, N),
                                bytes |-> [x \in rob[LoadAt(l)].inst.mask |-> Covering(l, N, x)]]
    BY <1>2, <1>3
  <2>2. l \in Loads /\ ~Executed(LoadAt(l))
    BY DEF May, Issuable, Unexecuted, Executed
  <2>3. r.lq = l /\ r.match = Matches(l, N) /\ r.bytes[b] = Covering(l, N, b)
    BY <2>1
  <2>4. /\ \A s : s \in Matches(l, N) <=> /\ s \in SqSlots /\ s \in Stores /\ (sq[s].addr_vld \/ s \in stas)
                                           /\ StoreAt(s) < LoadAt(l)
        /\ \A s : s \in Covering(l, N, b) <=> s \in Matches(l, N) /\ b \in rob[StoreAt(s)].inst.mask
    BY <1>2, <1>3, <2>2, MatchMeant
  <2>5. ~rob[LoadAt(l)].fin
    <3>1. PICK j \in 1 .. Len(rob) : j = LoadAt(l) /\ IsLoad(j) /\ j \in DOMAIN rob
      BY <1>1, <2>2, SlotFacts, RobFacts
    <3> QED
      BY <1>1, <2>2, <3>1 DEF LoadsHeld, LoadHeld
  <2>6. PICK i \in 1 .. Kept : LoadAt(l) = n + i /\ LoadAt(l)' = i
    BY <1>1, <1>3, <2>2, <2>5, Unfinished, LoadMoves
  <2>7. LoadAt(r.lq)' = i
    BY <2>3, <2>6
  <2>8. n \in Nat /\ Kept \in Nat /\ i \in Nat
    BY <1>1, <1>3, Places
  <2>9. ASSUME NEW s \in Covering(l, N, b), sq'[s].data_vld
        PROVE  \E k \in KnownWriters(LoadAt(r.lq), b)' : s = rob'[k].sq.idx
    <3>1. /\ s \in SqSlots /\ s \in Stores /\ StoreAt(s) < n + i /\ b \in rob[StoreAt(s)].inst.mask
          /\ sq[s].addr_vld \/ s \in stas
      BY <2>4, <2>6
    <3>2. s \notin SqGone
      <4>1. s \in SqGone => sq'[s] = EmptyStore
        BY <1>2, <3>1, SqAfter
      <4>2. EmptyStore.data_vld = FALSE
        BY DEF EmptyStore
      <4> QED
        BY <2>9, <4>1, <4>2
    <3>3. sq'[s].addr_vld
      <4>1. sq'[s].addr_vld = (sq[s].addr_vld \/ s \in stas)
        BY <1>2, <3>1, <3>2, SqAfter
      <4> QED
        BY <3>1, <4>1
    <3>4. PICK k \in 1 .. Kept : StoreAt(s) = n + k /\ IsStore(k)' /\ rob'[k].sq.idx = s
      BY <1>1, <1>3, <3>1, <3>2, StoreMoves
    <3>5. k \in Nat /\ k < i
      BY <2>8, <3>1, <3>4
    <3>6. k \in 1 .. Len(rob') /\ rob'[k].inst = rob[StoreAt(s)].inst
      <4>1. k \in DOMAIN rob' /\ DOMAIN rob' = 1 .. Kept + Len(g) /\ Len(rob') = Kept + Len(g)
        BY <1>1, Places
      <4>2. rob'[k].inst = rob[StoreAt(s)].inst
        BY <1>1, <1>3, <3>4, Stays
      <4> QED
        BY <4>1, <4>2
    <3>7. k \in KnownWriters(LoadAt(r.lq), b)'
      BY <2>7, <3>1, <3>3, <3>4, <3>5, <3>6 DEF KnownWriters
    <3> QED
      BY <3>4, <3>7
  <2>10. ASSUME NEW k \in KnownWriters(LoadAt(r.lq), b)'
         PROVE  rob'[k].sq.idx \in Covering(l, N, b)
    <3>1. /\ k \in 1 .. Len(rob') /\ k < i /\ IsStore(k)'
          /\ sq'[rob'[k].sq.idx].addr_vld /\ b \in rob'[k].inst.mask
      BY <2>7 DEF KnownWriters
    <3>2. k \in 1 .. Kept
      <4>1. k \in Nat /\ Len(rob') \in Nat
        <5>1. Len(rob') = Kept + Len(g) /\ Len(g) \in Nat
          BY <1>1, Places
        <5> QED
          BY <2>8, <3>1, <5>1
      <4> QED
        BY <2>8, <3>1, <4>1
    <3>3. PICK j : j = n + k
      OBVIOUS
    <3>4. j \in 1 .. Len(rob) /\ rob'[k].inst = rob[j].inst /\ rob'[k].sq = rob[j].sq
      BY <1>1, <1>3, <3>2, <3>3, Stays
    <3>5. IsStore(j) /\ ~(j <= n)
      <4>1. j > n
        BY <2>8, <3>2, <3>3
      <4> QED
        BY <2>8, <3>1, <3>3, <3>4, <4>1 DEF IsStore
    <3>6. PICK s \in SqSlots : s = rob[j].sq.idx /\ s \in Stores /\ StoreAt(s) = j /\ s \notin SqGone
      BY <1>1, <1>3, <3>4, <3>5, SlotFacts, GoneSlots
    <3>7. sq[s].addr_vld \/ s \in stas
      <4>1. sq'[s].addr_vld
        BY <3>1, <3>4, <3>6
      <4>2. sq'[s].addr_vld = (sq[s].addr_vld \/ s \in stas)
        BY <1>2, <3>6, SqAfter
      <4> QED
        BY <4>1, <4>2
    <3>8. j < n + i
      BY <2>8, <3>1, <3>2, <3>3
    <3> QED
      BY <2>4, <2>6, <3>1, <3>4, <3>6, <3>7, <3>8
  <2>11. Covering(l, N, b) \subseteq Matches(l, N) /\ Covering(l, N, b) \subseteq SqSlots
    BY <2>4
  <2> QED
    BY <2>3, <2>9, <2>10, <2>11
<1> QED
  BY <1>4 DEF Seen

-----------------------------------------------------------------------------
(* What a load gets. *)

Newest(i, b, j) == j \in KnownWriters(i, b) /\ \A k \in KnownWriters(i, b) : k <= j

\* v is the byte b that the i-th instruction finds behind the known stores, on
\* top of memory m
ByteRight(i, b, v, m) ==
  /\ KnownWriters(i, b) = {} => v = m[b]
  /\ KnownWriters(i, b) # {} => \E j : Newest(i, b, j) /\ v = rob[j].inst.data

\* The nearer a store's slot is to a load's index, the younger the store.
LEMMA NearerYounger ==
  ASSUME QueueInv, RoomBehind, NEW l \in Loads,
         NEW j \in 1 .. Len(rob), IsStore(j), j < LoadAt(l),
         NEW k \in 1 .. Len(rob), IsStore(k), k < LoadAt(l),
         Distance(l, rob[j].sq.idx) <= Distance(l, rob[k].sq.idx)
  PROVE  k <= j
<1>1. Typed /\ Numbering /\ DOMAIN rob = 1 .. Len(rob) /\ Len(rob) \in Nat /\ SQSIZE \in Nat
  BY RobFacts, QueuesAssumption DEF QueueInv
<1>2. PICK i \in 1 .. Len(rob) : i = LoadAt(l) /\ IsLoad(i)
  BY <1>1, SlotFacts
<1>3. PICK d \in SqSlots :
        /\ d = st_deq_ptr
        /\ \A h \in DOMAIN rob : /\ Count("store", Program, h - 1) \in 0 .. SQSIZE
                                 /\ rob[h].sq.idx = Wrap(d + Count("store", Program, h - 1), SQSIZE)
  <2>1. PICK a \in Indices(SQSIZE) :
           /\ a.idx = st_deq_ptr
           /\ \A h \in DOMAIN rob :
                /\ Count("store", Program, h - 1) \in 0 .. SQSIZE
                /\ rob[h].sq.idx = Wrap(st_deq_ptr + Count("store", Program, h - 1), SQSIZE)
    BY SqPlaces
  <2>2. st_deq_ptr \in SqSlots
    BY <2>1 DEF Indices, SqSlots
  <2> QED
    BY <2>1, <2>2
<1>4. ASSUME NEW h \in 1 .. Len(rob), IsStore(h), h < i
      PROVE  /\ Count("store", Program, h - 1) \in Nat /\ Count("store", Program, i - 1) \in Nat
             /\ Distance(l, rob[h].sq.idx) = Count("store", Program, i - 1) - Count("store", Program, h - 1)
  <2>1. PICK x \in 0 .. SQSIZE, y \in 0 .. SQSIZE :
          /\ x = Count("store", Program, h - 1) /\ y = Count("store", Program, i - 1)
          /\ rob[h].sq.idx = Wrap(d + x, SQSIZE) /\ rob[i].sq.idx = Wrap(d + y, SQSIZE)
    BY <1>1, <1>3
  <2>2. x < y
    <3>1. h \in Nat \ {0} /\ i - 1 \in Nat /\ h <= i - 1
      BY <1>1, <1>4
    <3>2. Program[h].op = "store"
      BY <1>1, <1>4, RobFacts DEF IsStore
    <3> QED
      BY <2>1, <3>1, <3>2, CountBehind
  <2>3. PICK e : e = Wrap(d + y, SQSIZE) - Wrap(d + x, SQSIZE)
    OBVIOUS
  <2>4. (IF e > 0 THEN e ELSE e + SQSIZE) = y - x
    <3>1. x \in Nat /\ y \in Nat /\ y <= SQSIZE /\ d \in 0 .. SQSIZE - 1
      BY <1>1 DEF SqSlots
    <3> QED
      BY ONLY <1>1, <2>2, <2>3, <3>1 DEF Wrap
  <2>5. Distance(l, rob[h].sq.idx) = IF e > 0 THEN e ELSE e + SQSIZE
    BY <1>2, <2>1, <2>3 DEF Distance
  <2>6. x \in Nat /\ y \in Nat
    BY <1>1
  <2> QED
    BY <2>1, <2>4, <2>5, <2>6
<1>5. ASSUME j < k PROVE FALSE
  <2>1. PICK x \in Nat, y \in Nat, z \in Nat :
          /\ x = Count("store", Program, j - 1) /\ y = Count("store", Program, k - 1)
          /\ z = Count("store", Program, i - 1)
    BY <1>2, <1>4
  <2>2. z - x <= z - y
    <3>1. Distance(l, rob[j].sq.idx) = z - x /\ Distance(l, rob[k].sq.idx) = z - y
      BY <1>2, <1>4, <2>1
    <3> QED
      BY <3>1
  <2>3. x < y
    <3>1. j \in Nat \ {0} /\ k - 1 \in Nat /\ j <= k - 1
      BY <1>1, <1>5
    <3>2. Program[j].op = "store"
      BY <1>1, RobFacts DEF IsStore
    <3> QED
      BY <2>1, <3>1, <3>2, CountBehind
  <2> QED
    BY <2>2, <2>3
<1> QED
  BY <1>1, <1>5

\* A load that leaves s1 takes a byte from the newest known store that writes it.
LEMMA EntryNewest ==
  ASSUME QueueInv, RoomBehind, Seen, NEW r \in Ready, NEW b \in DOMAIN r.bytes
  PROVE  /\ r.bytes[b] = {} => KnownWriters(LoadAt(r.lq), b) = {}
         /\ r.bytes[b] # {} =>
              \E j : Newest(LoadAt(r.lq), b, j) /\ sq[Entry(r, b)].data = rob[j].inst.data
<1>1. Typed /\ Numbering /\ StoresHeld /\ DOMAIN rob = 1 .. Len(rob) /\ SQSIZE \in Nat
  BY RobFacts, QueuesAssumption DEF QueueInv
<1>2. r \in s1 /\ ForwardReady(r)
  BY DEF Ready
<1>3. PICK l \in Loads : l = r.lq
  BY <1>2 DEF QueueInv, Piped
<1>4. PICK W : W = KnownWriters(LoadAt(l), b)
  OBVIOUS
<1>5. /\ r.bytes[b] \subseteq r.match /\ r.bytes[b] \subseteq SqSlots
      /\ \A s \in r.bytes[b] : sq[s].data_vld => \E j \in W : s = rob[j].sq.idx
      /\ \A j \in W : rob[j].sq.idx \in r.bytes[b]
  BY <1>2, <1>3, <1>4 DEF Seen
<1>6. \A j \in W : j \in 1 .. Len(rob) /\ j < LoadAt(l) /\ IsStore(j)
  BY <1>4 DEF KnownWriters
<1>7. CASE r.bytes[b] = {}
  BY <1>3, <1>4, <1>5, <1>7
<1>8. CASE r.bytes[b] # {}
  <2>1. PICK c : c = Entry(r, b)
    OBVIOUS
  <2>2. c \in r.bytes[b] /\ \A t \in r.bytes[b] : Distance(l, c) <= Distance(l, t)
    <3>1. ASSUME NEW s \in SqSlots PROVE Distance(l, s) \in Nat
      <4>1. LoadAt(l) \in 1 .. Len(rob)
        BY <1>1, SlotFacts
      <4>2. rob[LoadAt(l)].sq.idx \in SqSlots
        BY <1>1, <4>1, RobFacts
      <4>3. PICK x \in SqSlots : x = rob[LoadAt(l)].sq.idx
        BY <4>2
      <4>4. Distance(l, s) = IF x - s > 0 THEN x - s ELSE x - s + SQSIZE
        BY <4>3 DEF Distance
      <4> QED
        BY <1>1, <4>4 DEF SqSlots
    <3> DEFINE T == {Distance(l, s) : s \in r.bytes[b]}
    <3>2. T \in SUBSET Nat /\ T # {}
      BY <1>5, <1>8, <3>1
    <3>3. PICK x \in T : \A y \in T : x <= y
      BY <3>2, LeastElement
    <3>4. \E s \in r.bytes[b] : \A t \in r.bytes[b] : Distance(l, s) <= Distance(l, t)
      BY <3>3
    <3>5. c = CHOOSE s \in r.bytes[b] : \A t \in r.bytes[b] : Distance(l, s) <= Distance(l, t)
      BY <1>3, <1>8, <2>1 DEF Entry
    <3> HIDE DEF T
    <3> QED
      BY <3>4, <3>5
  <2>3. sq[c].data_vld
    <3>1. r.match # {}
      BY <1>5, <1>8
    <3> QED
      BY <1>2, <2>1, <3>1 DEF ForwardReady
  <2>4. PICK j \in W : c = rob[j].sq.idx
    BY <1>5, <2>2, <2>3
  <2>5. ASSUME NEW k \in W PROVE k <= j
    <3>1. Distance(l, rob[j].sq.idx) <= Distance(l, rob[k].sq.idx)
      BY <1>5, <2>2, <2>4
    <3> QED
      BY <1>6, <3>1, NearerYounger
  <2>6. StoreHeld(j)
    BY <1>1, <1>6 DEF StoresHeld
  <2>7. sq[c].data = rob[j].inst.data
    BY <2>3, <2>4, <2>6 DEF StoreHeld
  <2> QED
    BY <1>3, <1>4, <1>8, <2>1, <2>5, <2>7 DEF Newest
<1> QED
  BY <1>7, <1>8

\* What it gets is right, on top of the memory it read.
LEMMA Forwarded ==
  ASSUME QueueInv, RoomBehind, Seen, NEW r \in Ready, NEW m, NEW b \in DOMAIN r.bytes
  PROVE  ByteRight(LoadAt(r.lq), b, Merged(r, m)[b], m)
<1>1. Merged(r, m)[b] = IF r.bytes[b] = {} THEN m[b] ELSE sq[Entry(r, b)].data
  BY DEF Merged
<1>2. CASE r.bytes[b] = {}
  <2>1. KnownWriters(LoadAt(r.lq), b) = {}
    BY <1>2, EntryNewest
  <2> QED
    BY <1>1, <1>2, <2>1 DEF ByteRight
<1>3. CASE r.bytes[b] # {}
  <2>1. PICK j : Newest(LoadAt(r.lq), b, j) /\ sq[Entry(r, b)].data = rob[j].inst.data
    BY <1>3, EntryNewest
  <2>2. KnownWriters(LoadAt(r.lq), b) # {}
    BY <2>1 DEF Newest
  <2> QED
    BY <1>1, <1>3, <2>1, <2>2 DEF ByteRight
<1> QED
  BY <1>2, <1>3

-----------------------------------------------------------------------------
(* What the loads have returned. *)

\* a load that runs again, or one in front of it, is on its way to the ROB
Covered(i) == \E l \in violation \union mem_except \union shr : LoadAt(l) <= i

\* What the loads that have executed returned.
ValuesRight ==
  \A i \in DOMAIN rob : IsLoad(i) /\ Executed(i) /\ ~Covered(i) =>
    /\ rob[i].val = [b \in rob[i].inst.mask |-> rob[i].val[b]]
    /\ \A b \in rob[i].inst.mask : ByteRight(i, b, rob[i].val[b], mem)

\* Counting passes every number on the way, each at one of those it counts.
LEMMA CountFinds ==
  ASSUME NEW op, NEW p, NEW n \in Nat, NEW k \in 0 .. Count(op, p, n) - 1
  PROVE  \E j \in 1 .. n : p[j].op = op /\ Count(op, p, j - 1) = k
<1> DEFINE S == {i \in 0 .. n : k < Count(op, p, i)}
<1>1. Count(op, p, n) \in Nat /\ k \in Nat /\ k < Count(op, p, n)
  BY CountType
<1>2. S \in SUBSET Nat /\ S # {}
  <2>1. n \in S
    BY <1>1
  <2> QED
    BY <2>1
<1>3. PICK j \in S : \A i \in S : j <= i
  <2> HIDE DEF S
  <2> QED
    BY <1>2, LeastElement
<1>4. j \in 0 .. n /\ j \in Nat /\ k < Count(op, p, j)
  BY <1>3
<1>5. j # 0
  <2>1. Count(op, p, 0) = 0
    BY CountStep
  <2> QED
    BY <1>1, <1>4, <2>1
<1>6. PICK i \in Nat : i = j - 1 /\ j = i + 1 /\ j \in 1 .. n
  BY <1>4, <1>5
<1>7. ~(k < Count(op, p, i))
  BY <1>3, <1>6
<1>8. PICK c \in Nat : /\ c = Count(op, p, i)
                       /\ Count(op, p, j) = c + (IF p[j].op = op THEN 1 ELSE 0)
  BY <1>6, CountStep
<1>9. p[j].op = op
  BY <1>1, <1>4, <1>7, <1>8
<1>10. c = k
  BY <1>1, <1>4, <1>7, <1>8, <1>9
<1> QED
  BY <1>6, <1>8, <1>9, <1>10

\* the stores among the first n instructions that write byte b
Writers(n, b) == {k \in 1 .. n : IsStore(k) /\ b \in rob[k].inst.mask}

\* The stores that commit write their bytes, the youngest last.
LEMMA Commits ==
  ASSUME QueueInv
  PROVE  /\ \A j \in 1 .. CommitNum : /\ j \in 1 .. Len(rob)
                                      /\ IsStore(j) => sq[rob[j].sq.idx].addr_vld
         /\ \A b \in Bytes : /\ Writers(CommitNum, b) = {} => Committed(StoresGone)[b] = mem[b]
                             /\ \A j \in Writers(CommitNum, b) :
                                  (\A k \in Writers(CommitNum, b) : k <= j) =>
                                    Committed(StoresGone)[b] = rob[j].inst.data
<1>1. Typed /\ StoresHeld /\ DOMAIN rob = 1 .. Len(rob) /\ Len(rob) \in Nat
  BY RobFacts DEF QueueInv
<1>2. PICK n \in Nat : n = CommitNum /\ \A j \in 1 .. n : j \in 1 .. Len(rob) /\ rob[j].fin
  BY <1>1, CommitFacts
<1>3. PICK p, d : /\ p = Program /\ d = st_deq_ptr
                  /\ \A h \in 1 .. Len(rob) :
                       rob[h].sq.idx = Wrap(d + Count("store", p, h - 1), SQSIZE)
  <2>1. PICK a \in Indices(SQSIZE) :
          \A h \in DOMAIN rob : rob[h].sq.idx = Wrap(st_deq_ptr + Count("store", Program, h - 1), SQSIZE)
    BY SqPlaces
  <2> QED
    BY <1>1, <2>1
<1>4. \A j \in 1 .. n : p[j].op = "store" <=> IsStore(j)
  BY <1>1, <1>2, <1>3, RobFacts DEF IsStore
<1>5. ASSUME NEW j \in 1 .. n, IsStore(j)
      PROVE  /\ sq[rob[j].sq.idx].addr_vld
             /\ sq[rob[j].sq.idx].mask = rob[j].inst.mask
             /\ sq[rob[j].sq.idx].data = rob[j].inst.data
  <2>1. StoreHeld(j) /\ rob[j].fin
    BY <1>1, <1>2, <1>5 DEF StoresHeld
  <2> QED
    BY <2>1 DEF StoreHeld
<1>6. PICK c \in Nat : c = StoresGone /\ c = Count("store", p, n)
  BY <1>2, <1>3, CountType DEF StoresGone
<1> DEFINE Nth(j) == Count("store", p, j - 1)
           At(k) == sq[Wrap(d + k, SQSIZE)]
<1>7. ASSUME NEW j \in 1 .. n, IsStore(j)
      PROVE  /\ Nth(j) \in 0 .. c - 1
             /\ At(Nth(j)).mask = rob[j].inst.mask /\ At(Nth(j)).data = rob[j].inst.data
  <2>1. Nth(j) \in Nat /\ Nth(j) < c
    BY <1>4, <1>6, <1>7, CountBehind
  <2>2. rob[j].sq.idx = Wrap(d + Nth(j), SQSIZE)
    BY <1>2, <1>3
  <2> QED
    BY <1>5, <1>7, <2>1, <2>2
<1>8. ASSUME NEW k \in 0 .. c - 1 PROVE \E j \in 1 .. n : IsStore(j) /\ Nth(j) = k
  BY <1>4, <1>6, CountFinds
<1>9. ASSUME NEW h \in 1 .. n, NEW j \in 1 .. n, h <= j PROVE Nth(h) <= Nth(j)
  <2>1. PICK x \in Nat, y \in Nat : x = h - 1 /\ y = j - 1 /\ x <= y
    BY <1>9
  <2> QED
    BY <2>1, CountUp
<1>10. ASSUME NEW b \in Bytes
       PROVE  /\ Writers(n, b) = {} => Committed(c)[b] = mem[b]
              /\ \A j \in Writers(n, b) : (\A k \in Writers(n, b) : k <= j) => Committed(c)[b] = rob[j].inst.data
  <2> DEFINE writers == {k \in 0 .. c - 1 : b \in sq[Wrap(d + k, SQSIZE)].mask}
  <2>1. Committed(c)[b] =
          IF writers = {} THEN mem[b]
          ELSE sq[Wrap(d + (CHOOSE k \in writers : \A j \in writers : j <= k), SQSIZE)].data
    BY <1>3 DEF Committed
  <2>2. \A k \in writers : k \in Nat /\ \E j \in Writers(n, b) : Nth(j) = k
    <3> TAKE k \in writers
    <3>1. PICK j \in 1 .. n : IsStore(j) /\ Nth(j) = k
      BY <1>8
    <3>2. b \in rob[j].inst.mask
      BY <1>7, <3>1
    <3> QED
      BY <3>1, <3>2 DEF Writers
  <2>3. \A j \in Writers(n, b) : Nth(j) \in writers
    BY <1>7 DEF Writers
  <2> HIDE DEF writers
  <2>4. ASSUME Writers(n, b) = {} PROVE Committed(c)[b] = mem[b]
    BY <2>1, <2>2, <2>4
  <2>5. ASSUME NEW j \in Writers(n, b), \A k \in Writers(n, b) : k <= j
        PROVE  Committed(c)[b] = rob[j].inst.data
    <3>1. PICK t : t = Nth(j)
      OBVIOUS
    <3>2. t \in writers /\ \A k \in writers : k <= t
      <4>1. \A h \in Writers(n, b) : Nth(h) <= Nth(j)
        BY <1>9, <2>5 DEF Writers
      <4> HIDE DEF Nth
      <4> QED
        BY <2>2, <2>3, <3>1, <4>1
    <3>3. \A k \in writers : (\A h \in writers : h <= k) => k = t
      <4> TAKE k \in writers
      <4>1. ASSUME \A h \in writers : h <= k PROVE k = t
        <5>1. k \in Nat /\ t \in Nat /\ k <= t /\ t <= k
          BY <2>2, <3>2, <4>1
        <5> QED
          BY <5>1
      <4> QED
        BY <4>1
    <3>4. (CHOOSE k \in writers : \A h \in writers : h <= k) = t
      BY <3>2, <3>3
    <3>5. Committed(c)[b] = At(t).data
      BY <2>1, <3>2, <3>4
    <3>6. j \in 1 .. n /\ IsStore(j)
      BY DEF Writers
    <3> QED
      BY <1>7, <3>1, <3>5, <3>6
  <2> QED
    BY <2>4, <2>5
<1> QED
  BY <1>2, <1>5, <1>6, <1>10

\* Who is covered stays so, and so is who a store finds.
LEMMA CoveredNext ==
  ASSUME QueueInv, RoomBehind, Reported, ReportedStay,
         NEW g, NEW issue, NEW stas, NEW stds, NEW racing,
         May(g, issue, stas, stds), Turn(g, issue, stas, stds, racing), QueueInv',
         NEW i \in 1 .. Kept, NEW j, j = CommitNum + i
  PROVE  /\ Covered(j) => Covered(i)'
         /\ \A s \in stas : \A l \in Violates(s, NxtLq(Success)) : LoadAt(l) <= j => Covered(i)'
<1>1. Typed /\ Numbering /\ g \in Groups /\ RobAfter(g, racing)
  BY DEF QueueInv, May, Turn
<1>2. /\ violation' = UNION {Oldest(Violates(s, NxtLq(Success))) : s \in stas}
      /\ mem_except' = Oldest(violation)
      /\ shr' = IF shr = {} THEN mem_except ELSE Oldest(shr \union mem_except)
      /\ stas \subseteq NoAddress
  BY DEF Turn, May
<1>3. PICK n \in Nat : n = CommitNum
  BY <1>1, Places
<1>4. i \in Nat /\ j = n + i
  BY <1>1, <1>3, Places
<1>5. \A l \in violation' \union mem_except' \union shr' :
         l \in Loads /\ LoadAt(l) = n + LoadAt(l)' /\ LoadAt(l)' \in Nat
  BY <1>3, ReportedNext
<1>6. \A l \in Loads : LoadAt(l) \in Nat
  BY <1>1, SlotFacts, RobFacts
<1>7. ASSUME NEW l \in violation' \union mem_except' \union shr', LoadAt(l) <= j PROVE Covered(i)'
  <2>1. LoadAt(l)' <= i
    <3>1. PICK x \in Nat : x = LoadAt(l)'
      BY <1>5
    <3>2. n + x <= n + i
      BY <1>4, <1>5, <1>7, <3>1
    <3>3. x <= i
      BY ONLY <1>4, <3>2, x \in Nat, n \in Nat
    <3> QED
      BY <3>1, <3>3
  <2>2. l \in (violation \union mem_except \union shr)'
    BY <1>7
  <2> QED
    BY <2>1, <2>2 DEF Covered
<1>8. ASSUME NEW S, S \subseteq Loads, NEW l \in S, LoadAt(l) <= j
      PROVE  \E k \in Oldest(S) : LoadAt(k) <= j
  <2>1. PICK k \in Oldest(S) : LoadAt(k) <= LoadAt(l)
    BY <1>1, <1>8, OldestFacts
  <2>2. k \in S
    BY <1>1, <1>8, OldestFacts
  <2>3. LoadAt(k) \in Nat /\ LoadAt(l) \in Nat
    BY <1>6, <1>8, <2>2
  <2> QED
    BY <1>4, <1>8, <2>1, <2>3
<1>9. violation \subseteq Loads /\ shr \union mem_except \subseteq Loads
  BY DEF Reported
<1>10. ASSUME Covered(j) PROVE Covered(i)'
  <2>1. PICK l \in violation \union mem_except \union shr : LoadAt(l) <= j
    BY <1>10 DEF Covered
  <2>2. CASE l \in violation
    <3>1. \E k \in mem_except' : LoadAt(k) <= j
      BY <1>2, <1>8, <1>9, <2>1, <2>2
    <3> QED
      BY <1>7, <3>1
  <2>3. CASE l \in shr \union mem_except
    <3>1. \E k \in shr' : LoadAt(k) <= j
      <4>1. CASE shr = {}
        BY <1>2, <2>1, <2>3, <4>1
      <4>2. CASE shr # {}
        BY <1>2, <1>8, <1>9, <2>1, <2>3, <4>2
      <4> QED
        BY <4>1, <4>2
    <3> QED
      BY <1>7, <3>1
  <2> QED
    BY <2>1, <2>2, <2>3
<1>11. ASSUME NEW s \in stas, NEW l \in Violates(s, NxtLq(Success)), LoadAt(l) <= j PROVE Covered(i)'
  <2>1. PICK V : V = Violates(s, NxtLq(Success))
    OBVIOUS
  <2>2. V \subseteq Loads /\ l \in V
    BY <1>2, <2>1, Found
  <2>3. PICK k \in Oldest(V) : LoadAt(k) <= j
    BY <1>8, <1>11, <2>2
  <2>4. k \in violation'
    BY <1>2, <2>1, <2>3
  <2> QED
    BY <1>7, <2>3, <2>4
<1> QED
  BY <1>10, <1>11

\* The known stores of a load, when no store that gets its address is one of them:
\* the same, without the one that commits.
LEMMA WritersNext ==
  ASSUME QueueInv, NEW g, NEW issue, NEW stas, NEW stds, NEW racing,
         May(g, issue, stas, stds), Turn(g, issue, stas, stds, racing), QueueInv',
         NEW i \in 1 .. Kept, NEW j, j = CommitNum + i, NEW b,
         \A s \in stas : ~(StoreAt(s) < j /\ b \in rob[StoreAt(s)].inst.mask)
  PROVE  /\ \A k \in KnownWriters(i, b)' : k \in 1 .. Kept /\ CommitNum + k \in KnownWriters(j, b)
         /\ \A h \in KnownWriters(j, b) :
              h <= CommitNum \/ \E k \in KnownWriters(i, b)' : h = CommitNum + k
         /\ \A k \in 1 .. Kept : rob'[k].inst = rob[CommitNum + k].inst
<1>1. Typed /\ Numbering /\ g \in Groups /\ RobAfter(g, racing) /\ Typed' /\ Numbering'
  BY DEF QueueInv, May, Turn
<1>2. sq' = NextSq(NxtSq(stas, stds), StoresGone) /\ stas \subseteq NoAddress
  BY DEF Turn, May
<1>3. PICK n \in Nat, m \in Nat, c \in Nat :
        n = CommitNum /\ m = Kept /\ c = Len(g) /\ Len(rob') = m + c /\ DOMAIN rob' = 1 .. m + c
  BY <1>1, Places, SMTT(60)
<1>4. i \in Nat /\ j = n + i /\ i <= m
  BY <1>3
<1>5. ASSUME NEW k \in 1 .. m, NEW h, h = n + k
      PROVE  /\ h \in 1 .. Len(rob) /\ k \in 1 .. m + c
             /\ rob'[k].inst = rob[h].inst
             /\ IsStore(k)' <=> IsStore(h)
             /\ IsStore(h) => \E s \in SqSlots :
                  /\ s = rob[h].sq.idx /\ s = rob'[k].sq.idx /\ s \in Stores /\ StoreAt(s) = h
                  /\ sq'[s].addr_vld = (sq[s].addr_vld \/ s \in stas)
  <2>1. /\ h \in 1 .. Len(rob) /\ k \in 1 .. m + c
        /\ rob'[k].inst = rob[h].inst /\ rob'[k].sq = rob[h].sq
    BY <1>1, <1>3, <1>5, Stays
  <2>2. ASSUME IsStore(h)
        PROVE  \E s \in SqSlots :
                  /\ s = rob[h].sq.idx /\ s = rob'[k].sq.idx /\ s \in Stores /\ StoreAt(s) = h
                  /\ sq'[s].addr_vld = (sq[s].addr_vld \/ s \in stas)
    <3>1. PICK s \in SqSlots : s = rob[h].sq.idx /\ s \in Stores /\ StoreAt(s) = h
      BY <1>1, <2>1, <2>2, SlotFacts
    <3>2. ~(h <= CommitNum)
      BY <1>3, <1>5
    <3>3. s \notin SqGone
      BY <1>1, <2>1, <2>2, <3>1, <3>2, GoneSlots
    <3>4. sq'[s].addr_vld = (sq[s].addr_vld \/ s \in stas)
      BY <1>2, <3>3, SqAfter
    <3> QED
      BY <2>1, <3>1, <3>4
  <2>3. IsStore(k)' <=> IsStore(h)
    BY <2>1 DEF IsStore
  <2> QED
    BY <2>1, <2>2, <2>3
<1>6. ASSUME NEW k \in KnownWriters(i, b)' PROVE k \in 1 .. m /\ n + k \in KnownWriters(j, b)
  <2>1. k \in 1 .. m + c /\ k < i /\ IsStore(k)' /\ sq'[rob'[k].sq.idx].addr_vld /\ b \in rob'[k].inst.mask
    BY <1>3 DEF KnownWriters
  <2>2. PICK h \in Nat : h = n + k /\ h < j
    BY <1>4, <2>1
  <2>3. k \in 1 .. m
    BY <1>4, <2>1
  <2>4. h \in 1 .. Len(rob) /\ IsStore(h) /\ rob'[k].inst = rob[h].inst
    BY <1>5, <2>1, <2>2, <2>3
  <2>5. PICK s \in SqSlots : /\ s = rob[h].sq.idx /\ s = rob'[k].sq.idx /\ StoreAt(s) = h
                             /\ sq'[s].addr_vld = (sq[s].addr_vld \/ s \in stas)
    BY <1>5, <2>2, <2>3, <2>4
  <2>6. s \notin stas
    BY <2>1, <2>2, <2>4, <2>5
  <2>7. sq[rob[h].sq.idx].addr_vld /\ b \in rob[h].inst.mask
    BY <2>1, <2>4, <2>5, <2>6
  <2> QED
    BY <2>2, <2>3, <2>4, <2>7 DEF KnownWriters
<1>7. ASSUME NEW h \in KnownWriters(j, b), ~(h <= n) PROVE \E k \in KnownWriters(i, b)' : h = n + k
  <2>1. h \in 1 .. Len(rob) /\ h < j /\ IsStore(h) /\ sq[rob[h].sq.idx].addr_vld /\ b \in rob[h].inst.mask
    BY DEF KnownWriters
  <2>2. PICK k \in 1 .. m : h = n + k
    BY <1>1, <1>3, <1>7, <2>1, Places
  <2>3. k < i
    BY <1>4, <2>1, <2>2
  <2>4. k \in 1 .. m + c /\ rob'[k].inst = rob[h].inst /\ IsStore(k)'
    BY <1>5, <2>1, <2>2
  <2>5. PICK s \in SqSlots : /\ s = rob[h].sq.idx /\ s = rob'[k].sq.idx
                             /\ sq'[s].addr_vld = (sq[s].addr_vld \/ s \in stas)
    BY <1>5, <2>1, <2>2
  <2>6. sq'[rob'[k].sq.idx].addr_vld /\ b \in rob'[k].inst.mask
    BY <2>1, <2>4, <2>5
  <2>7. k \in KnownWriters(i, b)'
    BY <1>3, <2>3, <2>4, <2>6 DEF KnownWriters
  <2> QED
    BY <2>2, <2>7
<1> QED
  BY <1>3, <1>5, <1>6, <1>7

\* A byte that is right stays right while instructions commit: what they write
\* to memory is what was found in the store queue.
LEMMA ByteNext ==
  ASSUME QueueInv, NEW g, NEW issue, NEW stas, NEW stds, NEW racing,
         May(g, issue, stas, stds), Turn(g, issue, stas, stds, racing), QueueInv',
         NEW i \in 1 .. Kept, NEW j, j = CommitNum + i, NEW b \in Bytes,
         \A s \in stas : ~(StoreAt(s) < j /\ b \in rob[StoreAt(s)].inst.mask),
         NEW v, NEW m \in {mem, Committed(StoresGone)}, ByteRight(j, b, v, m)
  PROVE  ByteRight(i, b, v, mem)'
<1>1. Typed /\ Numbering /\ g \in Groups /\ RobAfter(g, racing) /\ Len(rob) \in Nat
  BY RobFacts DEF QueueInv, May, Turn
<1>2. PICK n \in Nat : n = CommitNum
  BY <1>1, CommitFacts
<1>3. i \in Nat /\ i >= 1 /\ j = n + i
  BY <1>1, <1>2, Places
<1>4. PICK W, V, G : W = KnownWriters(j, b) /\ V = KnownWriters(i, b)' /\ G = Writers(n, b)
  OBVIOUS
<1>5. /\ \A k \in V : k \in 1 .. Kept /\ n + k \in W
      /\ \A h \in W : h <= n \/ \E k \in V : h = n + k
      /\ \A k \in 1 .. Kept : rob'[k].inst = rob[n + k].inst
  BY <1>2, <1>4, WritersNext
<1>6. \A h \in W : h \in 1 .. Len(rob) /\ h \in Nat /\ h < j /\ IsStore(h) /\ b \in rob[h].inst.mask
  BY <1>1, <1>4 DEF KnownWriters
<1>7. /\ G = {} => Committed(StoresGone)[b] = mem[b]
      /\ \A h \in G : (\A k \in G : k <= h) => Committed(StoresGone)[b] = rob[h].inst.data
  BY <1>2, <1>4, Commits
<1>8. mem' = Committed(StoresGone)
  BY DEF Turn
<1>9. G \subseteq W
  <2> SUFFICES ASSUME NEW h \in G PROVE h \in W
    OBVIOUS
  <2>1. h \in 1 .. n /\ IsStore(h) /\ b \in rob[h].inst.mask
    BY <1>4 DEF Writers
  <2>2. h \in 1 .. Len(rob) /\ sq[rob[h].sq.idx].addr_vld
    BY <1>2, <2>1, Commits
  <2>3. h < j
    BY <1>3, <2>1
  <2> QED
    BY <1>4, <2>1, <2>2, <2>3 DEF KnownWriters
<1>10. \A h \in W : h <= n => h \in G
  <2> SUFFICES ASSUME NEW h \in W, h <= n PROVE h \in G
    OBVIOUS
  <2>1. h \in 1 .. n
    BY <1>6
  <2> QED
    BY <1>4, <1>6, <2>1 DEF Writers
<1>11. /\ W = {} => v = m[b]
       /\ W # {} => \E h : h \in W /\ (\A k \in W : k <= h) /\ v = rob[h].inst.data
  BY <1>4 DEF ByteRight, Newest
<1>12. V = {} => v = mem'[b]
  <2>1. CASE W = {}
    <3>1. G = {}
      BY <1>9, <2>1
    <3>2. Committed(StoresGone)[b] = mem[b]
      BY <1>7, <3>1
    <3>3. m = mem \/ m = Committed(StoresGone)
      OBVIOUS
    <3>4. m[b] = mem'[b]
      BY <1>8, <3>2, <3>3
    <3> QED
      BY <1>11, <2>1, <3>4
  <2>2. CASE W # {} /\ V = {}
    <3>1. PICK h \in W : (\A k \in W : k <= h) /\ v = rob[h].inst.data
      BY <1>11, <2>2
    <3>2. h <= n
      BY <1>5, <2>2
    <3>3. h \in G /\ \A k \in G : k <= h
      BY <1>9, <1>10, <3>1, <3>2
    <3> QED
      BY <1>7, <1>8, <3>1, <3>3
  <2> QED
    BY <2>1, <2>2
<1>13. ASSUME V # {}
       PROVE  \E k : k \in V /\ (\A x \in V : x <= k) /\ v = rob'[k].inst.data
  <2>1. PICK y \in V : y \in Nat /\ y >= 1 /\ n + y \in W
    <3>1. Kept \in Nat
      BY <1>1, Places
    <3> QED
      BY <1>5, <1>13, <3>1
  <2>2. PICK h \in W : (\A k \in W : k <= h) /\ v = rob[h].inst.data
    BY <1>11, <2>1
  <2>3. ~(h <= n)
    <3>1. n + y <= h /\ h \in Nat
      BY <1>6, <2>1, <2>2
    <3> QED
      BY ONLY <3>1, <2>1, n \in Nat
  <2>4. PICK k \in V : h = n + k
    BY <1>5, <2>3
  <2>5. k \in 1 .. Kept /\ Kept \in Nat /\ rob'[k].inst = rob[h].inst
    BY <1>1, <1>5, <2>4, Places
  <2>6. ASSUME NEW x \in V PROVE x <= k
    <3>1. x \in Nat /\ n + x \in W
      BY <1>5, <2>5
    <3>2. n + x <= h
      BY <2>2, <3>1
    <3> QED
      BY ONLY <2>4, <2>5, <3>1, <3>2, n \in Nat
  <2> QED
    BY <2>2, <2>5, <2>6
<1>14. (KnownWriters(i, b)' = {} => v = mem'[b])
       /\ (KnownWriters(i, b)' # {} =>
             \E k : Newest(i, b, k)' /\ v = rob'[k].inst.data)
  BY <1>4, <1>12, <1>13 DEF Newest
<1> QED
  BY <1>14 DEF ByteRight

\* The values stay right.
LEMMA ValuesNext ==
  ASSUME QueueInv, RoomBehind, Reported, ReportedStay, Seen, ValuesRight,
         NEW g, NEW issue, NEW stas, NEW stds, NEW racing,
         May(g, issue, stas, stds), Turn(g, issue, stas, stds, racing), QueueInv'
  PROVE  ValuesRight'
<1>1. Typed /\ Numbering /\ g \in Groups /\ RobAfter(g, racing) /\ Typed' /\ Numbering'
  BY DEF QueueInv, May, Turn
<1>2. ASSUME NEW i \in 1 .. Kept, IsLoad(i)', Executed(i)', ~Covered(i)'
      PROVE  /\ rob'[i].val = [b \in rob'[i].inst.mask |-> rob'[i].val[b]]
             /\ \A b \in rob'[i].inst.mask : ByteRight(i, b, rob[i].val[b], mem)'
  <2>1. PICK j : j = CommitNum + i
    OBVIOUS
  <2>2. PICK l \in LqSlots : l = rob[j].lq.idx
    BY <1>1, <1>2, <2>1, LoadChange
  <2>3. /\ j \in 1 .. Len(rob) /\ IsLoad(j) /\ l \in Loads /\ LoadAt(l) = j
        /\ rob'[i].inst = rob[j].inst
        /\ Executed(i)' <=> Executed(j) \/ l \in Success
    BY <1>1, <1>2, <2>1, <2>2, LoadChange, ZenonT(60)
  <2>4. l \notin Success => rob'[i].val = rob[j].val
    BY <1>1, <1>2, <2>1, <2>2, LoadChange
  <2>5. l \in Success => rob'[i].val = Value(racing)[l]
    <3>1. rob'[i].val = IF IsLoad(j) /\ rob[j].lq.idx \in Success
                        THEN Value(racing)[rob[j].lq.idx] ELSE rob[j].val
      BY <1>1, <2>1, Stays
    <3> QED
      BY <2>2, <2>3, <3>1
  <2>6. /\ j \in 1 .. Len(rob) /\ IsLoad(j) /\ l \in Loads /\ LoadAt(l) = j
        /\ rob'[i].inst = rob[j].inst
        /\ Executed(i)' <=> Executed(j) \/ l \in Success
        /\ l \notin Success => rob'[i].val = rob[j].val
        /\ l \in Success => rob'[i].val = Value(racing)[l]
    BY <2>3, <2>4, <2>5
  <2>7. rob[j].inst.mask \subseteq Bytes /\ j \in Nat
    BY <1>1, <2>6, RobFacts
  <2>8. ASSUME NEW b \in rob[j].inst.mask, NEW s \in stas, StoreAt(s) < j, b \in rob[StoreAt(s)].inst.mask
        PROVE  FALSE
    <3>1. s \in NoAddress
      BY DEF May
    <3>2. rob[LoadAt(l)].inst.mask \intersect rob[StoreAt(s)].inst.mask # {}
      BY <2>6, <2>8
    <3>3. l \in Violates(s, NxtLq(Success))
      BY <1>2, <2>6, <2>8, <3>1, <3>2, Found
    <3>4. LoadAt(l) <= j
      BY <2>6, <2>7
    <3> QED
      BY <1>2, <2>1, <3>3, <3>4, CoveredNext
  <2>9. \E m \in {mem, Committed(StoresGone)} : \E v :
          /\ v = rob'[i].val
          /\ v = [b \in rob[j].inst.mask |-> v[b]]
          /\ \A b \in rob[j].inst.mask : ByteRight(j, b, v[b], m)
    <3>1. CASE l \in Success
      <4>1. PICK r \in Ready, m \in {mem, Committed(StoresGone)} :
              r \in s1 /\ r.lq = l /\ Value(racing)[l] = Merged(r, m)
        BY <3>1, ValueFacts
      <4>2. DOMAIN r.bytes = rob[j].inst.mask
        BY <2>6, <4>1 DEF QueueInv, Piped
      <4>3. PICK v : v = Merged(r, m)
        OBVIOUS
      <4>4. v = [b \in rob[j].inst.mask |-> v[b]]
        BY <4>2, <4>3 DEF Merged
      <4>5. \A b \in rob[j].inst.mask : ByteRight(j, b, v[b], m)
        BY <2>6, <4>1, <4>2, <4>3, Forwarded
      <4> QED
        BY <2>6, <3>1, <4>1, <4>3, <4>4, <4>5
    <3>2. CASE l \notin Success
      <4>1. Executed(j) /\ rob'[i].val = rob[j].val
        BY <1>2, <2>6, <3>2
      <4>2. ~Covered(j)
        BY <1>2, <2>1, CoveredNext
      <4>3. /\ rob[j].val = [b \in rob[j].inst.mask |-> rob[j].val[b]]
            /\ \A b \in rob[j].inst.mask : ByteRight(j, b, rob[j].val[b], mem)
        <5>1. j \in DOMAIN rob
          BY <1>1, <2>6, RobFacts
        <5> QED
          BY <2>6, <4>1, <4>2, <5>1 DEF ValuesRight
      <4> QED
        BY <4>1, <4>3
    <3> QED
      BY <3>1, <3>2
  <2>10. PICK m \in {mem, Committed(StoresGone)} :
          \E v : /\ v = rob'[i].val
                 /\ v = [b \in rob[j].inst.mask |-> v[b]]
                 /\ \A b \in rob[j].inst.mask : ByteRight(j, b, v[b], m)
    BY <2>9
  <2>11. PICK v : /\ v = rob'[i].val
                 /\ v = [b \in rob[j].inst.mask |-> v[b]]
                 /\ \A b \in rob[j].inst.mask : ByteRight(j, b, v[b], m)
    BY <2>10
  <2>12. ASSUME NEW b \in rob[j].inst.mask PROVE ByteRight(i, b, rob[i].val[b], mem)'
    <3>1. PICK w : w = v[b]
      OBVIOUS
    <3>2. ByteRight(j, b, w, m) /\ b \in Bytes
      BY <2>7, <2>11, <3>1
    <3>3. \A s \in stas : ~(StoreAt(s) < j /\ b \in rob[StoreAt(s)].inst.mask)
      BY <2>8
    <3>4. ByteRight(i, b, w, mem)'
      BY <2>1, <3>2, <3>3, ByteNext
    <3>5. w = rob'[i].val[b]
      BY <2>11, <3>1
    <3> QED
      BY <3>4, <3>5 DEF ByteRight
  <2> QED
    BY <2>6, <2>11, <2>12
<1>3. ASSUME NEW i \in DOMAIN rob', IsLoad(i)', Executed(i)' PROVE i \in 1 .. Kept
  <2>1. CASE \E h \in 1 .. Len(g) : i = Kept + h
    BY <1>1, <1>3, <2>1, Comes, ZenonT(60) DEF Executed
  <2> QED
    BY <1>1, <2>1, Places
<1> QED
  BY <1>2, <1>3 DEF ValuesRight

-----------------------------------------------------------------------------
(* The loads are right. *)

\* What makes the loads right.
MemInv == QueueInv /\ RoomBehind /\ Reported /\ Seen /\ ValuesRight

\* It always holds while the indices tell ages and no reported load retires.
LEMMA MemInvariance ==
  Spec /\ []SqIndexTellsAge /\ []ReportedStay => []MemInv
<1>1. Init => Seen /\ ValuesRight
  BY DEF Init, Seen, ValuesRight
<1>2. /\ QueueInv /\ RoomBehind /\ Reported /\ (QueueInv /\ RoomBehind /\ Reported)'
      /\ ReportedStay /\ Seen /\ ValuesRight /\ [Next]_vars
      => Seen' /\ ValuesRight'
  <2> SUFFICES ASSUME QueueInv, RoomBehind, Reported, ReportedStay, QueueInv', Seen, ValuesRight, [Next]_vars
               PROVE  Seen' /\ ValuesRight'
    OBVIOUS
  <2>1. CASE Squash
    BY <2>1 DEF Squash, Seen, ValuesRight
  <2>2. CASE Advance(Groups, FALSE)
    <3>1. PICK g \in Groups, issue \in AtMost(LDU_NUM, Issuable), stas \in AtMost(STU_NUM, NoAddress),
               stds \in AtMost(STU_NUM, NoData), racing \in SUBSET InS1 :
                 /\ Len(rob) - CommitNum + Len(g) <= ROB_SIZE
                 /\ Cycle(g, issue, stas, stds, racing)
      BY <2>2, Zenon DEF Advance
    <3>2. May(g, issue, stas, stds)
      BY <3>1 DEF May, AtMost
    <3>3. Turn(g, issue, stas, stds, racing)
      BY <3>1, <3>2, QueueCycle
    <3> QED
      BY <3>2, <3>3, SeenNext, ValuesNext
  <2>3. CASE UNCHANGED vars
    <3>1. /\ rob' = rob /\ sq' = sq /\ s1' = s1 /\ mem' = mem
          /\ violation' = violation /\ mem_except' = mem_except /\ shr' = shr
      BY <2>3 DEF vars, queueVars, pipeVars
    <3>2. \A l : LoadAt(l)' = LoadAt(l)
      BY <3>1 DEF LoadAt, IsLoad
    <3>3. \A i, b : KnownWriters(i, b)' = KnownWriters(i, b)
      BY <3>1 DEF KnownWriters, IsStore
    <3>4. Seen'
      BY <3>1, <3>2, <3>3 DEF Seen
    <3>5. \A i : Covered(i)' <=> Covered(i)
      BY <3>1, <3>2 DEF Covered
    <3>6. \A i : (IsLoad(i)' <=> IsLoad(i)) /\ (Executed(i)' <=> Executed(i))
      BY <3>1 DEF IsLoad, Executed
    <3>7. \A i, b : ByteRight(i, b, rob[i].val[b], mem)' <=> ByteRight(i, b, rob[i].val[b], mem)
      BY <3>1, <3>3 DEF ByteRight, Newest
    <3>8. ASSUME NEW i \in DOMAIN rob', IsLoad(i)', Executed(i)', ~Covered(i)'
           PROVE  /\ rob'[i].val = [b \in rob'[i].inst.mask |-> rob'[i].val[b]]
                  /\ \A b \in rob'[i].inst.mask : ByteRight(i, b, rob[i].val[b], mem)'
      <4>1. /\ rob[i].val = [b \in rob[i].inst.mask |-> rob[i].val[b]]
            /\ \A b \in rob[i].inst.mask : ByteRight(i, b, rob[i].val[b], mem)
        BY <3>1, <3>5, <3>6, <3>8 DEF ValuesRight
      <4> QED
        BY <3>1, <3>7, <4>1
    <3> QED
      BY <3>4, <3>8 DEF ValuesRight
  <2> QED
    BY <2>1, <2>2, <2>3 DEF Next
<1> QED
  BY <1>1, <1>2, ReportedInvariance, PTL DEF Spec, MemInv

-----------------------------------------------------------------------------
(* The sequential memory. *)

\* The memory that the first instructions leave behind.
LEMMA AfterFirst ==
  ASSUME Typed, NEW n \in 0 .. Len(rob), NEW b \in Bytes
  PROVE  /\ Writers(n, b) = {} => Sequential!After(mem, SubSeq(Program, 1, n))[b] = mem[b]
         /\ \A j \in Writers(n, b) : (\A k \in Writers(n, b) : k <= j) =>
              Sequential!After(mem, SubSeq(Program, 1, n))[b] = rob[j].inst.data
<1>1. Len(rob) \in Nat /\ DOMAIN rob = 1 .. Len(rob) /\ \A i \in 1 .. Len(rob) : Program[i] = rob[i].inst
  BY RobFacts
<1>2. IsList(Program) /\ Len(Program) = Len(rob)
  <2>1. DOMAIN Program = 1 .. Len(rob) /\ Program = [i \in 1 .. Len(rob) |-> Program[i]]
    BY <1>1 DEF Program
  <2> QED
    BY <1>1, <2>1, NewList
<1>3. PICK p : p = SubSeq(Program, 1, n)
  OBVIOUS
<1>4. DOMAIN p = 1 .. n /\ \A i \in 1 .. n : p[i] = rob[i].inst
  <2>1. n \in 0 .. Len(Program)
    BY <1>2
  <2>2. DOMAIN p = 1 .. n /\ \A i \in 1 .. n : p[i] = Program[i]
    BY <1>2, <1>3, <2>1, FrontOf
  <2>3. \A i \in 1 .. n : i \in 1 .. Len(rob)
    BY <1>1
  <2> QED
    BY <1>1, <2>2, <2>3
<1>5. {i \in DOMAIN p : p[i].op = "store" /\ b \in p[i].mask} = Writers(n, b)
  BY <1>4 DEF Writers, IsStore
<1>6. Sequential!After(mem, p)[b] =
        IF Writers(n, b) = {} THEN mem[b]
        ELSE p[CHOOSE i \in Writers(n, b) : \A j \in Writers(n, b) : j <= i].data
  <2> DEFINE writers == {i \in DOMAIN p : p[i].op = "store" /\ b \in p[i].mask}
  <2>1. Sequential!After(mem, p)[b] =
          IF writers = {} THEN mem[b]
          ELSE p[CHOOSE i \in writers : \A j \in writers : j <= i].data
    BY DEF Sequential!After
  <2>2. writers = Writers(n, b)
    BY <1>5
  <2> HIDE DEF writers
  <2> QED
    BY <2>1, <2>2
<1>7. ASSUME NEW j \in Writers(n, b), \A k \in Writers(n, b) : k <= j
      PROVE  Sequential!After(mem, p)[b] = rob[j].inst.data
  <2>1. \A k \in Writers(n, b) : k \in Nat /\ k \in 1 .. n
    BY DEF Writers
  <2>2. \A i \in Writers(n, b) : (\A k \in Writers(n, b) : k <= i) => i = j
    <3> TAKE i \in Writers(n, b)
    <3>1. ASSUME \A k \in Writers(n, b) : k <= i PROVE i = j
      <4>1. i <= j /\ j <= i /\ i \in Nat /\ j \in Nat
        BY <1>7, <2>1, <3>1
      <4> QED
        BY <4>1
    <3> QED
      BY <3>1
  <2>3. (CHOOSE i \in Writers(n, b) : \A k \in Writers(n, b) : k <= i) = j
    BY <1>7, <2>2
  <2>4. p[j] = rob[j].inst
    BY <1>4, <2>1
  <2> QED
    BY <1>6, <2>3, <2>4
<1> QED
  BY <1>3, <1>6, <1>7

\* A load with a value, behind stores whose addresses are all known, has the
\* right one unless it is covered.
LEMMA ValueMeant ==
  ASSUME MemInv, NEW i \in DOMAIN rob, IsLoad(i), Executed(i), ~Covered(i),
         \A j \in 1 .. i - 1 : IsStore(j) => sq[rob[j].sq.idx].addr_vld
  PROVE  rob[i].val = Sequential!Returned(mem, Program, i)
<1>1. Typed /\ Len(rob) \in Nat /\ DOMAIN rob = 1 .. Len(rob) /\ i \in 1 .. Len(rob)
  BY RobFacts DEF MemInv, QueueInv
<1>2. /\ Program[i] = rob[i].inst /\ rob[i].inst.mask \subseteq Bytes /\ Program[i].op = "load"
  BY <1>1, RobFacts DEF IsLoad
<1>3. PICK n \in Nat : n = i - 1 /\ n \in 0 .. Len(rob)
  BY <1>1
<1>4. PICK v, M : v = rob[i].val /\ M = rob[i].inst.mask
  OBVIOUS
<1>5. v = [b \in M |-> v[b]] /\ \A b \in M : ByteRight(i, b, v[b], mem)
  BY <1>4 DEF MemInv, ValuesRight
<1>6. ASSUME NEW b \in M PROVE v[b] = Sequential!After(mem, SubSeq(Program, 1, n))[b]
  <2>1. KnownWriters(i, b) = Writers(n, b)
    <3>1. \A j : j \in 1 .. Len(rob) /\ j < i <=> j \in 1 .. n
      BY <1>1, <1>3
    <3> QED
      BY <1>3, <3>1 DEF KnownWriters, Writers
  <2>2. b \in Bytes
    BY <1>2, <1>4
  <2>3. ByteRight(i, b, v[b], mem)
    BY <1>5
  <2>4. CASE Writers(n, b) = {}
    BY <1>1, <1>3, <2>1, <2>2, <2>3, <2>4, AfterFirst DEF ByteRight
  <2>5. CASE Writers(n, b) # {}
    <3>1. PICK j \in Writers(n, b) : (\A k \in Writers(n, b) : k <= j) /\ v[b] = rob[j].inst.data
      BY <2>1, <2>3, <2>5 DEF ByteRight, Newest
    <3> QED
      BY <1>1, <1>3, <2>2, <3>1, AfterFirst
  <2> QED
    BY <2>4, <2>5
<1>7. Sequential!Returned(mem, Program, i) = [b \in M |-> Sequential!After(mem, SubSeq(Program, 1, n))[b]]
  BY <1>2, <1>3, <1>4 DEF Sequential!Returned
<1> QED
  BY <1>4, <1>5, <1>6, <1>7

\* Of the two comparisons, the load's when it starts and the store's when it has
\* its address, one finds every load that ran too early.
THEOREM NoStaleLoadUnknown ==
  Spec /\ []SqIndexTellsAge /\ []ReportedStay => []StaleLoadsKnown
<1>1. MemInv => StaleLoadsKnown
  <2> SUFFICES ASSUME MemInv PROVE StaleLoadsKnown
    OBVIOUS
  <2>1. ASSUME NEW i \in DOMAIN rob, IsLoad(i), Executed(i),
               \A j \in 1 .. i - 1 : IsStore(j) => sq[rob[j].sq.idx].addr_vld
        PROVE  rob[i].val = Sequential!Returned(mem, Program, i) \/ Covered(i)
    BY <2>1, ValueMeant
  <2> QED
    BY <2>1 DEF StaleLoadsKnown, Covered, Executed
<1> QED
  BY <1>1, MemInvariance, PTL

-----------------------------------------------------------------------------
(* The sequential memory, refined. *)

\* Lists of the same length with the same elements.
LEMMA SameList ==
  ASSUME NEW s, NEW t, IsList(s), IsList(t), NEW n, Len(s) = n, Len(t) = n, \A i \in 1 .. n : s[i] = t[i]
  PROVE  s = t
<1>1. s = [i \in 1 .. n |-> s[i]] /\ t = [i \in 1 .. n |-> t[i]]
  BY ListDef
<1> QED
  BY <1>1

\* The program goes on with what is dispatched, behind what is left.
LEMMA ProgramAfter ==
  ASSUME Typed, Numbering, NEW g \in Groups, NEW racing, RobAfter(g, racing), Typed'
  PROVE  Program' = SubSeq(Program, CommitNum + 1, Len(Program)) \o g
<1>1. Len(rob) \in Nat /\ DOMAIN rob = 1 .. Len(rob)
  BY RobFacts
<1>2. PICK n \in Nat, k \in Nat, m \in Nat, l \in Nat :
        /\ n = CommitNum /\ k = Kept /\ m = Len(g) /\ l = Len(rob) /\ l = n + k
        /\ Len(rob') = k + m /\ DOMAIN rob' = 1 .. k + m
        /\ \A i \in 1 .. k + m : i \in 1 .. k \/ \E h \in 1 .. m : i = k + h
  BY Places, SMTT(60)
<1>3. IsList(Program) /\ Len(Program) = l
  <2>1. DOMAIN Program = 1 .. l /\ Program = [i \in 1 .. l |-> Program[i]]
    BY <1>1, <1>2 DEF Program
  <2> QED
    BY <2>1, NewList
<1>4. IsList(Program') /\ Len(Program') = k + m
  <2>1. DOMAIN Program' = 1 .. k + m /\ Program' = [i \in 1 .. k + m |-> Program'[i]]
    BY <1>2 DEF Program
  <2>2. k + m \in Nat
    OBVIOUS
  <2> QED
    BY <2>1, <2>2, NewList
<1>5. PICK t : t = SubSeq(Program, n + 1, l)
  OBVIOUS
<1>6. IsList(t) /\ Len(t) = k /\ \A i \in 1 .. k : t[i] = Program[n + i]
  <2> DEFINE S == {Program[i] : i \in n + 1 .. l}
  <2>1. \A i \in n + 1 .. l : Program[i] \in S
    OBVIOUS
  <2> HIDE DEF S
  <2>2. n + 1 \in Int /\ l \in Int
    OBVIOUS
  <2>3. /\ t \in Seq(S)
        /\ Len(t) = IF n + 1 <= l THEN l - (n + 1) + 1 ELSE 0
        /\ \A i \in 1 .. l - (n + 1) + 1 : t[i] = Program[n + 1 + i - 1]
    BY <1>5, <2>1, <2>2, SubSeqProperties
  <2>4. Len(t) = k /\ l - (n + 1) + 1 = k
    BY <1>2, <2>3
  <2>5. \A i \in 1 .. k : n + 1 + i - 1 = n + i
    OBVIOUS
  <2>6. IsList(t)
    <3>1. t \in [1 .. Len(t) -> S] /\ Len(t) \in Nat
      BY <2>3, LenProperties
    <3> QED
      BY <3>1, ListDef
  <2> QED
    BY <2>3, <2>4, <2>5, <2>6
<1>7. IsList(g)
  BY GroupFacts
<1>8. /\ IsList(t \o g) /\ Len(t \o g) = k + m
      /\ \A i \in 1 .. k : (t \o g)[i] = t[i]
      /\ \A i \in 1 .. m : (t \o g)[k + i] = g[i]
  <2>1. IsList(t) /\ IsList(g) /\ Len(t) = k /\ Len(g) = m
    BY <1>2, <1>6, <1>7
  <2>2. PICK u : u = t \o g
    OBVIOUS
  <2>3. /\ IsList(u)
        /\ Len(u) = Len(t) + Len(g)
        /\ \A i \in 1 .. Len(t) : u[i] = t[i]
        /\ \A i \in 1 .. Len(g) : u[Len(t) + i] = g[i]
    BY ONLY <2>1, <2>2, JoinedList
  <2> QED
    BY ONLY <2>1, <2>2, <2>3
<1>9. /\ \A i \in 1 .. k : Program'[i] = Program[n + i]
      /\ \A h \in 1 .. m : Program'[k + h] = g[h]
  BY <1>2, ProgramNext
<1>10. \A i \in 1 .. k + m : Program'[i] = (t \o g)[i]
  <2> TAKE i \in 1 .. k + m
  <2>1. CASE i \in 1 .. k
    BY <1>6, <1>8, <1>9, <2>1
  <2>2. CASE \E h \in 1 .. m : i = k + h
    BY <1>8, <1>9, <2>2
  <2> QED
    BY <1>2, <2>1, <2>2
<1>11. Program' = t \o g
  <2>1. PICK x, a, c : x = k + m /\ a = Program' /\ c = t \o g
    OBVIOUS
  <2>2. IsList(a) /\ IsList(c) /\ Len(a) = x /\ Len(c) = x /\ \A i \in 1 .. x : a[i] = c[i]
    BY ONLY <1>4, <1>8, <1>10, <2>1
  <2>3. a = c
    BY ONLY <2>2, SameList
  <2> QED
    BY ONLY <2>1, <2>3
<1>12. CommitNum = n /\ Len(Program) = l
  BY <1>2, <1>3
<1> QED
  BY ONLY <1>5, <1>11, <1>12

\* A set of places has a last one.
LEMMA GreatestElement ==
  ASSUME NEW n \in Nat, NEW S, S \subseteq 1 .. n, S # {}
  PROVE  \E m \in S : \A k \in S : k <= m
<1> DEFINE T == {n - k : k \in S}
<1>1. \A k \in S : k \in Nat /\ n - k \in Nat
  OBVIOUS
<1>2. T \in SUBSET Nat /\ T # {}
  BY <1>1
<1>3. PICK t \in T : \A x \in T : t <= x
  <2> HIDE DEF T
  <2> QED
    BY <1>2, LeastElement
<1>4. PICK m \in S : t = n - m
  BY <1>3
<1>5. \A k \in S : n - m <= n - k
  BY <1>3, <1>4
<1> QED
  BY <1>1, <1>5

\* A cycle executes what commits on the sequential memory.
LEMMA SequentialStep ==
  ASSUME MemInv, ReportedStay, NEW g, NEW issue, NEW stas, NEW stds, NEW racing,
         May(g, issue, stas, stds), Turn(g, issue, stas, stds, racing), Typed'
  PROVE  Sequential!Advance
<1>1. /\ QueueInv /\ Typed /\ Numbering /\ StoresHeld /\ LoadsHeld /\ Reported
      /\ g \in Groups /\ RobAfter(g, racing)
      /\ Len(rob) \in Nat /\ DOMAIN rob = 1 .. Len(rob)
  BY RobFacts DEF MemInv, QueueInv, May, Turn
<1>2. /\ mem' = Committed(StoresGone)
      /\ loaded' = [i \in 1 .. CommitNum |-> rob[i].val]
  BY DEF Turn
<1>3. PICK n \in Nat : /\ n = CommitNum /\ n \in 0 .. Len(rob) /\ n \in 0 .. COMMIT_WIDTH
                       /\ \A i \in 1 .. n : i \in DOMAIN rob /\ rob[i].fin
                       /\ \A i \in 1 .. n : IsStore(i) => sq[rob[i].sq.idx].addr_vld
  <2>1. CommitNum \in Nat /\ \A i \in 1 .. CommitNum : i \in 1 .. Len(rob)
    BY <1>1, CommitFacts
  <2> QED
    BY <1>1, <2>1, CommitFacts, Commits
<1>4. ASSUME NEW b \in Bytes PROVE mem'[b] = Sequential!After(mem, SubSeq(Program, 1, n))[b]
  <2>1. \A k \in Writers(n, b) : k \in 1 .. n
    BY DEF Writers
  <2>2. CASE Writers(n, b) = {}
    BY <1>1, <1>2, <1>3, <2>2, Commits, AfterFirst
  <2>3. CASE Writers(n, b) # {}
    <3>1. PICK j \in Writers(n, b) : \A k \in Writers(n, b) : k <= j
      BY <1>3, <2>1, <2>3, GreatestElement
    <3>2. mem'[b] = rob[j].inst.data
      BY <1>1, <1>2, <1>3, <3>1, Commits
    <3> QED
      BY <1>1, <1>3, <3>1, <3>2, AfterFirst
  <2> QED
    BY <2>2, <2>3
<1>5. mem' = Sequential!After(mem, SubSeq(Program, 1, n))
  <2>1. \A p : Sequential!After(mem, p) = [b \in Bytes |-> Sequential!After(mem, p)[b]]
    BY ONLY DEF Sequential!After
  <2>2. PICK a : a = Sequential!After(mem, SubSeq(Program, 1, n)) /\ a = [b \in Bytes |-> a[b]]
    BY <2>1
  <2>3. mem' = [b \in Bytes |-> mem'[b]]
    BY <1>2 DEF Committed
  <2> QED
    BY <1>4, <2>2, <2>3
<1>6. ASSUME NEW i \in 1 .. n PROVE rob[i].val = Sequential!Returned(mem, Program, i)
  <2>1. i \in DOMAIN rob /\ i \in 1 .. Len(rob) /\ rob[i].fin
    BY <1>1, <1>3
  <2>2. Program[i] = rob[i].inst /\ (IsStore(i) <=> ~IsLoad(i))
    BY <1>1, <2>1, RobFacts
  <2>3. CASE IsLoad(i)
    <3>1. Executed(i)
      BY <1>1, <2>1, <2>3 DEF LoadsHeld, LoadHeld
    <3>2. ~Covered(i)
      <4> SUFFICES ASSUME NEW x \in violation \union mem_except \union shr, LoadAt(x) <= i PROVE FALSE
        BY DEF Covered
      <4>1. PICK h \in 1 .. Len(rob) : h = LoadAt(x) /\ IsLoad(h) /\ rob[h].lq.idx = x
        BY <1>1, SlotFacts DEF Reported
      <4>2. h \in 1 .. n
        BY <1>1, <4>1
      <4>3. x \notin shr
        BY <1>1, <1>3, <4>1, <4>2, CommitFacts
      <4>4. x \notin violation \union mem_except
        BY <1>3, <4>1, <4>2 DEF ReportedStay
      <4> QED
        BY <4>3, <4>4
    <3>3. \A j \in 1 .. i - 1 : IsStore(j) => sq[rob[j].sq.idx].addr_vld
      BY <1>3
    <3> QED
      BY <2>1, <2>3, <3>1, <3>2, <3>3, ValueMeant
  <2>4. CASE ~IsLoad(i)
    <3>1. StoreHeld(i)
      BY <1>1, <2>1, <2>2, <2>4 DEF StoresHeld
    <3>2. rob[i].val = << >>
      BY <3>1 DEF StoreHeld, Executed, NotExecuted
    <3>3. Program[i].op # "load"
      BY <2>2, <2>4 DEF IsLoad
    <3>4. Sequential!Returned(mem, Program, i) = << >>
      BY <3>3 DEF Sequential!Returned
    <3> QED
      BY <3>2, <3>4
  <2> QED
    BY <2>3, <2>4
<1>7. loaded' = [i \in 1 .. n |-> Sequential!Returned(mem, Program, i)]
  BY <1>2, <1>3, <1>6
<1>8. PICK k : k = Len(g) /\ k \in 0 .. ROB_SIZE /\ g \in [1 .. k -> Insts]
  <2>1. Len(g) \in Nat /\ Kept \in Nat /\ Kept + Len(g) <= ROB_SIZE /\ ROB_SIZE \in Nat
    <3>1. Len(g) \in Nat /\ Kept \in Nat
      BY <1>1, Places
    <3>2. Kept + Len(g) <= ROB_SIZE
      BY DEF May, Kept
    <3> QED
      BY <3>1, <3>2, QueuesAssumption
  <2>2. PICK x \in 0 .. MEMDQ_DISP_WID : g \in [1 .. x -> Insts]
    BY <1>1 DEF Groups
  <2>3. MEMDQ_DISP_WID \in Nat /\ x \in Nat
    BY QueuesAssumption
  <2>4. DOMAIN g = 1 .. x /\ g = [i \in 1 .. x |-> g[i]]
    BY <2>2
  <2>5. Len(g) = x
    BY <2>3, <2>4, NewList
  <2>6. x \in 0 .. ROB_SIZE
    BY <2>1, <2>3, <2>5
  <2> QED
    BY <2>2, <2>5, <2>6
<1>9. Program' = SubSeq(Program, n + 1, Len(Program)) \o g
  BY <1>1, <1>3, ProgramAfter
<1>10. n <= Len(Program)
  <2>1. DOMAIN Program = 1 .. Len(rob) /\ Program = [i \in 1 .. Len(rob) |-> Program[i]]
    BY <1>1 DEF Program
  <2>2. Len(Program) = Len(rob)
    BY <1>1, <2>1, NewList
  <2> QED
    BY <1>1, <1>3, <2>2
<1> QED
  BY <1>3, <1>5, <1>7, <1>8, <1>9, <1>10 DEF Sequential!Advance

\* Loads and stores retire as on a memory that executes one after the other.
THEOREM SequentialRefinement ==
  Spec /\ []SqIndexTellsAge /\ []ReportedStay => ImplementsSequentialMemory
<1>1. Init => Sequential!Init
  <2> SUFFICES ASSUME Init PROVE Sequential!Init
    OBVIOUS
  <2>1. rob = << >> /\ mem \in [Bytes -> {0}] /\ loaded = << >>
    BY DEF Init
  <2>2. Program = << >>
    BY <2>1 DEF Program
  <2> QED
    BY <2>1, <2>2 DEF Sequential!Init
<1>2. MemInv /\ ReportedStay /\ MemInv' /\ [Next]_vars => [Sequential!Next]_<<mem, Program, loaded>>
  <2> SUFFICES ASSUME MemInv, ReportedStay, MemInv', [Next]_vars PROVE [Sequential!Next]_<<mem, Program, loaded>>
    OBVIOUS
  <2>1. CASE Squash
    <3>1. rob' = << >> /\ loaded' = << >> /\ mem' = mem
      BY <2>1 DEF Squash
    <3>2. Program' = << >>
      BY <3>1 DEF Program
    <3> QED
      BY <3>1, <3>2 DEF Sequential!Next, Sequential!Discard
  <2>2. CASE Advance(Groups, FALSE)
    <3>1. PICK g \in Groups, issue \in AtMost(LDU_NUM, Issuable), stas \in AtMost(STU_NUM, NoAddress),
               stds \in AtMost(STU_NUM, NoData), racing \in SUBSET InS1 :
                 /\ Len(rob) - CommitNum + Len(g) <= ROB_SIZE
                 /\ Cycle(g, issue, stas, stds, racing)
      BY <2>2, Zenon DEF Advance
    <3>2. May(g, issue, stas, stds)
      BY <3>1 DEF May, AtMost
    <3>3. Turn(g, issue, stas, stds, racing)
      BY <3>1, <3>2, QueueCycle DEF MemInv
    <3>4. Typed'
      BY DEF MemInv, QueueInv
    <3>5. Sequential!Advance
      BY <3>2, <3>3, <3>4, SequentialStep
    <3> QED
      BY <3>5 DEF Sequential!Next
  <2>3. CASE UNCHANGED vars
    <3>1. rob' = rob /\ mem' = mem /\ loaded' = loaded
      BY <2>3 DEF vars
    <3>2. Program' = Program
      BY <3>1 DEF Program
    <3> QED
      BY <3>1, <3>2
  <2> QED
    BY <2>1, <2>2, <2>3 DEF Next
<1> QED
  BY <1>1, <1>2, MemInvariance, PTL DEF Spec, ImplementsSequentialMemory, Sequential!Spec

\* Two things only can go wrong, whatever the sizes and the widths: while no load
\* has the whole store queue in front of it, and none retires in the race with
\* its report, the queues are consistent, stale loads are known, and loads and
\* stores retire as on a sequential memory.
THEOREM MemoryKept ==
  Spec /\ []RoomBehind /\ []NoRace =>
    []QueuesConsistent /\ []StaleLoadsKnown /\ ImplementsSequentialMemory
<1>1. Spec /\ []RoomBehind => []SqIndexTellsAge
  BY QueueInvariance, AgeMeant, PTL
<1>2. Spec /\ []RoomBehind /\ []NoRace => []SqIndexTellsAge /\ []ReportedStay
  BY <1>1, ReportInTime, PTL
<1> QED
  BY <1>2, Consistency, NoStaleLoadUnknown, SequentialRefinement
=============================================================================
